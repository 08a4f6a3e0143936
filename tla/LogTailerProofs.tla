-------------------------- MODULE LogTailerProofs ---------------------------
(***************************************************************************)
(* Proofs about LogTailer for logs of any length and any number of files:  *)
(* the tailer stays within the log, shows the newest line of its file when *)
(* it has come to the end, and never goes back.                            *)
(***************************************************************************)
EXTENDS LogTailer, SequenceTheorems, TLAPS

(* Files begin one after the other.                                        *)
Ordered ==
  \A f \in 1 .. Newest : starts[f] =< starts[Newest] /\ starts[f] =< Len(lines)

(* No line is begun while there is no file.                                *)
Rotating == gone => writing = "due"

(* What the tailer has behind it, it has applied; before the file that it  *)
(* has lost appears, there is nothing in that file that it has read.       *)
Caught == \A k \in Whole : starts[tail.file] < k /\ tail.since < k /\ k =< tail.pos
                             => k =< applied
Lost == IF gone THEN TRUE ELSE tail.pos =< starts[Newest]

Place ==
  phase = "running" =>
    /\ applied =< tail.pos
    /\ tail.file = 0 => Lost
    /\ tail.file # 0 => tail.pos =< EndOf(tail.file) /\ Caught

IInv == TypeOK /\ Ordered /\ Rotating /\ Place

USE LogTailerAssumption
-----------------------------------------------------------------------------
(* What an append does to the lines and to the files.                      *)
LEMMA Appended ==
  ASSUME NEW S, NEW s \in Seq(S), NEW e \in S
  PROVE  /\ Append(s, e) \in Seq(S) /\ Append(s, e) # <<>>
         /\ Len(Append(s, e)) = Len(s) + 1
         /\ \A i \in 1 .. Len(s) : Append(s, e)[i] = s[i]
         /\ Append(s, e)[Len(s) + 1] = e
BY AppendProperties

(* There is a file, and the numbers of lines are natural.                  *)
LEMMA Numbers ==
  ASSUME TypeOK
  PROVE  /\ Newest \in Nat \ {0} /\ Len(lines) \in Nat
         /\ \A f \in 1 .. Newest : starts[f] \in Nat
         /\ tail.file \in 0 .. Newest /\ tail.pos \in 0 .. Len(lines)
         /\ tail.since \in 0 .. Len(lines) + 1 /\ tail.next \in {"read", "check"}
         /\ applied \in 0 .. Len(lines)
<1>1. starts \in Seq(Nat) /\ starts # <<>> /\ lines \in Seq({"whole", "broken"})
  BY DEF TypeOK
<1>2. Len(starts) \in Nat \ {0} /\ Len(lines) \in Nat
  BY <1>1, EmptySeq, LenProperties
<1>3. \A f \in 1 .. Len(starts) : starts[f] \in Nat
  BY <1>1, ElementOfSeq
<1> QED BY <1>1, <1>2, <1>3 DEF TypeOK, Newest

(* A file ends where the next one begins, at the latest at the end.        *)
LEMMA Ends ==
  ASSUME TypeOK, Ordered, NEW f \in 1 .. Newest
  PROVE  /\ EndOf(f) \in Nat /\ EndOf(f) =< Len(lines)
         /\ f # Newest => EndOf(f) =< starts[Newest]
<1>1. CASE f < Newest
  <2>1. f + 1 \in 1 .. Newest BY <1>1, Numbers
  <2> QED BY <1>1, <2>1, Numbers DEF EndOf, Ordered
<1>2. CASE ~(f < Newest)
  BY <1>2, Numbers DEF EndOf
<1> QED BY <1>1, <1>2

LEMMA NowhereTyped ==
  ASSUME NEW f \in Nat, NEW n \in Nat
  PROVE  Nowhere \in [file : 0 .. f, pos : 0 .. n, next : {"read", "check"},
                      since : 0 .. n + 1]
BY DEF Nowhere

LEMMA InitInv == Init => IInv
<1> SUFFICES ASSUME Init PROVE IInv OBVIOUS
<1>1. /\ lines = <<>> /\ starts = <<0>> /\ Len(starts) = 1 /\ Len(lines) = 0
      /\ starts[1] = 0
  BY DEF Init
<1>2. TypeOK
  <2>1. lines \in Seq({"whole", "broken"}) /\ starts \in Seq(Nat) /\ starts # <<>>
    BY <1>1
  <2>2. tail \in [file : 0 .. Newest, pos : 0 .. Len(lines), next : {"read", "check"},
                  since : 0 .. Len(lines) + 1]
    BY <1>1, NowhereTyped DEF Init, Newest
  <2>3. applied \in 0 .. Len(lines) BY <1>1 DEF Init
  <2>4. /\ gone \in BOOLEAN /\ rest \in BOOLEAN
        /\ writing \in {"idle", "due", "half"}
        /\ phase \in {"down", "starting", "running"}
    BY DEF Init
  <2> QED BY <2>1, <2>2, <2>3, <2>4 DEF TypeOK
<1>3. Ordered BY <1>1 DEF Ordered, Newest
<1>4. Rotating /\ Place BY DEF Init, Rotating, Place
<1> QED BY <1>2, <1>3, <1>4 DEF IInv
-----------------------------------------------------------------------------
(* The steps of the firmware.                                              *)

LEMMA LogInv == IInv /\ Log => IInv'
BY DEF IInv, Log, console, TypeOK, Ordered, Rotating, Place, Caught, Lost, EndOf,
       Newest, Whole

LEMMA RotateInv == IInv /\ Rotate => IInv'
<1> SUFFICES ASSUME IInv, Rotate PROVE IInv' OBVIOUS
<1>1. TypeOK' BY DEF IInv, Rotate, console, TypeOK, Newest
<1>2. Ordered' /\ Rotating'
  BY DEF IInv, Rotate, Ordered, Rotating, Newest
<1>3. Place'
  BY DEF IInv, Rotate, console, Place, Caught, Lost, EndOf, Newest, Whole
<1> QED BY <1>1, <1>2, <1>3 DEF IInv

LEMMA CreateInv == IInv /\ Create => IInv'
<1> SUFFICES ASSUME IInv, Create PROVE IInv' OBVIOUS
<1> USE DEF Newest
<1>t. TypeOK /\ Ordered /\ Place BY DEF IInv
<1>n. starts \in Seq(Nat) /\ Len(lines) \in Nat /\ Newest \in Nat \ {0}
  BY <1>t, Numbers DEF TypeOK
<1>1. /\ starts' \in Seq(Nat) /\ starts' # <<>>
      /\ Newest' = Newest + 1
      /\ \A i \in 1 .. Newest : starts'[i] = starts[i]
      /\ starts'[Newest + 1] = Len(lines)
  BY <1>n, Appended DEF Create
<1>2. TypeOK'
  <2>1. tail' \in [file : 0 .. Newest', pos : 0 .. Len(lines'), next : {"read", "check"},
                   since : 0 .. Len(lines') + 1]
    BY <1>t, <1>n, <1>1 DEF Create, console, TypeOK
  <2> QED BY <1>t, <1>1, <2>1 DEF Create, console, TypeOK
<1>3. Ordered'
  BY <1>t, <1>n, <1>1, Numbers DEF Create, Ordered
<1>4. Rotating' BY DEF Create, Rotating
<1>5. ASSUME phase = "running"
      PROVE  /\ applied =< tail.pos
             /\ tail.file = 0 => Lost'
             /\ tail.file # 0 => tail.pos =< EndOf(tail.file)' /\ Caught'
  <2>1. applied =< tail.pos BY <1>t, <1>5 DEF Place
  <2>2. tail.file = 0 => Lost'
    BY <1>t, <1>n, <1>1, Numbers DEF Create, console, Lost
  <2>3. ASSUME tail.file # 0 PROVE tail.pos =< EndOf(tail.file)' /\ Caught'
    <3>1. tail.file \in 1 .. Newest BY <2>3, <1>t, Numbers
    <3>2. EndOf(tail.file)' = EndOf(tail.file)
      BY <3>1, <1>n, <1>1 DEF Create, console, EndOf
    <3>3. starts'[tail.file] = starts[tail.file] BY <3>1, <1>1
    <3>4. Caught'
      BY <1>5, <2>3, <3>3, <1>t DEF Create, console, Place, Caught, Whole
    <3> QED BY <1>5, <2>3, <3>2, <3>4, <1>t DEF Place
  <2> QED BY <2>1, <2>2, <2>3
<1>6. Place' BY <1>5 DEF Create, console, Place
<1> QED BY <1>2, <1>3, <1>4, <1>6 DEF IInv

LEMMA WriteHalfInv == IInv /\ WriteHalf => IInv'
BY DEF IInv, WriteHalf, console, TypeOK, Ordered, Rotating, Place, Caught, Lost,
       EndOf, Newest, Whole

LEMMA WriteRestInv == IInv /\ WriteRest => IInv'
<1> SUFFICES ASSUME IInv, WriteRest PROVE IInv' OBVIOUS
<1> USE DEF Newest
<1>t. TypeOK /\ Ordered /\ Rotating /\ Place BY DEF IInv
<1>n. /\ lines \in Seq({"whole", "broken"}) /\ rest \in BOOLEAN /\ Len(lines) \in Nat
      /\ Newest \in Nat \ {0}
  BY <1>t, Numbers DEF TypeOK
<1>1. /\ lines' \in Seq({"whole", "broken"})
      /\ Len(lines') = Len(lines) + 1
      /\ \A i \in 1 .. Len(lines) : lines'[i] = lines[i]
  <2>1. (IF rest THEN "broken" ELSE "whole") \in {"whole", "broken"} OBVIOUS
  <2> QED BY <1>n, <2>1, Appended DEF WriteRest
<1>2. TypeOK'
  <2>1. tail' \in [file : 0 .. Newest', pos : 0 .. Len(lines'), next : {"read", "check"},
                   since : 0 .. Len(lines') + 1]
    <3>1. tail \in [file : 0 .. Newest, pos : 0 .. Len(lines), next : {"read", "check"},
                    since : 0 .. Len(lines) + 1]
      BY <1>t DEF TypeOK
    <3> QED BY <3>1, <1>n, <1>1 DEF WriteRest, console
  <2>2. applied' \in 0 .. Len(lines') BY <1>t, <1>n, <1>1 DEF WriteRest, console, TypeOK
  <2> QED BY <1>t, <1>1, <2>1, <2>2 DEF WriteRest, console, TypeOK
<1>3. Ordered' /\ Rotating'
  BY <1>t, <1>n, <1>1, Numbers DEF WriteRest, Ordered, Rotating
<1>5. ASSUME phase = "running"
      PROVE  /\ applied =< tail.pos
             /\ tail.file = 0 => Lost'
             /\ tail.file # 0 => tail.pos =< EndOf(tail.file)' /\ Caught'
  <2>1. applied =< tail.pos BY <1>t, <1>5 DEF Place
  <2>2. tail.file = 0 => Lost'
    BY <1>t, <1>5 DEF WriteRest, console, Rotating, Place, Lost
  <2>3. ASSUME tail.file # 0 PROVE tail.pos =< EndOf(tail.file)' /\ Caught'
    <3>1. tail.file \in 1 .. Newest /\ tail.pos \in 0 .. Len(lines)
      BY <2>3, <1>t, Numbers
    <3>2. EndOf(tail.file)' >= EndOf(tail.file)
      BY <3>1, <1>n, <1>1, <1>t, Ends DEF WriteRest, console, EndOf
    <3>3. tail.pos =< EndOf(tail.file) /\ Caught BY <1>5, <2>3, <1>t DEF Place
    <3>4. tail.pos =< EndOf(tail.file)'
      <4>1. EndOf(tail.file)' \in Nat /\ EndOf(tail.file) \in Nat
        BY <3>1, <1>n, <1>1, <1>t, Ends, Numbers DEF WriteRest, console, EndOf
      <4> QED BY <3>1, <3>2, <3>3, <4>1
    <3>5. ASSUME NEW k \in Whole', k =< tail.pos PROVE k \in Whole
      BY <3>1, <3>5, <1>n, <1>1 DEF Whole
    <3>6. Caught' BY <3>3, <3>5 DEF WriteRest, console, Caught
    <3> QED BY <3>4, <3>6
  <2> QED BY <2>1, <2>2, <2>3
<1>6. Place' BY <1>5 DEF WriteRest, console, Place
<1> QED BY <1>2, <1>3, <1>6 DEF IInv

LEMMA PowerLossInv == IInv /\ PowerLoss => IInv'
<1> SUFFICES ASSUME IInv, PowerLoss PROVE IInv' OBVIOUS
<1> USE DEF Newest
<1>t. TypeOK /\ Ordered BY DEF IInv
<1>n. starts \in Seq(Nat) /\ starts # <<>> /\ Len(lines) \in Nat /\ Newest \in Nat \ {0}
  BY <1>t, Numbers DEF TypeOK
<1>1. /\ Append(starts, Len(lines)) \in Seq(Nat) /\ Append(starts, Len(lines)) # <<>>
      /\ Len(Append(starts, Len(lines))) = Newest + 1
      /\ \A i \in 1 .. Newest : Append(starts, Len(lines))[i] = starts[i]
      /\ Append(starts, Len(lines))[Newest + 1] = Len(lines)
  BY <1>n, Appended
<1>2. starts' \in Seq(Nat) /\ starts' # <<>> /\ Newest' \in Nat
  BY <1>n, <1>1 DEF PowerLoss
<1>3. TypeOK'
  <2>1. tail' \in [file : 0 .. Newest', pos : 0 .. Len(lines'),
                   next : {"read", "check"}, since : 0 .. Len(lines') + 1]
    BY <1>n, <1>2, NowhereTyped DEF PowerLoss
  <2>2. rest' \in BOOLEAN BY <1>t DEF PowerLoss, TypeOK
  <2>3. applied' \in 0 .. Len(lines') BY <1>n DEF PowerLoss
  <2>4. /\ lines' \in Seq({"whole", "broken"}) /\ gone' \in BOOLEAN
        /\ writing' \in {"idle", "due", "half"}
        /\ phase' \in {"down", "starting", "running"}
    BY <1>t DEF PowerLoss, TypeOK
  <2> QED BY <1>2, <2>1, <2>2, <2>3, <2>4 DEF TypeOK
<1>4. Ordered'
  <2>1. CASE gone BY <2>1, <1>t, <1>n, <1>1, Numbers DEF PowerLoss, Ordered
  <2>2. CASE ~gone BY <2>2, <1>t DEF PowerLoss, Ordered
  <2> QED BY <2>1, <2>2
<1>5. Rotating' /\ Place' BY DEF PowerLoss, Rotating, Place
<1> QED BY <1>3, <1>4, <1>5 DEF IInv
-----------------------------------------------------------------------------
(* The steps of the console.                                               *)

LEMMA BootInv == IInv /\ Boot => IInv'
<1> SUFFICES ASSUME IInv, Boot PROVE IInv' OBVIOUS
<1>1. applied' \in 0 .. Len(lines) BY Numbers DEF IInv, Boot, Whole
<1>2. TypeOK' BY <1>1 DEF IInv, Boot, firmware, TypeOK, Newest
<1>3. Ordered' /\ Rotating' /\ Place'
  BY DEF IInv, Boot, firmware, Ordered, Rotating, Place, Newest
<1> QED BY <1>2, <1>3 DEF IInv

LEMMA OpenInv == IInv /\ Open => IInv'
<1> SUFFICES ASSUME IInv, Open PROVE IInv' OBVIOUS
<1>t. TypeOK /\ Ordered /\ Rotating BY DEF IInv
<1>1. tail' \in [file : 0 .. Newest, pos : 0 .. Len(lines), next : {"read", "check"},
                 since : 0 .. Len(lines) + 1]
  BY <1>t, Numbers DEF Open
<1>2. TypeOK' BY <1>1, <1>t DEF Open, firmware, TypeOK, Newest
<1>3. Ordered' /\ Rotating'
  BY <1>t DEF Open, firmware, Ordered, Rotating, Newest
<1>4. /\ tail'.pos = Len(lines) /\ tail'.since >= Len(lines)
      /\ tail'.file = IF gone THEN 0 ELSE Newest
  BY <1>t, Numbers DEF Open
<1>5. applied' =< tail'.pos BY <1>4, <1>t, Numbers DEF Open
<1>6. tail'.file = 0 => Lost' BY <1>4, <1>t, Numbers DEF Open, firmware, Lost
<1>7. tail'.file # 0 => tail'.pos =< EndOf(tail.file)'
  BY <1>4, <1>t, Numbers DEF Open, firmware, EndOf, Newest
<1>8. Caught' BY <1>4, <1>t, Numbers DEF Open, firmware, Caught, Whole
<1>9. Place' BY <1>5, <1>6, <1>7, <1>8 DEF Place
<1> QED BY <1>2, <1>3, <1>9 DEF IInv

(* Where a step of the tailer may lead.                                    *)
LEMMA FollowKeeps ==
  ASSUME IInv, Following,
         tail' \in [file : 0 .. Newest, pos : 0 .. Len(lines), next : {"read", "check"},
                    since : 0 .. Len(lines) + 1],
         applied' \in 0 .. Len(lines),
         Place'
  PROVE  IInv'
<1>1. TypeOK' BY DEF IInv, Following, firmware, TypeOK, Newest
<1>2. Ordered' /\ Rotating'
  BY DEF IInv, Following, firmware, Ordered, Rotating, Newest
<1> QED BY <1>1, <1>2 DEF IInv

LEMMA ReadLineInv == IInv /\ ReadLine => IInv' /\ applied' >= applied
<1> SUFFICES ASSUME IInv, ReadLine PROVE IInv' /\ applied' >= applied OBVIOUS
<1>t. TypeOK /\ Ordered /\ Place /\ Following BY DEF IInv, ReadLine
<1>n. /\ tail.file \in 1 .. Newest /\ tail.pos \in Nat /\ Len(lines) \in Nat
      /\ applied \in Nat /\ applied =< tail.pos /\ Caught
      /\ tail.since \in Nat
  BY <1>t, Numbers DEF ReadLine, Following, Place
<1>1. tail.pos + 1 =< EndOf(tail.file) /\ tail.pos + 1 =< Len(lines)
  BY <1>t, <1>n, Ends DEF ReadLine
<1>2. tail' \in [file : 0 .. Newest, pos : 0 .. Len(lines), next : {"read", "check"},
                 since : 0 .. Len(lines) + 1]
  <2>1. tail \in [file : 0 .. Newest, pos : 0 .. Len(lines), next : {"read", "check"},
                  since : 0 .. Len(lines) + 1]
    BY <1>t DEF TypeOK
  <2> QED BY <2>1, <1>n, <1>1 DEF ReadLine
<1>3. /\ tail'.file = tail.file /\ tail'.pos = tail.pos + 1
      /\ tail'.since = tail.since
  BY <1>t DEF ReadLine, TypeOK
<1>4. applied' \in {applied, tail.pos + 1} BY DEF ReadLine
<1>5. applied' \in 0 .. Len(lines) BY <1>4, <1>1, <1>n, <1>t, Numbers
<1>6. applied' =< tail'.pos /\ applied' >= applied BY <1>3, <1>4, <1>n
<1>7. tail'.pos =< EndOf(tail.file)'
  BY <1>1, <1>3 DEF ReadLine, Following, firmware, EndOf, Newest
<1>8. Caught'
  <2> SUFFICES ASSUME NEW k \in Whole, starts[tail.file] < k, tail.since < k,
                      k =< tail.pos + 1
               PROVE  k =< applied'
    BY <1>3, <1>t DEF Following, firmware, Caught, Whole
  <2>0. k \in Nat BY <1>n DEF Whole
  <2>1. CASE k = tail.pos + 1
    <3>1. lines[tail.pos + 1] = "whole" BY <2>1 DEF Whole
    <3>2. tail.pos >= tail.since BY <2>1, <1>n
    <3> QED BY <2>1, <3>1, <3>2, <1>n DEF ReadLine
  <2>2. CASE k # tail.pos + 1
    <3>1. k =< tail.pos BY <2>0, <2>2, <1>n
    <3>2. k =< applied BY <3>1, <1>n DEF Caught
    <3> QED BY <3>2, <2>0, <1>4, <1>6, <1>n
  <2> QED BY <2>1, <2>2
<1>9. Place' BY <1>3, <1>6, <1>7, <1>8, <1>n DEF Place
<1> QED BY <1>2, <1>5, <1>6, <1>9, <1>t, FollowKeeps

LEMMA EndInv ==
  ASSUME IInv, Following, NEW n \in {"read", "check"},
         tail' = [tail EXCEPT !.next = n],
         applied' = applied
  PROVE  IInv'
<1>t. TypeOK /\ Place BY DEF IInv
<1>1. tail' \in [file : 0 .. Newest, pos : 0 .. Len(lines), next : {"read", "check"},
                 since : 0 .. Len(lines) + 1]
  <2>1. tail \in [file : 0 .. Newest, pos : 0 .. Len(lines), next : {"read", "check"},
                  since : 0 .. Len(lines) + 1]
    BY <1>t DEF TypeOK
  <2> QED BY <2>1
<1>2. /\ tail'.file = tail.file /\ tail'.pos = tail.pos
      /\ tail'.since = tail.since
  BY <1>t DEF TypeOK
<1>3. Place'
  BY <1>2, <1>t DEF Following, firmware, Place, Lost, Caught, EndOf, Newest, Whole
<1> QED BY <1>1, <1>3, <1>t, FollowKeeps DEF TypeOK

(* The place of a tailer that has opened a file, or found none.            *)
LEMMA Moved ==
  ASSUME NEW f \in Nat, NEW n \in Nat,
         NEW t \in [file : 0 .. f, pos : 0 .. n, next : {"read", "check"},
                    since : 0 .. n + 1],
         NEW g \in 0 .. f, NEW p \in 0 .. n, NEW q \in 0 .. n + 1
  PROVE  [t EXCEPT !.file = g, !.next = "read", !.pos = p, !.since = q] \in
           [file : 0 .. f, pos : 0 .. n, next : {"read", "check"}, since : 0 .. n + 1]
<1>1. [t EXCEPT !.file = g] \in [file : 0 .. f, pos : 0 .. n, next : {"read", "check"},
                                 since : 0 .. n + 1]
  OBVIOUS
<1>2. [t EXCEPT !.file = g, !.next = "read"] \in
        [file : 0 .. f, pos : 0 .. n, next : {"read", "check"}, since : 0 .. n + 1]
  BY <1>1
<1>3. [t EXCEPT !.file = g, !.next = "read", !.pos = p] \in
        [file : 0 .. f, pos : 0 .. n, next : {"read", "check"}, since : 0 .. n + 1]
  BY <1>2
<1> QED BY <1>3

LEMMA ReopenedInv ==
  ASSUME IInv, Following, Reopened, applied' = applied,
         gone \/ tail.file # Newest
  PROVE  IInv'
<1>t. TypeOK /\ Ordered /\ Place BY DEF IInv
<1>n. /\ tail.file \in 0 .. Newest /\ tail.pos \in 0 .. Len(lines)
      /\ Len(lines) \in Nat /\ Newest \in Nat \ {0} /\ starts[Newest] \in Nat
      /\ applied \in Nat /\ applied =< tail.pos /\ starts[Newest] =< Len(lines)
  BY <1>t, Numbers DEF Following, Place, Ordered
<1>1. tail' \in [file : 0 .. Newest, pos : 0 .. Len(lines), next : {"read", "check"},
                 since : 0 .. Len(lines) + 1]
  <2>1. tail \in [file : 0 .. Newest, pos : 0 .. Len(lines), next : {"read", "check"},
                  since : 0 .. Len(lines) + 1]
    BY <1>t DEF TypeOK
  <2>2. starts[Newest] \in 0 .. Len(lines) BY <1>n
  <2>3. tail.pos \in 0 .. Len(lines) /\ tail.since \in 0 .. Len(lines) + 1
    BY <1>t, <1>n, Numbers
  <2>6. starts[Newest] \in 0 .. Len(lines) + 1 BY <1>n
  <2>4. CASE gone
    <3>1. tail' = [tail EXCEPT !.file = 0, !.next = "read", !.pos = tail.pos,
                               !.since = tail.since]
      BY <2>4 DEF Reopened
    <3>2. 0 \in 0 .. Newest BY <1>n
    <3> QED BY <2>1, <2>3, <3>1, <3>2, <1>n, Moved
  <2>5. CASE ~gone
    <3>1. tail' = [tail EXCEPT !.file = Newest, !.next = "read",
                               !.pos = starts[Newest], !.since = starts[Newest]]
      BY <2>5 DEF Reopened
    <3>2. Newest \in 0 .. Newest BY <1>n
    <3> QED BY <2>1, <2>2, <2>6, <3>1, <3>2, <1>n, Moved
  <2> QED BY <2>4, <2>5
<1>2. /\ tail'.file = IF gone THEN 0 ELSE Newest
      /\ tail'.pos = IF gone THEN tail.pos ELSE starts[Newest]
  BY <1>t DEF Reopened, TypeOK
<1>3. ASSUME ~gone PROVE tail.pos =< starts[Newest]
  <2>1. CASE tail.file = 0 BY <1>3, <2>1, <1>t DEF Following, Place, Lost
  <2>2. CASE tail.file # 0
    <3>1. tail.file \in 1 .. Newest /\ tail.file # Newest BY <1>3, <2>2, <1>n
    <3>2. tail.pos =< EndOf(tail.file) /\ EndOf(tail.file) =< starts[Newest]
      BY <3>1, <2>2, <1>t, Ends DEF Following, Place
    <3>3. EndOf(tail.file) \in Nat BY <3>1, <1>t, Ends
    <3> QED BY <3>2, <3>3, <1>n
  <2> QED BY <2>1, <2>2
<1>4. ASSUME gone PROVE Place'
  <2>1. tail'.file = 0 /\ tail'.pos = tail.pos BY <1>2, <1>4
  <2>2. Lost' BY <1>4 DEF Following, firmware, Lost
  <2> QED BY <2>1, <2>2, <1>n DEF Place
<1>5. ASSUME ~gone PROVE Place'
  <2>1. tail'.file = Newest /\ tail'.pos = starts[Newest] /\ Newest # 0
    BY <1>2, <1>5, <1>n
  <2>2. applied' =< tail'.pos BY <2>1, <1>3, <1>5, <1>n
  <2>3. tail'.pos =< EndOf(tail.file)'
    BY <2>1, <1>n DEF Following, firmware, EndOf, Newest
  <2>4. Caught' BY <2>1, <1>n DEF Following, firmware, Caught, Whole, Newest
  <2> QED BY <2>1, <2>2, <2>3, <2>4 DEF Place
<1>6. Place' BY <1>4, <1>5
<1> QED BY <1>1, <1>6, <1>t, FollowKeeps DEF TypeOK

LEMMA FollowInv == IInv /\ Follow => IInv' /\ applied' >= applied
<1> SUFFICES ASSUME IInv, Follow PROVE IInv' /\ applied' >= applied OBVIOUS
<1>0. applied \in Nat BY Numbers DEF IInv
<1>1. CASE ReadLine BY <1>1, ReadLineInv
<1>2. CASE ReadEnd BY <1>0, <1>2, EndInv DEF ReadEnd
<1>3. CASE CheckRotation
  <2>1. CASE gone \/ tail.file # Newest
    BY <1>0, <1>3, <2>1, ReopenedInv DEF CheckRotation
  <2>2. CASE ~(gone \/ tail.file # Newest)
    BY <1>0, <1>3, <2>2, EndInv DEF CheckRotation
  <2> QED BY <2>1, <2>2
<1>4. CASE FindFile
  <2>1. tail.file # Newest BY <1>4, Numbers DEF IInv, FindFile
  <2> QED BY <1>0, <1>4, <2>1, ReopenedInv DEF FindFile
<1> QED BY <1>1, <1>2, <1>3, <1>4 DEF Follow

LEMMA DiesInv == IInv /\ Dies => IInv'
<1> SUFFICES ASSUME IInv, Dies PROVE IInv' OBVIOUS
<1>1. TypeOK' BY Numbers DEF IInv, Dies, firmware, Nowhere, TypeOK, Newest
<1>2. Ordered' /\ Rotating' /\ Place'
  BY DEF IInv, Dies, firmware, Ordered, Rotating, Place, Newest
<1> QED BY <1>1, <1>2 DEF IInv
-----------------------------------------------------------------------------
LEMMA NextInv == IInv /\ [Next]_vars => IInv'
<1> SUFFICES ASSUME IInv, [Next]_vars PROVE IInv' OBVIOUS
<1>1. CASE Next
  BY <1>1, LogInv, RotateInv, CreateInv, WriteHalfInv, WriteRestInv, PowerLossInv,
     BootInv, OpenInv, FollowInv, DiesInv DEF Next, Writes
<1>2. CASE UNCHANGED vars
  BY <1>2 DEF vars, firmware, console, IInv, TypeOK, Ordered, Rotating, Place,
              Caught, Lost, EndOf, Newest, Whole
<1> QED BY <1>1, <1>2

(* The tailer stays in the log and in one of its files, and the state      *)
(* shows none but a line that is written (LogTailer.run, _open).           *)
THEOREM TypeCorrect == Spec => []TypeOK
<1>1. IInv => TypeOK BY DEF IInv
<1> QED BY InitInv, NextInv, <1>1, PTL DEF Spec

(* A tailer at the end of the log has applied every whole line of its file *)
(* that it could read, through rotations and half-written lines (run,      *)
(* _check_rotation).                                                       *)
THEOREM NewestCorrect == Spec => []ShowsNewest
<1>1. IInv => ShowsNewest
  <2> SUFFICES ASSUME IInv, AtEnd,
                      NEW k \in Whole, InFile(k), k > tail.since
               PROVE  applied >= k
    BY DEF ShowsNewest
  <2>1. Newest \in Nat \ {0} /\ Len(lines) \in Nat BY Numbers DEF IInv
  <2>2. k \in 1 .. Len(lines) /\ tail.since \in Nat /\ applied \in Nat
        /\ starts[Newest] \in Nat
    BY <2>1, Numbers DEF IInv, Whole
  <2>3. tail.file # 0 /\ Caught BY <2>1 DEF IInv, AtEnd, Place
  <2> QED BY <2>1, <2>2, <2>3 DEF AtEnd, Caught, InFile
<1> QED BY InitInv, NextInv, <1>1, PTL DEF Spec

(* A running console never returns to an earlier line than the one it      *)
(* shows, whatever files come and go (_check_rotation, apply_event).       *)
THEOREM NeverBackCorrect == Spec => NeverBack
<1>1. IInv /\ [Next]_vars => [phase = "running" /\ phase' = "running" => applied' >= applied]_vars
  <2> SUFFICES ASSUME IInv, Next, phase = "running", phase' = "running"
               PROVE  applied' >= applied
    OBVIOUS
  <2>0. applied \in Nat BY Numbers DEF IInv
  <2>1. CASE Follow BY <2>1, FollowInv
  <2>2. CASE Log \/ Rotate \/ Writes
    BY <2>0, <2>2 DEF Log, Rotate, Writes, Create, WriteHalf, WriteRest, console
  <2>3. CASE PowerLoss \/ Boot \/ Open \/ Dies
    BY <2>3 DEF PowerLoss, Boot, Open, Dies
  <2> QED BY <2>1, <2>2, <2>3 DEF Next
<1> QED BY InitInv, NextInv, <1>1, PTL DEF Spec, NeverBack
-----------------------------------------------------------------------------
(* Where LineFeed's promise rests: on which lines the tailer is to read.   *)

(* Of the lines that it is to read none is broken: such a line was there   *)
(* when the tailer opened the log, or half of it.                          *)
Readable ==
  phase = "running" =>
    /\ \A k \in (1 .. Len(lines)) \ Whole :
         /\ k =< tail.since
         /\ tail.file # Newest /\ ~gone => k =< starts[Newest]
    /\ rest => ~gone /\ tail.file = Newest /\ tail.since > Len(lines)
    /\ tail.file = Newest /\ ~gone /\ tail.since > Len(lines) =>
         rest \/ writing = "half"

Counted ==
  /\ Len(lines) + (IF writing = "idle" THEN 0 ELSE 1) =< MaxLines
  /\ gone => ~rest
  /\ phase = "down" => applied = 0

HasLast == \E k \in Whole \cup {0} : \A j \in Whole \cup {0} : j =< k

RInv == IInv /\ Readable /\ Counted /\ HasLast

LEMMA InitReads == Init => RInv
<1> SUFFICES ASSUME Init PROVE RInv OBVIOUS
<1>1. lines = <<>> /\ Len(lines) = 0 /\ Whole = {} BY DEF Init, Whole
<1>2. HasLast BY <1>1 DEF HasLast
<1>3. Readable /\ Counted BY <1>1 DEF Init, Readable, Counted
<1> QED BY <1>2, <1>3, InitInv DEF RInv

(* The lines after one more is written.                                    *)
LEMMA Lengthened ==
  ASSUME RInv, WriteRest
  PROVE  /\ Len(lines') = Len(lines) + 1 /\ Len(lines) \in Nat
         /\ Whole' = IF rest THEN Whole ELSE Whole \cup {Len(lines) + 1}
         /\ Len(lines) + 1 \notin Whole
<1>1. lines \in Seq({"whole", "broken"}) /\ Len(lines) \in Nat
  BY Numbers DEF RInv, IInv, TypeOK
<1>2. (IF rest THEN "broken" ELSE "whole") \in {"whole", "broken"} OBVIOUS
<1>3. /\ Len(lines') = Len(lines) + 1
      /\ \A i \in 1 .. Len(lines) : lines'[i] = lines[i]
      /\ lines'[Len(lines) + 1] = IF rest THEN "broken" ELSE "whole"
  BY <1>1, <1>2, Appended DEF WriteRest
<1> QED BY <1>1, <1>3 DEF Whole

LEMMA WriteRestReads == RInv /\ WriteRest => Readable' /\ Counted' /\ HasLast'
<1> SUFFICES ASSUME RInv, WriteRest PROVE Readable' /\ Counted' /\ HasLast' OBVIOUS
<1>1. /\ Len(lines') = Len(lines) + 1 /\ Len(lines) \in Nat
      /\ Whole' = IF rest THEN Whole ELSE Whole \cup {Len(lines) + 1}
      /\ Len(lines) + 1 \notin Whole
  BY Lengthened
<1>2. /\ writing = "half" /\ writing' = "idle" /\ rest' = FALSE
      /\ starts' = starts /\ gone' = gone /\ tail' = tail /\ phase' = phase
      /\ applied' = applied /\ Newest' = Newest
  BY DEF WriteRest, console, Newest
<1>3. tail.since \in 0 .. Len(lines) + 1 BY Numbers DEF RInv, IInv
<1>4. Readable'
  <2> SUFFICES ASSUME phase = "running"
               PROVE  /\ \A k \in (1 .. Len(lines) + 1) \ Whole' :
                           /\ k =< tail.since
                           /\ tail.file # Newest /\ ~gone => k =< starts[Newest]
                      /\ ~(tail.since > Len(lines) + 1)
    BY <1>1, <1>2 DEF Readable
  <2>1. ASSUME NEW k \in (1 .. Len(lines) + 1) \ Whole'
        PROVE  /\ k =< tail.since
               /\ tail.file # Newest /\ ~gone => k =< starts[Newest]
    <3>1. CASE k \in 1 .. Len(lines)
      <4>1. k \in (1 .. Len(lines)) \ Whole BY <1>1, <2>1, <3>1
      <4> QED BY <4>1 DEF RInv, Readable
    <3>2. CASE k = Len(lines) + 1
      <4>1. rest BY <1>1, <2>1, <3>2
      <4>2. tail.file = Newest /\ tail.since > Len(lines) BY <4>1 DEF RInv, Readable
      <4> QED BY <1>1, <1>3, <3>2, <4>2
    <3> QED BY <1>1, <3>1, <3>2
  <2> QED BY <1>1, <1>3, <2>1
<1>5. Counted' BY <1>1, <1>2 DEF RInv, Counted
<1>6. HasLast'
  <2>1. CASE rest BY <1>1, <2>1 DEF RInv, HasLast
  <2>2. CASE ~rest
    <3>1. \A j \in Whole \cup {0} : j =< Len(lines) + 1 BY <1>1 DEF Whole
    <3> QED BY <1>1, <2>2, <3>1 DEF HasLast
  <2> QED BY <2>1, <2>2
<1> QED BY <1>4, <1>5, <1>6

LEMMA CreateReads == RInv /\ Create => Readable' /\ Counted' /\ HasLast'
<1> SUFFICES ASSUME RInv, Create PROVE Readable' /\ Counted' /\ HasLast' OBVIOUS
<1>1. /\ starts \in Seq(Nat) /\ Len(lines) \in Nat /\ Newest \in Nat \ {0}
      /\ tail.file \in 0 .. Newest
  BY Numbers DEF RInv, IInv, TypeOK
<1>2. Newest' = Newest + 1 /\ starts'[Newest'] = Len(lines)
  BY <1>1, Appended DEF Create, Newest
<1>3. /\ lines' = lines /\ writing' = writing /\ rest' = rest /\ gone /\ ~gone'
      /\ phase' = phase /\ tail' = tail /\ applied' = applied /\ Whole' = Whole
  BY DEF Create, console, Whole
<1>4. Readable' BY <1>1, <1>2, <1>3 DEF RInv, Counted, Readable
<1> QED BY <1>3, <1>4 DEF RInv, Counted, HasLast

LEMMA OpenReads == RInv /\ Open => Readable' /\ Counted' /\ HasLast'
<1> SUFFICES ASSUME RInv, Open PROVE Readable' /\ Counted' /\ HasLast' OBVIOUS
<1>1. /\ UNCHANGED firmware /\ UNCHANGED applied /\ Whole' = Whole /\ Newest' = Newest
      /\ phase' = "running" /\ Len(lines) \in Nat
  BY Numbers DEF Open, firmware, Whole, Newest, RInv, IInv
<1>2. /\ tail'.file = IF gone THEN 0 ELSE Newest
      /\ tail'.since = IF Begun THEN Len(lines) + 1 ELSE Len(lines)
  BY DEF Open
<1>3. Readable'
  BY <1>1, <1>2, Numbers DEF RInv, IInv, Readable, Counted, Begun, firmware
<1> QED BY <1>1, <1>3 DEF RInv, Counted, HasLast, firmware

LEMMA ReopenedReads ==
  ASSUME RInv, Following, Reopened, applied' = applied, gone \/ tail.file # Newest
  PROVE  Readable'
<1>1. /\ UNCHANGED firmware /\ phase = "running" /\ phase' = phase
      /\ Whole' = Whole /\ Newest' = Newest
  BY DEF Following, firmware, Whole, Newest
<1>2. /\ tail'.file = IF gone THEN 0 ELSE Newest
      /\ tail'.since = IF gone THEN tail.since ELSE starts[Newest]
  BY DEF RInv, IInv, TypeOK, Reopened
<1>3. starts[Newest] =< Len(lines) /\ starts[Newest] \in Nat /\ Len(lines) \in Nat
      /\ Newest \in Nat \ {0}
  BY Numbers DEF RInv, IInv, Ordered
<1> QED BY <1>1, <1>2, <1>3 DEF RInv, Readable, Counted, firmware

LEMMA NextReads == RInv /\ [Next]_vars => RInv'
<1> SUFFICES ASSUME RInv, [Next]_vars PROVE Readable' /\ Counted' /\ HasLast'
  BY NextInv DEF RInv
<1>1. CASE Log \/ Rotate \/ WriteHalf \/ UNCHANGED vars
  <2>1. /\ lines' = lines /\ starts' = starts /\ tail' = tail /\ phase' = phase
        /\ applied' = applied /\ Whole' = Whole /\ Newest' = Newest
        /\ Len(lines) \in Nat
    BY <1>1, Numbers DEF RInv, IInv, Log, Rotate, WriteHalf, vars, firmware, console,
                         Whole, Newest
  <2>2. CASE Log \/ WriteHalf \/ UNCHANGED vars
    BY <2>1, <2>2, LogTailerAssumption
       DEF RInv, Readable, Counted, HasLast, Log, WriteHalf, vars, firmware
  <2>3. CASE Rotate
    BY <2>1, <2>3 DEF RInv, Readable, Counted, HasLast, Rotate
  <2> QED BY <1>1, <2>2, <2>3
<1>2. CASE Create BY <1>2, CreateReads
<1>3. CASE WriteRest BY <1>3, WriteRestReads
<1>4. CASE PowerLoss \/ Boot \/ Dies
  <2>1. lines' = lines /\ Whole' = Whole /\ phase' # "running" /\ Len(lines) \in Nat
    BY <1>4, Numbers DEF RInv, IInv, PowerLoss, Boot, Dies, firmware, Whole
  <2>2. Readable' /\ HasLast' BY <2>1 DEF RInv, Readable, HasLast
  <2>3. Counted'
    <3>1. Len(lines) =< MaxLines BY <2>1, LogTailerAssumption DEF RInv, Counted
    <3> QED BY <1>4, <2>1, <3>1 DEF RInv, Counted, PowerLoss, Boot, Dies, firmware
  <2> QED BY <2>2, <2>3
<1>5. CASE Open BY <1>5, OpenReads
<1>6. CASE Follow
  <2>1. Following /\ HasLast' /\ Whole' = Whole /\ Newest' = Newest
    BY <1>6 DEF Follow, ReadLine, ReadEnd, CheckRotation, FindFile, Following, firmware,
                RInv, HasLast, Whole, Newest
  <2>2. Counted' BY <2>1 DEF Following, firmware, RInv, Counted
  <2>3. CASE Reopened /\ UNCHANGED applied /\ (gone \/ tail.file # Newest)
    BY <2>1, <2>2, <2>3, ReopenedReads
  <2>4. CASE tail'.file = tail.file /\ tail'.since = tail.since
    <3>1. Readable' BY <2>1, <2>4 DEF RInv, Readable, Following, firmware
    <3> QED BY <2>1, <2>2, <3>1
  <2>5. tail \in [file : 0 .. Newest, pos : 0 .. Len(lines), next : {"read", "check"},
                  since : 0 .. Len(lines) + 1]
    BY DEF RInv, IInv, TypeOK
  <2>6. CASE ReadLine \/ ReadEnd BY <2>4, <2>5, <2>6 DEF ReadLine, ReadEnd
  <2>7. CASE CheckRotation BY <2>3, <2>4, <2>5, <2>7 DEF CheckRotation
  <2>8. CASE FindFile
    <3>1. tail.file # Newest BY <2>8, Numbers DEF RInv, IInv, FindFile
    <3> QED BY <2>3, <2>8, <3>1 DEF FindFile
  <2> QED BY <1>6, <2>6, <2>7, <2>8 DEF Follow
<1> QED BY <1>1, <1>2, <1>3, <1>4, <1>5, <1>6 DEF Next, Writes
-----------------------------------------------------------------------------
(* What Upto gives.                                                        *)
IsRun(s, m, n) ==
  /\ s \in Seq(Nat) /\ Len(s) \in Nat
  /\ \A i \in 1 .. Len(s) : s[i] = m + i
  /\ n =< m => s = <<>> /\ Len(s) = 0
  /\ m =< n => Len(s) = n - m

LEMMA UptoIs ==
  ASSUME NEW m \in Nat, NEW n \in Nat
  PROVE  IsRun(Upto(m, n), m, n)
BY DEF Upto, IsRun

LEMMA UptoMore ==
  ASSUME NEW m \in Nat, NEW n \in Nat, m =< n
  PROVE  Upto(m, n + 1) = Append(Upto(m, n), n + 1)
<1> DEFINE s == Upto(m, n)
           t == Upto(m, n + 1)
<1>0. n + 1 \in Nat OBVIOUS
<1>1. IsRun(s, m, n) /\ IsRun(t, m, n + 1) BY <1>0, UptoIs
<1> HIDE DEF s, t
<1>2. /\ s \in Seq(Nat) /\ Len(s) = n - m
      /\ \A i \in 1 .. n - m : s[i] = m + i
  BY <1>1 DEF IsRun
<1>3. /\ t \in Seq(Nat) /\ Len(t) = n + 1 - m
      /\ \A i \in 1 .. n + 1 - m : t[i] = m + i
  BY <1>1 DEF IsRun
<1>4. /\ Append(s, n + 1) \in Seq(Nat) /\ Len(Append(s, n + 1)) = n + 1 - m
      /\ \A i \in 1 .. n - m : Append(s, n + 1)[i] = s[i]
      /\ Append(s, n + 1)[n + 1 - m] = n + 1
  BY <1>0, <1>2, Appended
<1>5. \A i \in 1 .. n + 1 - m : Append(s, n + 1)[i] = t[i] BY <1>2, <1>3, <1>4
<1>6. t = Append(s, n + 1) BY <1>3, <1>4, <1>5, SeqEqual
<1> QED BY <1>6 DEF s, t

LEMMA UptoRead ==
  ASSUME NEW m \in Nat, NEW n \in Nat, m < n
  PROVE  /\ Upto(m, n) # <<>> /\ Head(Upto(m, n)) = m + 1
         /\ Tail(Upto(m, n)) = Upto(m + 1, n)
<1> DEFINE s == Upto(m, n)
           t == Upto(m + 1, n)
<1>0. m + 1 \in Nat OBVIOUS
<1>1. IsRun(s, m, n) /\ IsRun(t, m + 1, n) BY <1>0, UptoIs
<1> HIDE DEF s, t
<1>2. /\ s \in Seq(Nat) /\ Len(s) = n - m
      /\ \A i \in 1 .. n - m : s[i] = m + i
  BY <1>1 DEF IsRun
<1>3. /\ t \in Seq(Nat) /\ Len(t) = n - m - 1
      /\ \A i \in 1 .. n - m - 1 : t[i] = m + 1 + i
  BY <1>1 DEF IsRun
<1>4. s # <<>> /\ Head(s) = s[1] BY <1>2
<1>5. /\ Tail(s) \in Seq(Nat) /\ Len(Tail(s)) = n - m - 1
      /\ \A i \in 1 .. n - m - 1 : Tail(s)[i] = s[i + 1]
  BY <1>2, <1>4, HeadTailProperties
<1>6. \A i \in 1 .. n - m - 1 : Tail(s)[i] = t[i] BY <1>2, <1>3, <1>5
<1>7. Tail(s) = t
  <2>1. Len(Tail(s)) = Len(t) /\ \A i \in 1 .. Len(Tail(s)) : Tail(s)[i] = t[i]
    BY <1>3, <1>5, <1>6
  <2> QED BY <1>3, <1>5, <2>1, SeqEqual
<1> QED BY <1>2, <1>4, <1>7 DEF s, t

(* The first element of two sequences one after the other.                 *)
LEMMA ConcatRead ==
  ASSUME NEW S, NEW s \in Seq(S), NEW t \in Seq(S), s # <<>>
  PROVE  s \o t # <<>> /\ Head(s \o t) = Head(s) /\ Tail(s \o t) = Tail(s) \o t
<1> DEFINE c == s \o t
           d == Tail(s) \o t
<1>1. Len(s) \in Nat \ {0} /\ Len(t) \in Nat BY EmptySeq, LenProperties
<1>2. /\ c \in Seq(S) /\ Len(c) = Len(s) + Len(t)
      /\ \A i \in 1 .. Len(s) + Len(t) : c[i] = IF i =< Len(s) THEN s[i] ELSE t[i - Len(s)]
  BY ConcatProperties
<1>3. /\ Tail(s) \in Seq(S) /\ Len(Tail(s)) = Len(s) - 1
      /\ \A i \in 1 .. Len(s) - 1 : Tail(s)[i] = s[i + 1]
  BY HeadTailProperties
<1>4. /\ d \in Seq(S) /\ Len(d) = Len(s) - 1 + Len(t)
      /\ \A i \in 1 .. Len(s) - 1 + Len(t) :
           d[i] = IF i =< Len(s) - 1 THEN Tail(s)[i] ELSE t[i - (Len(s) - 1)]
  BY <1>3, ConcatProperties
<1> HIDE DEF c, d
<1>5. c # <<>> BY <1>1, <1>2
<1>6. Head(c) = c[1] /\ Head(s) = s[1] /\ c[1] = s[1] BY <1>1, <1>2, <1>5
<1>7. /\ Tail(c) \in Seq(S) /\ Len(Tail(c)) = Len(s) + Len(t) - 1
      /\ \A i \in 1 .. Len(s) + Len(t) - 1 : Tail(c)[i] = c[i + 1]
  BY <1>2, <1>5, HeadTailProperties
<1>8. ASSUME NEW i \in 1 .. Len(s) + Len(t) - 1 PROVE Tail(c)[i] = d[i]
  <2>1. i + 1 \in 1 .. Len(s) + Len(t) /\ i \in 1 .. Len(s) - 1 + Len(t) BY <1>1
  <2>2. CASE i =< Len(s) - 1
    <3>1. i \in 1 .. Len(s) - 1 /\ i + 1 =< Len(s) BY <1>1, <2>2
    <3> QED BY <1>2, <1>3, <1>4, <1>7, <2>1, <2>2, <3>1
  <2>3. CASE ~(i =< Len(s) - 1)
    <3>1. ~(i + 1 =< Len(s)) /\ i + 1 - Len(s) = i - (Len(s) - 1) BY <1>1, <2>3
    <3>2. Tail(c)[i] = t[i + 1 - Len(s)] BY <1>2, <1>7, <2>1, <3>1
    <3>3. d[i] = t[i - (Len(s) - 1)] BY <1>4, <2>1, <2>3
    <3> QED BY <3>1, <3>2, <3>3
  <2> QED BY <2>2, <2>3
<1>9. Tail(c) = d
  <2>1. Len(Tail(c)) = Len(d) /\ \A i \in 1 .. Len(Tail(c)) : Tail(c)[i] = d[i]
    BY <1>1, <1>4, <1>7, <1>8
  <2> QED BY <1>4, <1>7, <2>1, SeqEqual
<1> QED BY <1>5, <1>6, <1>9 DEF c, d

(* The last whole line, if there is one, is one of them.                   *)
LEMMA LastIs ==
  ASSUME HasLast
  PROVE  LastWhole \in Whole \cup {0} /\ \A j \in Whole \cup {0} : j =< LastWhole
BY DEF HasLast, LastWhole

(* What is left of the file where the tailer is, and what is in the newest *)
(* one after it: whole lines, later than what is applied.                  *)
LEMMA AheadIs ==
  ASSUME RInv, phase = "running"
  PROVE  /\ Ahead \in Seq(Nat) /\ Len(Ahead) \in Nat
         /\ \A i \in 1 .. Len(Ahead) : Ahead[i] \in Whole /\ applied < Ahead[i]
         /\ \A i, j \in 1 .. Len(Ahead) : i < j => Ahead[i] < Ahead[j]
         /\ ~gone /\ tail.file # Newest =>
              \A i \in 1 .. Len(Ahead) : Ahead[i] =< starts[Newest]
<1>1. CASE tail.file = 0 \/ Leaving BY <1>1 DEF Ahead
<1>2. CASE ~(tail.file = 0 \/ Leaving)
  <2> DEFINE n == EndOf(tail.file)
  <2>1. tail.file \in 1 .. Newest /\ Len(lines) \in Nat /\ starts[Newest] \in Nat
    BY <1>2, Numbers DEF RInv, IInv
  <2>2. n \in Nat /\ n =< Len(lines) /\ (tail.file # Newest => n =< starts[Newest])
    BY <2>1, Ends DEF RInv, IInv
  <2>3. /\ Reached \in Nat /\ tail.pos =< Reached /\ tail.since =< Reached
        /\ applied \in Nat /\ applied =< tail.pos /\ tail.pos \in Nat /\ tail.since \in Nat
    BY Numbers DEF RInv, IInv, Place, Reached
  <2>4. Ahead = Upto(Reached, n) BY <1>2 DEF Ahead
  <2> HIDE DEF n
  <2>5. /\ Ahead \in Seq(Nat) /\ Len(Ahead) \in Nat
        /\ n =< Reached => Len(Ahead) = 0
        /\ Reached =< n => Len(Ahead) = n - Reached
        /\ \A i \in 1 .. Len(Ahead) : Ahead[i] = Reached + i
    <3>1. IsRun(Ahead, Reached, n) BY <2>2, <2>3, <2>4, UptoIs
    <3> QED BY <3>1 DEF IsRun
  <2>6. ASSUME NEW i \in 1 .. Len(Ahead)
        PROVE  /\ Ahead[i] \in Whole /\ applied < Ahead[i]
               /\ ~gone /\ tail.file # Newest => Ahead[i] =< starts[Newest]
    <3>0. Ahead[i] = Reached + i /\ Len(Ahead) = n - Reached /\ i >= 1
      BY <2>2, <2>3, <2>5
    <3>1. /\ Ahead[i] \in 1 .. Len(lines) /\ Ahead[i] > tail.since /\ applied < Ahead[i]
          /\ Ahead[i] =< n
      BY <2>1, <2>2, <2>3, <3>0
    <3>2. tail.since \in Nat BY <2>3
    <3>3. Ahead[i] \in Whole BY <3>1, <3>2 DEF RInv, Readable
    <3> QED BY <2>1, <2>2, <3>1, <3>3
  <2>7. \A i, j \in 1 .. Len(Ahead) : i < j => Ahead[i] < Ahead[j]
    BY <2>2, <2>3, <2>5
  <2>8. Len(Ahead) \in Nat BY <2>2, <2>3, <2>5
  <2> QED BY <2>5, <2>6, <2>7, <2>8
<1> QED BY <1>1, <1>2

LEMMA AfterIs ==
  ASSUME RInv, phase = "running"
  PROVE  /\ After \in Seq(Nat) /\ Len(After) \in Nat
         /\ \A i \in 1 .. Len(After) : /\ After[i] \in Whole /\ applied < After[i]
                                       /\ ~gone /\ tail.file # Newest
                                       /\ starts[Newest] < After[i]
         /\ \A i, j \in 1 .. Len(After) : i < j => After[i] < After[j]
<1>1. CASE gone \/ tail.file = Newest BY <1>1 DEF After
<1>2. CASE ~(gone \/ tail.file = Newest)
  <2>1. /\ Len(lines) \in Nat /\ starts[Newest] \in Nat /\ Newest \in Nat \ {0}
        /\ tail.file \in 0 .. Newest /\ tail.pos \in Nat /\ applied \in Nat
    BY Numbers DEF RInv, IInv
  <2>2. applied =< starts[Newest]
    <3>1. applied =< tail.pos BY DEF RInv, IInv, Place
    <3>2. CASE tail.file = 0
      <4>1. tail.pos =< starts[Newest] BY <1>2, <3>2 DEF RInv, IInv, Place, Lost
      <4> QED BY <2>1, <3>1, <4>1
    <3>3. CASE tail.file # 0
      <4>1. tail.file \in 1 .. Newest /\ tail.file # Newest BY <1>2, <2>1, <3>3
      <4>2. /\ EndOf(tail.file) \in Nat /\ tail.pos =< EndOf(tail.file)
            /\ EndOf(tail.file) =< starts[Newest]
        BY <3>3, <4>1, Ends DEF RInv, IInv, Place
      <4> QED BY <2>1, <3>1, <4>2
    <3> QED BY <3>2, <3>3
  <2>3. After = Upto(starts[Newest], Len(lines)) BY <1>2 DEF After
  <2>4. /\ After \in Seq(Nat)
        /\ Len(After) \in Nat
        /\ Len(lines) =< starts[Newest] => Len(After) = 0
        /\ starts[Newest] =< Len(lines) => Len(After) = Len(lines) - starts[Newest]
        /\ \A i \in 1 .. Len(After) : After[i] = starts[Newest] + i
    <3>1. IsRun(After, starts[Newest], Len(lines)) BY <2>1, <2>3, UptoIs
    <3> QED BY <3>1 DEF IsRun
  <2>5. ASSUME NEW i \in 1 .. Len(After)
        PROVE  /\ After[i] \in Whole /\ applied < After[i]
               /\ starts[Newest] < After[i]
    <3>1. /\ After[i] \in 1 .. Len(lines) /\ After[i] > starts[Newest]
          /\ applied < After[i]
      BY <2>1, <2>2, <2>4, <2>5
    <3>2. After[i] \in Whole BY <1>2, <2>1, <3>1 DEF RInv, Readable
    <3> QED BY <2>1, <3>1, <3>2
  <2>6. \A i, j \in 1 .. Len(After) : i < j => After[i] < After[j]
    BY <2>1, <2>4
  <2>7. Len(After) \in Nat BY <2>1, <2>4
  <2> QED BY <1>2, <2>4, <2>5, <2>6, <2>7
<1> QED BY <1>1, <1>2

(* The lines that are to be read, one after the other.                     *)
LEMMA UnreadIs ==
  ASSUME RInv
  PROVE  /\ Unread \in Seq(Nat) /\ Len(Unread) \in Nat
         /\ \A i \in 1 .. Len(Unread) : Unread[i] \in Whole /\ applied < Unread[i]
         /\ \A i, j \in 1 .. Len(Unread) : i < j => Unread[i] < Unread[j]
<1>1. CASE phase # "running" BY <1>1 DEF Unread
<1>2. CASE phase = "running"
  <2> DEFINE A == Ahead
             B == After
  <2>1. /\ A \in Seq(Nat) /\ Len(A) \in Nat
        /\ \A i \in 1 .. Len(A) : A[i] \in Whole /\ applied < A[i]
        /\ \A i, j \in 1 .. Len(A) : i < j => A[i] < A[j]
        /\ ~gone /\ tail.file # Newest => \A i \in 1 .. Len(A) : A[i] =< starts[Newest]
    BY <1>2, AheadIs
  <2>2. /\ B \in Seq(Nat) /\ Len(B) \in Nat
        /\ \A i \in 1 .. Len(B) : /\ B[i] \in Whole /\ applied < B[i]
                                  /\ ~gone /\ tail.file # Newest
                                  /\ starts[Newest] < B[i]
        /\ \A i, j \in 1 .. Len(B) : i < j => B[i] < B[j]
    BY <1>2, AfterIs
  <2>3. Unread = A \o B BY <1>2 DEF Unread
  <2>n. starts[Newest] \in Nat /\ applied \in Nat BY Numbers DEF RInv, IInv
  <2>w. \A k \in Whole : k \in Nat BY Numbers DEF RInv, IInv, Whole
  <2> HIDE DEF A, B
  <2>4. /\ A \o B \in Seq(Nat) /\ Len(A \o B) = Len(A) + Len(B)
        /\ \A i \in 1 .. Len(A) + Len(B) :
             (A \o B)[i] = IF i =< Len(A) THEN A[i] ELSE B[i - Len(A)]
    BY <2>1, <2>2, ConcatProperties
  <2>5. ASSUME NEW i \in 1 .. Len(A) + Len(B)
        PROVE  (A \o B)[i] \in Whole /\ applied < (A \o B)[i]
    <3>1. CASE i =< Len(A) BY <2>1, <2>2, <2>4, <3>1
    <3>2. CASE ~(i =< Len(A))
      <4>1. i - Len(A) \in 1 .. Len(B) BY <2>1, <2>2, <3>2
      <4> QED BY <2>2, <2>4, <3>2, <4>1
    <3> QED BY <3>1, <3>2
  <2>6. ASSUME NEW i \in 1 .. Len(A) + Len(B), NEW j \in 1 .. Len(A) + Len(B), i < j
        PROVE  (A \o B)[i] < (A \o B)[j]
    <3>1. CASE j =< Len(A) BY <2>1, <2>2, <2>4, <2>6, <3>1
    <3>2. CASE ~(j =< Len(A))
      <4>1. j - Len(A) \in 1 .. Len(B) /\ (A \o B)[j] = B[j - Len(A)]
        BY <2>1, <2>2, <2>4, <3>2
      <4>2. CASE i =< Len(A)
        <5>1. (A \o B)[i] = A[i] /\ i \in 1 .. Len(A) BY <2>1, <2>4, <4>2
        <5>2. A[i] =< starts[Newest] /\ starts[Newest] < B[j - Len(A)]
          BY <2>1, <2>2, <4>1, <5>1
        <5>3. A[i] \in Nat /\ B[j - Len(A)] \in Nat BY <2>1, <2>2, <2>w, <4>1, <5>1
        <5> QED BY <2>n, <4>1, <5>1, <5>2, <5>3
      <4>3. CASE ~(i =< Len(A))
        <5>1. /\ (A \o B)[i] = B[i - Len(A)] /\ i - Len(A) \in 1 .. Len(B)
              /\ i - Len(A) < j - Len(A)
          BY <2>1, <2>2, <2>4, <2>6, <4>3
        <5> QED BY <2>2, <4>1, <5>1
      <4> QED BY <4>2, <4>3
    <3> QED BY <3>1, <3>2
  <2> QED BY <2>3, <2>4, <2>5, <2>6, <2>1, <2>2
<1> QED BY <1>1, <1>2
-----------------------------------------------------------------------------
(* The steps as LineFeed sees them.                                        *)

LEMMA SameLines ==
  ASSUME lines' = lines
  PROVE  Whole' = Whole /\ LastWhole' = LastWhole
BY DEF Whole, LastWhole

LEMMA SamePlace ==
  ASSUME LastWhole' = LastWhole, Unread' = Unread, applied' = applied
  PROVE  NewestIs' = NewestIs
BY DEF NewestIs

(* A step that shows neither in the lines nor in what is to be read.       *)
LEMMA Hidden ==
  ASSUME lines' = lines, rest' = rest, applied' = applied, DueLine' = DueLine,
         Unread' = Unread, PhaseSeen' = PhaseSeen
  PROVE  [Feed!Next]_(Feed!fvars)
<1>1. LastWhole' = LastWhole /\ NewestIs' = NewestIs BY SameLines, SamePlace
<1> QED BY <1>1 DEF Feed!fvars

(* Where the newest line is when some of the last lines are lost.          *)
LEMMA PrefixPlace ==
  ASSUME RInv, lines' = lines, applied' = applied, NEW k \in 0 .. Len(Unread),
         Unread' = SubSeq(Unread, 1, k)
  PROVE  NewestIs' = IF k < Len(Unread) /\ NewestIs = "unread" THEN "missed" ELSE NewestIs
<1>1. LastWhole' = LastWhole BY SameLines
<1>2. /\ Unread \in Seq(Nat) /\ Len(Unread) \in Nat
      /\ \A i \in 1 .. Len(Unread) : Unread[i] \in Whole
      /\ \A i, j \in 1 .. Len(Unread) : i < j => Unread[i] < Unread[j]
  BY UnreadIs
<1>3. CASE k = Len(Unread)
  <2>1. Unread' = Unread BY <1>2, <1>3, SubSeqFull
  <2>2. NewestIs' = NewestIs BY <1>1, <2>1, SamePlace
  <2>3. ~(k < Len(Unread)) BY <1>2, <1>3
  <2> QED BY <2>2, <2>3
<1>4. CASE k < Len(Unread)
  <2> DEFINE n == Len(Unread)
             u == Unread
             v == SubSeq(Unread, 1, k)
  <2>1. v \in Seq(Nat) /\ Len(v) = k /\ \A i \in 1 .. k : v[i] = u[i]
    <3>1. 1 \in Int /\ k \in Int /\ \A i \in 1 .. k : u[i] \in Nat
      BY <1>2, <1>4, ElementOfSeq
    <3>2. /\ v \in Seq(Nat) /\ Len(v) = IF 1 =< k THEN k - 1 + 1 ELSE 0
          /\ \A i \in 1 .. k - 1 + 1 : v[i] = u[1 + i - 1]
      BY <3>1, SubSeqProperties
    <3>3. Len(v) = k BY <3>2
    <3>4. ASSUME NEW i \in 1 .. k PROVE v[i] = u[i]
      <4>1. 1 + i - 1 = i /\ i \in 1 .. k - 1 + 1 OBVIOUS
      <4> QED BY <3>2, <4>1
    <3> QED BY <3>2, <3>3, <3>4
  <2>2. n \in Nat /\ n > k /\ k \in Nat /\ u # <<>> BY <1>2, <1>4
  <2>3. u[n] \in Whole /\ u[n] =< LastWhole
    <3>1. n \in 1 .. n BY <2>2
    <3>2. u[n] \in Whole BY <1>2, <3>1
    <3> QED BY <3>2, LastIs DEF RInv
  <2>n. LastWhole \in Nat /\ \A j \in Whole : j \in Nat
    BY LastIs, Numbers DEF RInv, IInv, Whole
  <2>4. v # <<>> => v[Len(v)] # LastWhole
    <3> SUFFICES ASSUME v # <<>> PROVE v[k] # LastWhole BY <2>1
    <3>1. k \in 1 .. n /\ n \in 1 .. n /\ k < n
      <4>1. k # 0 BY <2>1, EmptySeq
      <4> QED BY <2>2, <4>1
    <3>2. v[k] = u[k] /\ u[k] < u[n] /\ u[k] \in Whole BY <1>2, <2>1, <3>1
    <3> QED BY <2>3, <2>n, <3>2
  <2>5. NewestIs' = IF LastWhole # 0 /\ applied = LastWhole THEN "applied" ELSE "missed"
    <3>1. Unread' = v OBVIOUS
    <3> HIDE DEF v, u, n
    <3> QED BY <1>1, <2>4, <3>1 DEF NewestIs
  <2>6. NewestIs = "applied" <=> LastWhole # 0 /\ applied = LastWhole
    BY DEF NewestIs
  <2>7. NewestIs \in {"applied", "unread", "missed"} BY DEF NewestIs
  <2> QED BY <1>4, <2>5, <2>6, <2>7
<1> QED BY <1>2, <1>3, <1>4

(* And where it is when the first of the lines to be read is applied.      *)
LEMMA PlaceRead ==
  ASSUME RInv, lines' = lines, Unread # <<>>, Unread' = Tail(Unread),
         applied' = Head(Unread)
  PROVE  NewestIs' = IF NewestIs = "unread" /\ Len(Unread) = 1 THEN "applied" ELSE NewestIs
<1> DEFINE u == Unread
           n == Len(u)
           v == Tail(u)
<1>1. LastWhole' = LastWhole BY SameLines
<1>2. /\ u \in Seq(Nat) /\ n \in Nat \ {0}
      /\ \A i \in 1 .. n : u[i] \in Whole /\ applied < u[i]
      /\ \A i, j \in 1 .. n : i < j => u[i] < u[j]
  BY UnreadIs, EmptySeq, LenProperties
<1>3. Head(u) = u[1] /\ v \in Seq(Nat) /\ Len(v) = n - 1
      /\ \A i \in 1 .. n - 1 : v[i] = u[i + 1]
  BY <1>2, HeadTailProperties
<1>4. /\ LastWhole \in Nat /\ applied \in Nat
      /\ \A j \in Whole : j \in Nat \ {0} /\ j =< LastWhole
  BY LastIs, Numbers DEF RInv, IInv, Whole
<1>5. u[1] \in Whole /\ u[n] \in Whole /\ applied < u[1]
  <2>1. 1 \in 1 .. n /\ n \in 1 .. n BY <1>2
  <2> QED BY <1>2, <2>1
<1>6. applied # LastWhole BY <1>4, <1>5
<1>7. NewestIs = IF u[n] = LastWhole THEN "unread" ELSE "missed"
  BY <1>6 DEF NewestIs
<1>8. CASE n = 1
  <2>1. v = <<>> /\ applied' = u[n] BY <1>3, <1>8, EmptySeq
  <2>2. NewestIs' = IF LastWhole # 0 /\ u[n] = LastWhole THEN "applied" ELSE "missed"
    BY <1>1, <2>1 DEF NewestIs
  <2>3. NewestIs' = IF u[n] = LastWhole THEN "applied" ELSE "missed"
    BY <1>4, <1>5, <2>2
  <2> QED BY <1>7, <1>8, <2>3
<1>9. CASE n # 1
  <2>1. n - 1 \in 1 .. n - 1 /\ 1 \in 1 .. n /\ n \in 1 .. n /\ 1 < n /\ n - 1 + 1 = n
    <3>1. n \in Nat \ {0} /\ n # 1 BY <1>2, <1>9
    <3> HIDE DEF n
    <3> QED BY <3>1
  <2>2. v # <<>> /\ v[Len(v)] = u[n]
    <3> HIDE DEF u, v, n
    <3>1. Len(v) = n - 1 /\ v[n - 1] = u[n - 1 + 1] BY <1>3, <2>1
    <3> QED BY <2>1, <3>1, EmptySeq
  <2>3. u[1] < u[n] BY <1>2, <2>1
  <2>4. u[1] # LastWhole BY <1>4, <1>5, <2>3
  <2>5. applied' = u[1] /\ Unread' = v BY <1>3
  <2> HIDE DEF u, v, n
  <2>6. NewestIs' = IF u[n] = LastWhole THEN "unread" ELSE "missed"
    BY <1>1, <2>2, <2>4, <2>5 DEF NewestIs
  <2> QED BY <1>7, <1>9, <2>6 DEF n, u
<1> QED BY <1>8, <1>9

LEMMA LogMaps == RInv /\ Log => Feed!Next
<1> SUFFICES ASSUME RInv, Log PROVE Feed!Next OBVIOUS
<1>1. /\ lines' = lines /\ applied' = applied /\ rest' = rest /\ phase' = phase
      /\ Unread' = Unread /\ PhaseSeen' = phase /\ PhaseSeen = phase
  BY DEF Log, console, Unread, Ahead, After, Leaving, Reached, EndOf, Newest, PhaseSeen,
         Opening
<1>2. LastWhole' = LastWhole /\ NewestIs' = NewestIs BY <1>1, SameLines, SamePlace
<1>3. Len(lines) + 1 \in 1 .. MaxLines
  <2>1. Len(lines) \in Nat /\ Len(lines) < MaxLines BY Numbers DEF RInv, IInv, Log
  <2> QED BY <2>1
<1>4. DueLine = 0 /\ DueLine' = Len(lines) + 1 BY <1>1 DEF Log, DueLine
<1>5. Feed!Begin(Len(lines) + 1) BY <1>1, <1>2, <1>4 DEF Feed!Begin
<1> QED BY <1>3, <1>5 DEF Feed!Next

LEMMA RotateMaps == RInv /\ Rotate => Feed!Next
<1> SUFFICES ASSUME RInv, Rotate PROVE Feed!Next OBVIOUS
<1>1. /\ lines' = lines /\ applied' = applied /\ phase' = phase /\ rest' = FALSE
      /\ writing' = "due" /\ writing = "due" /\ starts' = starts /\ tail' = tail
      /\ ~gone /\ gone' = TRUE /\ Newest' = Newest
  BY DEF Rotate, console, Newest
<1>2. /\ PhaseSeen' = PhaseSeen /\ DueLine' = DueLine /\ DueLine # 0
      /\ LastWhole' = LastWhole
  <2>1. Len(lines) \in Nat BY Numbers DEF RInv, IInv
  <2> QED BY <1>1, <2>1, SameLines DEF PhaseSeen, Opening, DueLine
<1>3. /\ Unread \in Seq(Nat) /\ Len(Unread) \in Nat BY UnreadIs
<1>4. \E k \in 0 .. Len(Unread) : Unread' = SubSeq(Unread, 1, k)
  <2>1. CASE Unread' = <<>>
    <3>1. SubSeq(Unread, 1, 0) = <<>> BY SubSeqEmpty
    <3> QED BY <1>3, <2>1, <3>1
  <2>2. CASE phase = "running" /\ Unread' = Ahead
    <3> DEFINE A == Ahead
               B == After
    <3>1. A \in Seq(Nat) /\ B \in Seq(Nat) BY <2>2, AheadIs, AfterIs
    <3>2. Unread = A \o B BY <2>2 DEF Unread
    <3> HIDE DEF A, B
    <3>3. Unread' = A BY <2>2 DEF A
    <3>4. CASE A = <<>>
      <4>1. Unread' = <<>> BY <3>3, <3>4
      <4> QED BY <2>1, <4>1
    <3>5. CASE A # <<>>
      <4>1. Len(A) \in Nat \ {0} /\ Len(A \o B) = Len(A) + Len(B) /\ Len(B) \in Nat
        BY <3>1, <3>5, EmptySeq, LenProperties, ConcatProperties
      <4>2. 1 \in 1 .. Len(A) /\ Len(A) \in 1 .. Len(A) /\ Len(A) \in 0 .. Len(A \o B)
        BY <4>1
      <4>3. SubSeq(A \o B, 1, Len(A)) = SubSeq(A, 1, Len(A))
        BY <3>1, <4>2, SubSeqOfConcat1
      <4>4. SubSeq(A, 1, Len(A)) = A BY <3>1, SubSeqFull
      <4> QED BY <3>2, <3>3, <4>2, <4>3, <4>4
    <3> QED BY <3>4, <3>5
  <2>3. Unread' = <<>> \/ (phase = "running" /\ Unread' = Ahead)
    <3>1. CASE phase # "running" BY <1>1, <3>1 DEF Unread
    <3>2. CASE phase = "running" /\ Leaving'
      <4>1. Ahead' = <<>> /\ After' = <<>> BY <1>1, <3>2 DEF Ahead, After
      <4> QED BY <1>1, <3>2, <4>1 DEF Unread
    <3>3. CASE phase = "running" /\ ~Leaving'
      <4>1. ~Leaving BY <1>1, <3>3 DEF Leaving
      <4>2. Ahead' = Ahead /\ After' = <<>>
        BY <1>1, <3>3, <4>1 DEF Ahead, After, Reached, EndOf
      <4>3. Ahead \in Seq(Nat) BY <3>3, AheadIs
      <4>4. Ahead \o <<>> = Ahead BY <4>3, ConcatEmptySeq
      <4> QED BY <1>1, <3>3, <4>2, <4>4 DEF Unread
    <3> QED BY <3>1, <3>2, <3>3
  <2> QED BY <2>1, <2>2, <2>3
<1>5. PICK k \in 0 .. Len(Unread) : Unread' = SubSeq(Unread, 1, k) BY <1>4
<1>6. NewestIs' = IF k < Len(Unread) /\ NewestIs = "unread" THEN "missed" ELSE NewestIs
  BY <1>1, <1>5, PrefixPlace
<1>7. Feed!Rotate BY <1>1, <1>2, <1>5, <1>6 DEF Feed!Rotate
<1> QED BY <1>7 DEF Feed!Next

LEMMA CreateMaps == RInv /\ Create => [Feed!Next]_(Feed!fvars)
<1> SUFFICES ASSUME RInv, Create PROVE [Feed!Next]_(Feed!fvars) OBVIOUS
<1>1. /\ starts \in Seq(Nat) /\ Len(lines) \in Nat /\ Newest \in Nat \ {0}
      /\ tail.file \in 0 .. Newest
  BY Numbers DEF RInv, IInv, TypeOK
<1>2. /\ Newest' = Newest + 1 /\ starts'[Newest'] = Len(lines)
      /\ \A f \in 1 .. Newest : starts'[f] = starts[f]
  BY <1>1, Appended DEF Create, Newest
<1>3. /\ lines' = lines /\ writing' = "due" /\ writing = "due" /\ rest' = rest /\ gone
      /\ ~gone' /\ phase' = phase /\ tail' = tail /\ applied' = applied
  BY DEF Create, console, RInv, IInv, Rotating
<1>4. DueLine' = DueLine /\ PhaseSeen' = PhaseSeen
  BY <1>3 DEF DueLine, PhaseSeen, Opening
<1>5. tail.file # 0 => EndOf(tail.file)' = EndOf(tail.file)
  BY <1>1, <1>2, <1>3 DEF EndOf
<1>6. Leaving' = Leaving /\ Reached' = Reached
  BY <1>1, <1>2, <1>3 DEF Leaving, Reached
<1>7. Ahead' = Ahead BY <1>3, <1>5, <1>6 DEF Ahead
<1>8. After' = <<>> /\ After = <<>>
  <2>1. After' = Upto(Len(lines), Len(lines)) BY <1>1, <1>2, <1>3 DEF After
  <2> QED BY <1>1, <1>3, <2>1 DEF After, Upto
<1>9. Unread' = Unread BY <1>3, <1>7, <1>8 DEF Unread
<1> QED BY <1>3, <1>4, <1>9, Hidden

LEMMA WriteHalfMaps == RInv /\ WriteHalf => [Feed!Next]_(Feed!fvars)
<1> SUFFICES ASSUME RInv, WriteHalf PROVE [Feed!Next]_(Feed!fvars) OBVIOUS
<1>1. /\ lines' = lines /\ rest' = rest /\ applied' = applied /\ phase' = phase
      /\ tail' = tail /\ writing = "due" /\ writing' = "half" /\ ~gone
      /\ Newest' = Newest
  BY DEF WriteHalf, console, Newest
<1>2. DueLine' = DueLine BY <1>1 DEF DueLine
<1>3. Unread' = Unread
  BY <1>1 DEF WriteHalf, Unread, Ahead, After, Leaving, Reached, EndOf
<1>4. ~Opening /\ ~Opening' BY <1>1 DEF Opening, RInv, Readable
<1>5. PhaseSeen' = PhaseSeen BY <1>1, <1>4 DEF PhaseSeen
<1> QED BY <1>1, <1>2, <1>3, <1>5, Hidden

(* A line that can be read: what is to be read gets one longer.            *)
LEMMA WriteMaps == RInv /\ WriteRest /\ ~rest => Feed!Next
<1> SUFFICES ASSUME RInv, WriteRest, ~rest PROVE Feed!Next OBVIOUS
<1> DEFINE n == Len(lines)
<1>1. /\ n \in Nat /\ Len(lines') = n + 1 /\ Whole' = Whole \cup {n + 1}
  BY Lengthened
<1>b. rest = FALSE BY DEF RInv, IInv, TypeOK
<1>2. /\ writing = "half" /\ writing' = "idle" /\ rest' = rest /\ ~gone
      /\ starts' = starts /\ gone' = gone /\ tail' = tail /\ phase' = phase
      /\ applied' = applied /\ Newest' = Newest
  BY <1>b DEF WriteRest, console, Newest, RInv, IInv, Rotating
<1>3. LastWhole' = n + 1
  <2>1. \A j \in Whole : j \in Nat /\ j =< n BY <1>1 DEF Whole
  <2>2. /\ n + 1 \in Whole' \cup {0}
        /\ \A j \in Whole' \cup {0} : j \in Nat /\ j =< n + 1
    BY <1>1, <2>1
  <2>3. HasLast' BY <2>2 DEF HasLast
  <2>4. LastWhole' \in Whole' \cup {0} /\ \A j \in Whole' \cup {0} : j =< LastWhole'
    BY <2>3 DEF HasLast, LastWhole
  <2> QED BY <1>1, <2>2, <2>4
<1>4. applied \in Nat /\ applied =< n BY Numbers DEF RInv, IInv
<1>5. NewestIs' = IF Unread' # <<>> /\ Unread'[Len(Unread')] = n + 1 THEN "unread" ELSE "missed"
  BY <1>1, <1>2, <1>3, <1>4 DEF NewestIs
<1>6. DueLine = n + 1 /\ DueLine' = 0 /\ DueLine # 0 BY <1>1, <1>2 DEF DueLine
<1>7. PhaseSeen' = phase BY <1>2 DEF PhaseSeen, Opening
<1>8. CASE phase = "running" /\ ~Opening
  <2>1. PhaseSeen = "running" BY <1>8 DEF PhaseSeen
  <2>2. Unread' = Append(Unread, n + 1)
    <3>1. starts[Newest] \in Nat /\ starts[Newest] =< n /\ Newest \in Nat \ {0}
          /\ tail.file \in 0 .. Newest /\ tail.pos \in 0 .. n /\ tail.since \in Nat
      BY Numbers DEF RInv, IInv, Ordered
    <3>2. CASE tail.file = Newest
      <4>1. Reached \in Nat /\ Reached =< n
        BY <1>1, <1>2, <1>8, <3>1, <3>2 DEF Opening, Reached
      <4>2. After = <<>> /\ After' = <<>> BY <1>2, <3>2 DEF After
      <4>3. Ahead = Upto(Reached, n) /\ Ahead' = Upto(Reached, n + 1)
        BY <1>1, <1>2, <3>1, <3>2 DEF Ahead, Leaving, EndOf, Reached
      <4>4. Upto(Reached, n + 1) = Append(Upto(Reached, n), n + 1)
        BY <1>1, <4>1, UptoMore
      <4>5. Ahead \in Seq(Nat) /\ Ahead' \in Seq(Nat)
        <5>1. Ahead \in Seq(Nat) /\ n + 1 \in Nat BY <1>1, <1>8, AheadIs
        <5>2. Append(Ahead, n + 1) \in Seq(Nat) BY <5>1, Appended
        <5> QED BY <4>3, <4>4, <5>1, <5>2
      <4>6. Unread = Ahead /\ Unread' = Ahead'
        BY <1>2, <1>8, <4>2, <4>5, ConcatEmptySeq DEF Unread
      <4> QED BY <4>3, <4>4, <4>6
    <3>3. CASE tail.file # Newest
      <4>1. After = Upto(starts[Newest], n) /\ After' = Upto(starts[Newest], n + 1)
        BY <1>1, <1>2, <3>3 DEF After
      <4>2. After' = Append(After, n + 1) BY <1>1, <3>1, <4>1, UptoMore
      <4>3. Ahead' = Ahead
        BY <1>2, <3>1, <3>3 DEF Ahead, Leaving, Reached, EndOf
      <4> DEFINE A == Ahead
                 B == After
      <4>4. A \in Seq(Nat) /\ B \in Seq(Nat) BY <1>8, AheadIs, AfterIs
      <4>5. Unread = A \o B /\ Unread' = A \o Append(B, n + 1)
        BY <1>2, <1>8, <4>2, <4>3 DEF Unread
      <4> HIDE DEF A, B
      <4>6. Append(B, n + 1) = B \o <<n + 1>> /\ <<n + 1>> \in Seq(Nat)
        BY <1>1, <4>4, AppendIsConcat
      <4>7. (A \o B) \o <<n + 1>> = A \o (B \o <<n + 1>>)
        BY <4>4, <4>6, ConcatAssociative
      <4>8. A \o B \in Seq(Nat) /\ n + 1 \in Nat BY <1>1, <4>4, ConcatProperties
      <4>9. Append(A \o B, n + 1) = (A \o B) \o <<n + 1>> BY <4>8, AppendIsConcat
      <4> QED BY <4>5, <4>6, <4>7, <4>9
    <3> QED BY <3>2, <3>3
  <2>3. Append(Unread, n + 1) # <<>> /\ Append(Unread, n + 1)[Len(Append(Unread, n + 1))] = n + 1
    <3>1. Unread \in Seq(Nat) /\ n + 1 \in Nat BY <1>1, UnreadIs
    <3> QED BY <3>1, Appended
  <2>4. NewestIs' = "unread" BY <1>5, <2>2, <2>3
  <2>5. Feed!Write
    BY <1>2, <1>3, <1>6, <1>7, <1>8, <2>1, <2>2, <2>4 DEF Feed!Write
  <2> QED BY <2>5 DEF Feed!Next
<1>9. CASE ~(phase = "running" /\ ~Opening)
  <2>1. Unread = <<>> /\ Unread' = <<>>
    <3>1. CASE phase # "running" BY <1>2, <3>1 DEF Unread
    <3>2. CASE phase = "running"
      <4>1. /\ tail.file = Newest /\ tail.since > n /\ tail.since \in Nat
            /\ tail.pos \in 0 .. n /\ Newest \in Nat \ {0}
        BY <1>9, <3>2, Numbers DEF Opening, RInv, IInv
      <4>2. After = <<>> /\ After' = <<>> BY <1>2, <4>1 DEF After
      <4>3. Reached \in Nat /\ n + 1 =< Reached BY <1>1, <4>1 DEF Reached
      <4>4. Ahead = Upto(Reached, n) /\ Ahead' = Upto(Reached, n + 1)
        BY <1>1, <1>2, <4>1 DEF Ahead, Leaving, EndOf, Reached
      <4>5. Upto(Reached, n) = <<>> /\ Upto(Reached, n + 1) = <<>>
        BY <1>1, <4>3 DEF Upto
      <4> QED BY <1>2, <4>2, <4>4, <4>5 DEF Unread
    <3> QED BY <3>1, <3>2
  <2>2. NewestIs' = "missed" BY <1>5, <2>1
  <2>3. /\ PhaseSeen # "running"
        /\ PhaseSeen' = PhaseSeen \/ (PhaseSeen = "starting" /\ PhaseSeen' = "running")
    BY <1>7, <1>9 DEF PhaseSeen, Opening
  <2>4. Feed!Write
    BY <1>2, <1>3, <1>6, <2>1, <2>2, <2>3 DEF Feed!Write
  <2> QED BY <2>4 DEF Feed!Next
<1> QED BY <1>8, <1>9

(* A line that cannot be read is not missed either.                        *)
LEMMA SpoilMaps == RInv /\ WriteRest /\ rest => Feed!Next
<1> SUFFICES ASSUME RInv, WriteRest, rest PROVE Feed!Next OBVIOUS
<1> DEFINE n == Len(lines)
<1>1. n \in Nat /\ Len(lines') = n + 1 /\ Whole' = Whole BY Lengthened
<1>2. /\ writing = "half" /\ writing' = "idle" /\ rest' = FALSE /\ ~gone
      /\ gone' = gone /\ tail' = tail /\ phase' = phase
      /\ applied' = applied /\ Newest' = Newest
  BY DEF WriteRest, console, Newest, RInv, IInv, Rotating
<1>3. LastWhole' = LastWhole BY <1>1 DEF LastWhole
<1>4. DueLine # 0 /\ DueLine' = 0 BY <1>1, <1>2 DEF DueLine
<1>5. PhaseSeen' = PhaseSeen BY <1>2 DEF PhaseSeen, Opening
<1>6. Unread' = Unread
  <2>1. CASE phase # "running" BY <1>2, <2>1 DEF Unread
  <2>2. CASE phase = "running"
    <3>1. /\ tail.file = Newest /\ tail.since > n /\ tail.since \in Nat
          /\ tail.pos \in 0 .. n /\ Newest \in Nat \ {0}
      BY <2>2, Numbers DEF RInv, IInv, Readable
    <3>2. After = <<>> /\ After' = <<>> BY <1>2, <3>1 DEF After
    <3>3. Reached \in Nat /\ n + 1 =< Reached BY <1>1, <3>1 DEF Reached
    <3>4. Ahead = Upto(Reached, n) /\ Ahead' = Upto(Reached, n + 1)
      BY <1>1, <1>2, <3>1 DEF Ahead, Leaving, EndOf, Reached
    <3>5. Upto(Reached, n) = <<>> /\ Upto(Reached, n + 1) = <<>>
      BY <1>1, <3>3 DEF Upto
    <3> QED BY <1>2, <3>2, <3>4, <3>5 DEF Unread
  <2> QED BY <2>1, <2>2
<1>7. NewestIs' = NewestIs BY <1>2, <1>3, <1>6, SamePlace
<1>8. Feed!Spoil BY <1>2, <1>3, <1>4, <1>5, <1>6, <1>7 DEF Feed!Spoil
<1> QED BY <1>8 DEF Feed!Next

LEMMA ForgetsMaps == RInv /\ (PowerLoss \/ Dies) => Feed!Next
<1> SUFFICES ASSUME RInv, PowerLoss \/ Dies PROVE Feed!Next OBVIOUS
<1>1. /\ lines' = lines /\ phase' = "down" /\ applied' = 0 /\ Unread' = <<>>
      /\ PhaseSeen' = "down"
  BY DEF PowerLoss, Dies, firmware, Unread, PhaseSeen, Opening
<1>2. LastWhole' = LastWhole BY <1>1, SameLines
<1>3. NewestIs' = "missed" BY <1>1 DEF NewestIs
<1>4. Feed!Forgets BY <1>1, <1>3 DEF Feed!Forgets
<1>5. CASE PowerLoss
  <2>1. DueLine' = 0 BY <1>5 DEF PowerLoss, DueLine
  <2>2. rest' \in {rest, rest \/ DueLine # 0}
    <3>1. Len(lines) \in Nat BY Numbers DEF RInv, IInv
    <3>2. writing = "half" => DueLine # 0 BY <3>1 DEF DueLine
    <3> QED BY <1>5, <3>2 DEF PowerLoss, RInv, IInv, TypeOK
  <2>3. Feed!PowerLoss BY <1>2, <1>4, <2>1, <2>2 DEF Feed!PowerLoss
  <2> QED BY <2>3 DEF Feed!Next
<1>6. CASE Dies
  <2>1. DueLine' = DueLine /\ rest' = rest BY <1>1, <1>6 DEF Dies, firmware, DueLine
  <2>2. Feed!Dies BY <1>2, <1>4, <2>1 DEF Feed!Dies
  <2> QED BY <2>2 DEF Feed!Next
<1> QED BY <1>5, <1>6

LEMMA BootMaps == RInv /\ Boot => Feed!Next
<1> SUFFICES ASSUME RInv, Boot PROVE Feed!Next OBVIOUS
<1>1. /\ lines' = lines /\ rest' = rest /\ phase = "down" /\ phase' = "starting"
      /\ DueLine' = DueLine /\ Unread = <<>> /\ Unread' = <<>>
      /\ PhaseSeen = "down" /\ PhaseSeen' = "starting" /\ applied = 0
  BY DEF Boot, firmware, DueLine, Unread, PhaseSeen, Opening, RInv, Counted
<1>2. LastWhole' = LastWhole BY <1>1, SameLines
<1>3. LastWhole \in Whole \cup {0} /\ \A j \in Whole \cup {0} : j =< LastWhole
  BY LastIs DEF RInv
<1>w. \A j \in Whole : j \in Nat \ {0} /\ j =< Len(lines) BY Numbers DEF RInv, IInv, Whole
<1> DEFINE here == {k \in Whole : InFile(k) /\ ~gone}
<1>4. applied' \in here \cup {0} /\ \A j \in here : j =< applied'
  BY DEF Boot
<1>5. CASE applied' = 0
  <2>1. NewestIs' = NewestIs BY <1>1, <1>2, <1>5 DEF NewestIs
  <2>2. Feed!Boot BY <1>1, <1>2, <1>5, <2>1 DEF Feed!Boot
  <2> QED BY <2>2 DEF Feed!Next
<1>6. CASE applied' # 0
  <2>1. applied' \in Whole /\ InFile(applied') /\ ~gone BY <1>4, <1>6
  <2>2. starts[Newest] \in Nat BY Numbers DEF RInv, IInv
  <2>3. LastWhole \in Whole /\ InFile(LastWhole)
    BY <1>3, <1>w, <2>1, <2>2 DEF InFile
  <2>4. applied' = LastWhole BY <1>3, <1>4, <1>w, <2>1, <2>3
  <2>5. LastWhole \in 1 .. MaxLines
    <3>1. Len(lines) \in Nat BY Numbers DEF RInv, IInv
    <3>2. Len(lines) =< MaxLines BY <3>1, LogTailerAssumption DEF RInv, Counted
    <3> QED BY <1>w, <2>3, <3>1, <3>2
  <2>6. NewestIs' = "applied" BY <1>2, <2>4, <2>5 DEF NewestIs
  <2>7. [k \in 1 .. MaxLines |-> k][LastWhole] = LastWhole BY <2>5
  <2>8. Feed!Boot BY <1>1, <1>2, <2>4, <2>5, <2>6, <2>7 DEF Feed!Boot
  <2> QED BY <2>8 DEF Feed!Next
<1> QED BY <1>5, <1>6

(* The log is opened between two lines, or within one.                     *)
LEMMA OpenMaps == RInv /\ Open => [Feed!Next]_(Feed!fvars)
<1> SUFFICES ASSUME RInv, Open PROVE [Feed!Next]_(Feed!fvars) OBVIOUS
<1> DEFINE n == Len(lines)
<1>1. /\ lines' = lines /\ rest' = rest /\ applied' = applied /\ DueLine' = DueLine
      /\ phase = "starting" /\ phase' = "running" /\ gone' = gone
      /\ Newest' = Newest /\ writing' = writing
  BY DEF Open, firmware, DueLine, Newest
<1>2. /\ tail'.file = (IF gone THEN 0 ELSE Newest) /\ tail'.pos = n
      /\ tail'.since = (IF Begun THEN n + 1 ELSE n)
  BY DEF Open
<1>3. Newest \in Nat \ {0} /\ n \in Nat BY Numbers DEF RInv, IInv
<1>4. Unread = <<>> BY <1>1 DEF Unread
<1>5. Unread' = <<>>
  <2>1. CASE gone
    <3>1. Ahead' = <<>> /\ After' = <<>> BY <1>1, <1>2, <2>1 DEF Ahead, After
    <3> QED BY <1>1, <3>1 DEF Unread
  <2>2. CASE ~gone
    <3>1. After' = <<>> BY <1>1, <1>2, <2>2 DEF After
    <3>2. Reached' \in Nat /\ n =< Reached' BY <1>2, <1>3 DEF Reached
    <3>3. EndOf(tail.file)' = n BY <1>1, <1>2, <1>3, <2>2 DEF EndOf
    <3>4. Ahead' = <<>> BY <1>3, <3>2, <3>3 DEF Ahead, Upto
    <3> QED BY <1>1, <3>1, <3>4 DEF Unread
  <2> QED BY <2>1, <2>2
<1>6. CASE Opening'
  <2>1. PhaseSeen' = "starting" /\ PhaseSeen = "starting"
    BY <1>1, <1>6 DEF PhaseSeen, Opening
  <2> QED BY <1>1, <1>4, <1>5, <2>1, Hidden
<1>7. CASE ~Opening'
  <2>1. PhaseSeen' = "running" /\ PhaseSeen = "starting"
    BY <1>1, <1>7 DEF PhaseSeen, Opening
  <2>2. LastWhole' = LastWhole /\ NewestIs' = NewestIs
    BY <1>1, <1>4, <1>5, SameLines, SamePlace
  <2>3. Feed!Open BY <1>1, <1>4, <1>5, <2>1, <2>2 DEF Feed!Open
  <2> QED BY <2>3 DEF Feed!Next
<1> QED BY <1>6, <1>7

(* A line that the tailer has seen whole is the next of the unread ones;   *)
(* the rest of one that was begun before it opened the log is none.        *)
LEMMA ReadLineMaps == RInv /\ ReadLine => [Feed!Next]_(Feed!fvars)
<1> SUFFICES ASSUME RInv, ReadLine PROVE [Feed!Next]_(Feed!fvars) OBVIOUS
<1> DEFINE m == EndOf(tail.file)
<1>1. /\ lines' = lines /\ starts' = starts /\ rest' = rest /\ gone' = gone
      /\ writing' = writing /\ phase = "running" /\ phase' = phase
      /\ Newest' = Newest /\ DueLine' = DueLine
      /\ tail.file # 0 /\ tail.next = "read" /\ tail.pos < m
  BY DEF ReadLine, Following, firmware, Newest, DueLine
<1>2. /\ tail'.file = tail.file /\ tail'.pos = tail.pos + 1
      /\ tail'.since = tail.since /\ tail'.next = tail.next
  BY DEF ReadLine, RInv, IInv, TypeOK
<1>3. /\ tail.file \in 1 .. Newest /\ tail.pos \in Nat /\ tail.since \in Nat
      /\ m \in Nat /\ m =< Len(lines) /\ Len(lines) \in Nat
  <2>1. tail.file \in 1 .. Newest BY <1>1, Numbers DEF RInv, IInv
  <2> QED BY <2>1, Numbers, Ends DEF RInv, IInv
<1>4. PhaseSeen' = PhaseSeen BY <1>1, <1>2 DEF PhaseSeen, Opening
<1>5. ~Leaving /\ ~Leaving' BY <1>1, <1>2 DEF Leaving
<1>6. After' = After BY <1>1, <1>2 DEF After
<1>7. EndOf(tail.file)' = m BY <1>1, <1>2 DEF EndOf
<1>8. Ahead = Upto(Reached, m) /\ Ahead' = Upto(Reached', m)
  BY <1>1, <1>2, <1>5, <1>7 DEF Ahead
<1> HIDE DEF m
<1>9. CASE tail.pos >= tail.since
  <2>1. Reached = tail.pos /\ Reached' = tail.pos + 1 BY <1>2, <1>3, <1>9 DEF Reached
  <2>2. Ahead # <<>> /\ Head(Ahead) = tail.pos + 1 /\ Tail(Ahead) = Ahead'
    BY <1>1, <1>3, <1>8, <2>1, UptoRead
  <2> DEFINE A == Ahead
             B == After
             C == Ahead'
  <2>3. A \in Seq(Nat) /\ B \in Seq(Nat) BY <1>1, AheadIs, AfterIs
  <2>4. Unread = A \o B /\ Unread' = C \o B BY <1>1, <1>6 DEF Unread
  <2>5. A # <<>> /\ Head(A) = tail.pos + 1 /\ Tail(A) = C BY <2>2
  <2>u. Unread \in Seq(Nat) BY UnreadIs
  <2>6. Unread # <<>> /\ Head(Unread) = tail.pos + 1 /\ Tail(Unread) = Unread'
    <3> HIDE DEF A, B, C
    <3>1. /\ A \o B # <<>> /\ Head(A \o B) = Head(A)
          /\ Tail(A \o B) = Tail(A) \o B
      BY <2>3, <2>5, ConcatRead
    <3> QED BY <2>4, <2>5, <3>1
  <2> HIDE DEF A, B, C
  <2>7. Unread[1] = tail.pos + 1 /\ Len(Unread) \in Nat \ {0}
    BY <2>u, <2>6, EmptySeq, LenProperties
  <2>8. tail.pos + 1 \in Whole /\ applied < tail.pos + 1
    <3>1. 1 \in 1 .. Len(Unread) BY <2>7
    <3> QED BY <2>7, <3>1, UnreadIs
  <2>9. applied' = tail.pos + 1 BY <1>9, <2>8 DEF ReadLine, Whole
  <2>10. LastWhole' = LastWhole BY <1>1, SameLines
  <2>11. NewestIs' = IF NewestIs = "unread" /\ Len(Unread) = 1 THEN "applied" ELSE NewestIs
    BY <1>1, <2>u, <2>6, <2>7, <2>8, <2>9, <2>10, PlaceRead
  <2>12. tail.pos + 1 \in 1 .. MaxLines
    <3>1. Len(lines) =< MaxLines BY <1>3, LogTailerAssumption DEF RInv, Counted
    <3>2. tail.pos + 1 \in 1 .. Len(lines) BY <2>8 DEF Whole
    <3> QED BY <1>3, <3>1, <3>2
  <2>13. PhaseSeen = "running"
    BY <1>1, <1>3, <1>9 DEF PhaseSeen, Opening, EndOf, m
  <2>14. Feed!Read
    BY <1>1, <1>4, <2>6, <2>9, <2>10, <2>11, <2>12, <2>13 DEF Feed!Read
  <2> QED BY <2>14 DEF Feed!Next
<1>10. CASE ~(tail.pos >= tail.since)
  <2>1. Reached = tail.since /\ Reached' = tail.since BY <1>2, <1>3, <1>10 DEF Reached
  <2>2. Unread' = Unread BY <1>1, <1>6, <1>8, <2>1 DEF Unread
  <2>3. applied' = applied BY <1>10 DEF ReadLine
  <2> QED BY <1>1, <1>4, <2>2, <2>3, Hidden
<1> QED BY <1>9, <1>10

(* The tailer at the end of its file: it has read what it can.             *)
LEMMA ReadEndMaps == RInv /\ ReadEnd => [Feed!Next]_(Feed!fvars)
<1> SUFFICES ASSUME RInv, ReadEnd PROVE [Feed!Next]_(Feed!fvars) OBVIOUS
<1>1. /\ lines' = lines /\ starts' = starts /\ rest' = rest /\ gone' = gone
      /\ writing' = writing /\ phase = "running" /\ phase' = phase
      /\ Newest' = Newest /\ DueLine' = DueLine /\ applied' = applied
      /\ tail.file # 0 /\ tail.next = "read" /\ tail.pos = EndOf(tail.file)
  BY DEF ReadEnd, Following, firmware, Newest, DueLine
<1>2. /\ tail'.file = tail.file /\ tail'.pos = tail.pos
      /\ tail'.since = tail.since /\ tail'.next = "check"
  BY DEF ReadEnd, RInv, IInv, TypeOK
<1>3. PhaseSeen' = PhaseSeen BY <1>1, <1>2 DEF PhaseSeen, Opening
<1>4. After' = After BY <1>1, <1>2 DEF After
<1>5. tail.pos \in Nat /\ tail.since \in Nat BY Numbers DEF RInv, IInv
<1>6. Ahead = <<>>
  <2>1. Reached \in Nat /\ tail.pos =< Reached BY <1>5 DEF Reached
  <2> QED BY <1>1, <1>5, <2>1 DEF Ahead, Upto
<1>7. Ahead' = <<>>
  <2>1. Reached' = Reached /\ EndOf(tail.file)' = EndOf(tail.file)
    BY <1>1, <1>2 DEF Reached, EndOf
  <2>2. Ahead' \in {<<>>, Upto(Reached, EndOf(tail.file))}
    BY <1>1, <1>2, <2>1 DEF Ahead
  <2>3. ~Leaving BY <1>1 DEF Leaving
  <2> QED BY <1>1, <1>6, <2>2, <2>3 DEF Ahead
<1>8. Unread' = Unread BY <1>1, <1>4, <1>6, <1>7 DEF Unread
<1> QED BY <1>1, <1>3, <1>8, Hidden

(* What a tailer without a file, or that leaves its file, has to read is   *)
(* what the newest file holds, from its start.                             *)
LEMMA ReopenedMaps ==
  ASSUME RInv, Following, Reopened, applied' = applied,
         tail.file = 0 \/ Leaving, gone \/ tail.file # Newest
  PROVE  [Feed!Next]_(Feed!fvars)
<1>1. /\ lines' = lines /\ starts' = starts /\ rest' = rest /\ gone' = gone
      /\ writing' = writing /\ phase = "running" /\ phase' = phase
      /\ Newest' = Newest /\ DueLine' = DueLine
  BY DEF Following, firmware, Newest, DueLine
<1>2. /\ tail'.file = (IF gone THEN 0 ELSE Newest) /\ tail'.next = "read"
      /\ tail'.pos = (IF gone THEN tail.pos ELSE starts[Newest])
      /\ tail'.since = (IF gone THEN tail.since ELSE starts[Newest])
  BY DEF Reopened, RInv, IInv, TypeOK
<1>3. /\ Newest \in Nat \ {0} /\ Len(lines) \in Nat
      /\ starts[Newest] \in Nat /\ starts[Newest] =< Len(lines)
  BY Numbers DEF RInv, IInv, Ordered
<1>4. Ahead = <<>> BY DEF Ahead
<1>5. Unread' = Unread
  <2>1. CASE gone
    <3>1. Ahead' = <<>> /\ After' = <<>> /\ After = <<>>
      BY <1>1, <1>2, <2>1 DEF Ahead, After
    <3> QED BY <1>1, <1>4, <3>1 DEF Unread
  <2>2. CASE ~gone
    <3>1. After' = <<>> /\ After = Upto(starts[Newest], Len(lines))
      BY <1>1, <1>2, <2>2 DEF After
    <3>2. Reached' = starts[Newest] /\ ~Leaving' /\ tail'.file = Newest
      BY <1>2, <1>3, <2>2 DEF Reached, Leaving
    <3>3. EndOf(tail.file)' = Len(lines) BY <1>1, <1>3, <3>2 DEF EndOf
    <3>4. Ahead' = Upto(starts[Newest], Len(lines))
      BY <1>1, <1>3, <3>2, <3>3 DEF Ahead
    <3>5. After \in Seq(Nat) BY <1>1, AfterIs
    <3>6. After \o <<>> = After /\ <<>> \o After = After BY <3>5, ConcatEmptySeq
    <3> QED BY <1>1, <1>4, <3>1, <3>4, <3>6 DEF Unread
  <2> QED BY <2>1, <2>2
<1>6. PhaseSeen' = PhaseSeen
  <2>1. ~Opening BY DEF Opening, RInv, IInv, Rotating
  <2>2. ~Opening' BY <1>1, <1>2, <1>3 DEF Opening
  <2> QED BY <1>1, <2>1, <2>2 DEF PhaseSeen
<1> QED BY <1>1, <1>5, <1>6, Hidden

LEMMA CheckRotationMaps == RInv /\ CheckRotation => [Feed!Next]_(Feed!fvars)
<1> SUFFICES ASSUME RInv, CheckRotation PROVE [Feed!Next]_(Feed!fvars) OBVIOUS
<1>1. CASE gone \/ tail.file # Newest
  <2>1. Leaving BY <1>1 DEF Leaving, CheckRotation
  <2> QED BY <1>1, <2>1, ReopenedMaps DEF CheckRotation
<1>2. CASE ~(gone \/ tail.file # Newest)
  <2>1. /\ lines' = lines /\ starts' = starts /\ rest' = rest /\ gone' = gone
        /\ writing' = writing /\ phase' = phase /\ Newest' = Newest
        /\ DueLine' = DueLine /\ applied' = applied
    BY DEF CheckRotation, Following, firmware, Newest, DueLine
  <2>2. /\ tail'.file = tail.file /\ tail'.pos = tail.pos /\ tail'.since = tail.since
    BY <1>2 DEF CheckRotation, RInv, IInv, TypeOK
  <2>3. ~Leaving /\ ~Leaving' BY <1>2, <2>1, <2>2 DEF Leaving
  <2>4. PhaseSeen' = PhaseSeen /\ Unread' = Unread
    BY <2>1, <2>2, <2>3 DEF PhaseSeen, Opening, Unread, Ahead, After, Reached, EndOf
  <2> QED BY <2>1, <2>4, Hidden
<1> QED BY <1>1, <1>2

LEMMA FollowMaps == RInv /\ Follow => [Feed!Next]_(Feed!fvars)
<1> SUFFICES ASSUME RInv, Follow PROVE [Feed!Next]_(Feed!fvars) OBVIOUS
<1>1. CASE FindFile
  <2>1. tail.file # Newest BY <1>1, Numbers DEF RInv, IInv, FindFile
  <2> QED BY <1>1, <2>1, ReopenedMaps DEF FindFile
<1> QED BY <1>1, ReadLineMaps, ReadEndMaps, CheckRotationMaps DEF Follow

LEMMA StepMaps == RInv /\ [Next]_vars => [Feed!Next]_(Feed!fvars)
<1> SUFFICES ASSUME RInv, [Next]_vars PROVE [Feed!Next]_(Feed!fvars) OBVIOUS
<1>1. CASE WriteRest BY <1>1, WriteMaps, SpoilMaps
<1>2. CASE UNCHANGED vars
  <2>1. /\ lines' = lines /\ rest' = rest /\ applied' = applied /\ DueLine' = DueLine
        /\ Unread' = Unread /\ PhaseSeen' = PhaseSeen
    BY <1>2 DEF vars, firmware, console, DueLine, Unread, Ahead, After, Leaving, Reached,
                EndOf, Newest, PhaseSeen, Opening
  <2> QED BY <2>1, Hidden
<1> QED BY <1>1, <1>2, LogMaps, RotateMaps, CreateMaps, WriteHalfMaps, ForgetsMaps,
          BootMaps, OpenMaps, FollowMaps DEF Next, Writes

(* Files that grow, are rotated and lost with the power, and a tailer that *)
(* polls them (_audit_state, run, _open, _check_rotation), keep LineFeed's *)
(* promise: each line that is not lost with its file, or half of it with   *)
(* the power, is applied once and in its turn.                             *)
THEOREM Implements == Spec => Delivers
<1>1. Init => Feed!Init
  <2> SUFFICES ASSUME Init PROVE Feed!Init OBVIOUS
  <2>1. lines = <<>> /\ Whole = {} BY DEF Init, Whole
  <2>2. LastWhole = 0 /\ DueLine = 0 /\ Unread = <<>> /\ PhaseSeen = "down"
    BY <2>1 DEF Init, LastWhole, DueLine, Unread, PhaseSeen, Opening
  <2>3. NewestIs = "missed" BY <2>2 DEF NewestIs
  <2> QED BY <2>2, <2>3 DEF Init, Feed!Init
<1> QED BY <1>1, InitReads, NextReads, StepMaps, PTL DEF Spec, Delivers, Feed!Spec

=============================================================================
