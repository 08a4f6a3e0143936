----------------------------- MODULE LogTailer ------------------------------
(***************************************************************************)
(* How the lines of the state log reach the web console.  The firmware     *)
(* appends a line after each change and rotates the log by its size before *)
(* a line.  The console applies the last line of the log when it starts,   *)
(* opens the log at its end a little later and follows it by polling       *)
(* (tailer.py); it keeps what the newest line it has applied says.         *)
(*                                                                         *)
(* A line counts by its number: what it says is the business of WebState.  *)
(* The log is the sequence of all lines, files how many lines came before  *)
(* each of them.  A line is broken when a loss of power cut it short and   *)
(* the next one was appended to its rest.                                  *)
(***************************************************************************)
EXTENDS Naturals, Sequences

CONSTANTS
  MaxLines,  \* bound: lines of the log
  MaxFiles   \* bound: files of the log

ASSUME LogTailerAssumption == MaxLines \in Nat /\ MaxFiles \in Nat \ {0}

VARIABLES
  lines,    \* whether each line is whole or broken
  starts,   \* the number of lines before each file
  gone,     \* the log is being rotated: there is no file of its name
  writing,  \* the firmware: a line is due, or half of it is in the file
  rest,     \* the file ends in half a line of before a loss of power
  phase,    \* of the console
  tail,     \* the file where the tailer is, the lines it has behind it,
            \* what it does next, and the lines of the file it cannot read
            \* whole because they were there when it opened it, or begun
  applied   \* the line that the state shows, 0 for none

firmware == <<lines, starts, gone, writing, rest>>
console == <<phase, tail, applied>>
vars == <<firmware, console>>

Nowhere == [file |-> 0, pos |-> 0, next |-> "read", since |-> 0]
Newest == Len(starts)
-----------------------------------------------------------------------------
(* The firmware: _audit_state through a RotatingFileHandler.               *)

Log ==
  /\ writing = "idle" /\ Len(lines) < MaxLines
  /\ writing' = "due"
  /\ UNCHANGED <<lines, starts, gone, rest, console>>

\* The file is full: it gets another name, and a new one is created.
Rotate ==
  /\ writing = "due" /\ ~gone
  /\ Len(lines) > starts[Newest] /\ Newest < MaxFiles
  /\ gone' = TRUE
  /\ rest' = FALSE
  /\ UNCHANGED <<lines, starts, writing, console>>

Create ==
  /\ gone
  /\ gone' = FALSE
  /\ starts' = Append(starts, Len(lines))
  /\ UNCHANGED <<lines, writing, rest, console>>

WriteHalf ==
  /\ writing = "due" /\ ~gone
  /\ writing' = "half"
  /\ UNCHANGED <<lines, starts, gone, rest, console>>

WriteRest ==
  /\ writing = "half"
  /\ lines' = Append(lines, IF rest THEN "broken" ELSE "whole")
  /\ writing' = "idle"
  /\ rest' = FALSE
  /\ UNCHANGED <<starts, gone, console>>

\* The power, and with it the console; the firmware opens the log again.
PowerLoss ==
  /\ rest' = (rest \/ writing = "half")
  /\ writing' = "idle"
  /\ starts' = IF gone THEN Append(starts, Len(lines)) ELSE starts
  /\ gone' = FALSE
  /\ phase' = "down" /\ tail' = Nowhere /\ applied' = 0
  /\ UNCHANGED lines
-----------------------------------------------------------------------------
(* The console.                                                            *)

Whole == {k \in 1 .. Len(lines) : lines[k] = "whole"}
InFile(k) == k > starts[Newest]

\* _bootstrap_state_from_log: the last whole line of the file that is there
Boot ==
  /\ phase = "down"
  /\ phase' = "starting"
  /\ LET here == {k \in Whole : InFile(k) /\ ~gone} IN
       applied' \in {k \in here \cup {0} : \A j \in here : j =< k}
  /\ UNCHANGED <<firmware, tail>>

Begun == writing = "half" \/ rest

\* run: the log is opened at its end; nobody reads what came since Boot.
Open ==
  /\ phase = "starting"
  /\ phase' = "running"
  /\ tail' = [file |-> IF gone THEN 0 ELSE Newest, pos |-> Len(lines), next |-> "read",
              since |-> IF Begun THEN Len(lines) + 1 ELSE Len(lines)]
  /\ UNCHANGED <<firmware, applied>>

Following == phase = "running" /\ UNCHANGED <<firmware, phase>>

EndOf(f) == IF f < Newest THEN starts[f + 1] ELSE Len(lines)

\* The rest of a line that was begun before the log was opened counts.
ReadLine_Begun ==
  /\ Following
  /\ tail.file # 0 /\ tail.next = "read" /\ tail.pos < EndOf(tail.file)
  /\ tail' = [tail EXCEPT !.pos = @ + 1]
  /\ applied' = IF lines[tail.pos + 1] = "whole" THEN tail.pos + 1 ELSE applied

\* on_state_line: a line that is not whole, or not read whole, does not count.
ReadLine ==
  /\ Following
  /\ tail.file # 0 /\ tail.next = "read" /\ tail.pos < EndOf(tail.file)
  /\ tail' = [tail EXCEPT !.pos = @ + 1]
  /\ applied' = IF lines[tail.pos + 1] = "whole" /\ tail.pos >= tail.since
              THEN tail.pos + 1 ELSE applied

\* Half a line leaves the tailer where it is, without a look for a rotation.
AtHalf == tail.file = Newest /\ tail.pos >= tail.since /\ writing = "half"

ReadEnd ==
  /\ Following
  /\ tail.file # 0 /\ tail.next = "read" /\ tail.pos = EndOf(tail.file) /\ ~AtHalf
  /\ tail' = [tail EXCEPT !.next = "check"]
  /\ UNCHANGED applied

\* The new file is opened at its end, as the first one was.
Reopened_AtEnd ==
  tail' = [tail EXCEPT !.file = IF gone THEN 0 ELSE Newest, !.next = "read",
                       !.pos = Len(lines),
                       !.since = IF gone THEN @ ELSE starts[Newest]]

\* _open(seek_end=False)
Reopened ==
  tail' = [tail EXCEPT !.file = IF gone THEN 0 ELSE Newest, !.next = "read",
                       !.pos = IF gone THEN @ ELSE starts[Newest],
                       !.since = IF gone THEN @ ELSE starts[Newest]]

\* Every file counts as another one.
CheckRotation_Always ==
  /\ Following
  /\ tail.next = "check"
  /\ Reopened
  /\ UNCHANGED applied

CheckRotation ==
  /\ Following
  /\ tail.next = "check"
  /\ IF gone \/ tail.file # Newest
     THEN Reopened
     ELSE tail' = [tail EXCEPT !.next = "read"]
  /\ UNCHANGED applied

\* A file that appears is read from its start.
FindFile ==
  /\ Following
  /\ tail.file = 0 /\ ~gone
  /\ Reopened
  /\ UNCHANGED applied

Follow_NeverFinds == ReadLine \/ ReadEnd \/ CheckRotation
Follow == ReadLine \/ ReadEnd \/ CheckRotation \/ FindFile

Dies ==
  /\ phase # "down"
  /\ phase' = "down" /\ tail' = Nowhere /\ applied' = 0
  /\ UNCHANGED firmware

Init ==
  /\ lines = <<>> /\ starts = <<0>> /\ gone = FALSE
  /\ writing = "idle" /\ rest = FALSE
  /\ phase = "down" /\ tail = Nowhere /\ applied = 0

Writes == Create \/ WriteHalf \/ WriteRest

Next ==
  \/ Log \/ Rotate \/ Writes \/ PowerLoss
  \/ Boot \/ Open \/ Follow \/ Dies

Spec == Init /\ [][Next]_vars

\* A line that is due gets written and the task of the tailer runs on.
FairSpec == Spec /\ WF_vars(Writes) /\ WF_vars(Follow)
-----------------------------------------------------------------------------
TypeOK ==
  /\ lines \in Seq({"whole", "broken"}) /\ starts \in Seq(Nat) /\ starts # <<>>
  /\ gone \in BOOLEAN /\ rest \in BOOLEAN
  /\ writing \in {"idle", "due", "half"}
  /\ phase \in {"down", "starting", "running"}
  /\ tail \in [file : 0 .. Newest, pos : 0 .. Len(lines), next : {"read", "check"},
               since : 0 .. Len(lines) + 1]
  /\ applied \in 0 .. Len(lines)

\* At the end of the log the console shows the newest whole line of the file,
\* whatever was lost when files were rotated, unless that line came before the
\* tailer.
AtEnd == phase = "running" /\ tail.file = Newest /\ tail.pos = Len(lines)

ShowsNewest ==
  AtEnd => \A k \in Whole : InFile(k) /\ k > tail.since => applied >= k

\* The console does not go back to an earlier line than the one it shows.
NeverBack == [][phase = "running" /\ phase' = "running" => applied' >= applied]_vars

\* Every whole line that is written while the tailer runs is shown in the end,
\* or a later one is.
EventsArrive ==
  \A k \in 1 .. MaxLines :
    phase = "running" /\ k \in Whole /\ k > tail.since
      ~> applied >= k \/ phase # "running"
-----------------------------------------------------------------------------
(* The log and the tailer as the console sees them: module LineFeed, with  *)
(* the numbers of the lines for the lines.  A tailer that opened the log   *)
(* within a line counts as starting until that line is written; after a    *)
(* rotation it reads the file where it is to its end, unless it has been   *)
(* there already, and then the newest file.                                *)

LastWhole == CHOOSE k \in Whole \cup {0} : \A j \in Whole \cup {0} : j =< k

DueLine == IF writing = "idle" THEN 0 ELSE Len(lines) + 1

Opening ==
  /\ phase = "running" /\ tail.file = Newest
  /\ writing = "half" /\ ~rest /\ tail.since > Len(lines)

PhaseSeen == IF Opening THEN "starting" ELSE phase

\* The numbers of the lines after the first m, up to the n-th
Upto(m, n) == IF n =< m THEN <<>> ELSE [i \in 1 .. n - m |-> m + i]

Reached == IF tail.pos >= tail.since THEN tail.pos ELSE tail.since
Leaving == tail.next = "check" /\ (gone \/ tail.file # Newest)
Ahead == IF tail.file = 0 \/ Leaving THEN <<>> ELSE Upto(Reached, EndOf(tail.file))
After == IF gone \/ tail.file = Newest THEN <<>> ELSE Upto(starts[Newest], Len(lines))
Unread == IF phase = "running" THEN Ahead \o After ELSE <<>>

NewestIs ==
  IF LastWhole # 0 /\ applied = LastWhole THEN "applied"
  ELSE IF Unread # <<>> /\ Unread[Len(Unread)] = LastWhole THEN "unread"
  ELSE "missed"

Feed == INSTANCE LineFeed WITH
  Lines  <- 1 .. MaxLines,
  NoLine <- 0,
  Apply  <- [k \in 1 .. MaxLines |-> k],
  Blank  <- 0,
  due    <- DueLine,
  newest <- LastWhole,
  place  <- NewestIs,
  unread <- Unread,
  phase  <- PhaseSeen,
  shown  <- applied

\* The console gets what LineFeed promises, on which WebState rests: however
\* the log is rotated, the newest line is missed only if another one is due,
\* or with the power.
Delivers == Feed!Spec

=============================================================================
