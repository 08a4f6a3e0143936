------------------------------ MODULE LineFeed ------------------------------
(***************************************************************************)
(* What the state log and its tailer promise the web console, whatever the *)
(* files do: it applies the last line that can be read when it starts, or  *)
(* none, and then the lines that are written, each once and in order.  It  *)
(* misses lines in three ways: they were written between its two looks at  *)
(* the log; the log was rotated for another line, which is then to come;   *)
(* or the line was appended to the half of one that a loss of power has    *)
(* left, which nobody can read.                                            *)
(***************************************************************************)
EXTENDS Naturals, Sequences

CONSTANTS
  Lines,
  NoLine,
  Apply,   \* what the console shows after each line
  Blank    \* what it shows before

VARIABLES
  due,     \* the line that the firmware is about to write
  rest,    \* the log ends in half a line of before a loss of power
  newest,  \* the last line that can be read
  place,   \* where that line is: among the unread, applied or missed
  unread,  \* the lines that are still to be applied
  phase,   \* of the console
  shown    \* what it shows

fvars == <<due, rest, newest, place, unread, phase, shown>>

\* The firmware writes no other line until this one is written.
Begin(l) ==
  /\ due = NoLine
  /\ due' = l
  /\ UNCHANGED <<rest, newest, place, unread, phase, shown>>

\* The lines that are not in the file where the tailer is are lost.
Rotate ==
  /\ due # NoLine
  /\ \E k \in 0 .. Len(unread) :
       /\ unread' = SubSeq(unread, 1, k)
       /\ place' = IF k < Len(unread) /\ place = "unread" THEN "missed" ELSE place
  /\ rest' = FALSE
  /\ UNCHANGED <<due, newest, phase, shown>>

\* The log may be opened at its end while the line is being written.
Write ==
  /\ due # NoLine /\ ~rest
  /\ due' = NoLine /\ newest' = due
  /\ \/ /\ phase = "running"
        /\ place' = "unread" /\ unread' = Append(unread, due)
        /\ UNCHANGED phase
     \/ /\ phase # "running"
        /\ place' = "missed"
        /\ \/ UNCHANGED phase
           \/ phase = "starting" /\ phase' = "running"
        /\ UNCHANGED unread
  /\ UNCHANGED <<rest, shown>>

Spoil ==
  /\ due # NoLine /\ rest
  /\ due' = NoLine /\ rest' = FALSE
  /\ UNCHANGED <<newest, place, unread, phase, shown>>

Boot ==
  /\ phase = "down"
  /\ phase' = "starting"
  /\ \/ newest # NoLine /\ shown' = Apply[newest] /\ place' = "applied"
     \/ UNCHANGED <<shown, place>>
  /\ UNCHANGED <<due, rest, newest, unread>>

Open ==
  /\ phase = "starting"
  /\ phase' = "running"
  /\ UNCHANGED <<due, rest, newest, place, unread, shown>>

Read ==
  /\ phase = "running" /\ unread # <<>>
  /\ shown' = Apply[Head(unread)]
  /\ unread' = Tail(unread)
  /\ place' = IF place = "unread" /\ Len(unread) = 1 THEN "applied" ELSE place
  /\ UNCHANGED <<due, rest, newest, phase>>

Forgets == phase' = "down" /\ unread' = <<>> /\ place' = "missed" /\ shown' = Blank

Dies == Forgets /\ UNCHANGED <<due, rest, newest>>

PowerLoss ==
  /\ Forgets
  /\ rest' \in {rest, rest \/ due # NoLine}
  /\ due' = NoLine
  /\ UNCHANGED newest

Init ==
  /\ due = NoLine /\ rest = FALSE
  /\ newest = NoLine /\ place = "missed" /\ unread = <<>>
  /\ phase = "down" /\ shown = Blank

Next ==
  \/ \E l \in Lines : Begin(l)
  \/ Rotate \/ Write \/ Spoil \/ PowerLoss
  \/ Boot \/ Open \/ Read \/ Dies

Spec == Init /\ [][Next]_fvars
=============================================================================
