----------------------------- MODULE ActiveAce -----------------------------
(***************************************************************************)
(* What BunnyAce promises about the active ACE, whatever USB does: one ACE *)
(* is active, one is recorded for the next start, and the slots shown are  *)
(* those the active ACE reported since it became active.  The one gap is a *)
(* switch that is given up after its target had already reported: the old  *)
(* ACE is active again while the target's slots are still shown.           *)
(***************************************************************************)
CONSTANTS Ace, NoAce

VARIABLES
  chosen,  \* the ACE a restart will connect to
  active,  \* the ACE commands go to
  up,      \* the link counts as connected
  shown    \* the ACE whose slots gate_status shows, NoAce when unknown

pvars == <<chosen, active, up, shown>>

Init ==
  /\ chosen \in Ace
  /\ active = chosen
  /\ up = TRUE
  /\ shown = NoAce

\* The active ACE reports its slots over a link that is up.
Report ==
  /\ up
  /\ shown' = active
  /\ UNCHANGED <<chosen, active, up>>

\* The link goes down, or comes back to the same ACE.
LinkChange ==
  /\ up' \in BOOLEAN
  /\ UNCHANGED <<chosen, active, shown>>

\* A switch: from now on t is active and recorded, its slots still unknown.
Choose(t) ==
  /\ active' = t
  /\ chosen' = t
  /\ shown' = NoAce
  /\ up' \in BOOLEAN

\* The target cannot be reached: back to another ACE, the record stays.
GiveUp(o) ==
  /\ ~up
  /\ active = chosen
  /\ active' = o
  /\ up' \in BOOLEAN
  /\ UNCHANGED <<chosen, shown>>

\* A restart goes to the recorded ACE and knows nothing of its slots.
Reboot ==
  /\ active' = chosen
  /\ shown' = NoAce
  /\ up' \in BOOLEAN
  /\ UNCHANGED chosen

Next ==
  \/ Report
  \/ LinkChange
  \/ \E t \in Ace : Choose(t) \/ GiveUp(t)
  \/ Reboot

Spec == Init /\ [][Next]_pvars
=============================================================================
