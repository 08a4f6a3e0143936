------------------------------ MODULE SpoolHub ------------------------------
(***************************************************************************)
(* The FilamentHub plugin.  What lies in a slot is kept in three places:   *)
(* the location of each spool (FilamentHub), the label of each slot (the   *)
(* slot overrides of multiACE) and the plugin's own record of each slot (a *)
(* file).  No transaction spans them: a request of the web page writes one *)
(* after the other, waits for an answer in between, may fail or have lost  *)
(* the answer of what was done, and runs beside other requests and beside  *)
(* what the spool scanner and multiACE do by themselves.                   *)
(*                                                                         *)
(* A request is a record with the stage it is in.  The record of a slot is *)
(* loaded, changed and saved between two awaits: one step.  A spool or a   *)
(* profile stands for the label made of it.                                *)
(***************************************************************************)
EXTENDS Naturals, FiniteSets

CONSTANTS
  Places,       \* the slots, (ace, slot)
  Aces,
  AceOf,        \* the ACE of each slot
  Spools,       \* spools that are, or will be, in FilamentHub
  Stock,        \* the spools it has when the plugin starts
  Profiles,     \* filaments, which can be assigned without a spool
  Reqs,         \* how many requests run side by side
  MaxRequests,  \* bound: requests
  MaxPulls,     \* bound: pulls among them
  MaxTrouble,   \* bound: failures, changes by somebody else, missing winners
  None

ASSUME SpoolHubAssumption ==
  /\ AceOf \in [Places -> Aces]
  /\ Stock \subseteq Spools /\ Spools \cap Profiles = {}
  /\ MaxRequests \in Nat /\ MaxPulls \in Nat /\ MaxTrouble \in Nat
  /\ None \notin Places \cup Spools \cup Profiles

VARIABLES
  hub,       \* the spools of FilamentHub
  location,  \* the slot of each spool
  labels,    \* the label of each slot
  desired,   \* the plugin's record of each slot: its spool_id or its profile
  req,       \* the requests
  asked,     \* bound: requests so far
  pulled,    \* bound: pulls so far
  trouble    \* bound: failures, changes from outside and missing winners so far

world == <<hub, location, labels>>
bounds == <<asked, pulled, trouble>>
vars == <<world, desired, req, bounds>>

Things == Spools \cup Profiles
Labels == [Places -> Things \cup {None}]
Stages == {"locate", "label", "record", "find", "unplace", "unlabel", "drop",
           "list", "write", "done"}
-----------------------------------------------------------------------------
(* Requests.                                                               *)

\* what: the spool or profile to assign, or the record at hand (unassign)
\* target: the spool that unassign takes out; won, disputed, tells, cov: the
\* answer of FilamentHub, which tells its coverage or (schema 1) does not;
\* apply, clear: the plan; alone (history): no other request and nobody else
\* did anything from its start on
Request ==
  [op : {"none", "assign", "label", "unassign", "pull"}, at : Places \cup {None},
   what : Things \cup {None}, target : Spools \cup {None}, stage : Stages,
   won : [Places -> Spools \cup {None}], disputed : SUBSET Places,
   tells : BOOLEAN, cov : SUBSET Aces, apply : SUBSET Places, clear : SUBSET Places,
   prune : BOOLEAN, ok : BOOLEAN, alone : BOOLEAN]

New(op, p, what, stage, alone) ==
  [op |-> op, at |-> p, what |-> what, target |-> None, stage |-> stage,
   won |-> [o \in Places |-> None], disputed |-> {}, tells |-> FALSE,
   cov |-> {}, apply |-> {}, clear |-> {}, prune |-> FALSE, ok |-> TRUE,
   alone |-> alone]

Idle == New("none", None, None, "done", FALSE)
Over(q) == q.stage = "done"
Disturbed(q) == IF Over(q) THEN Idle ELSE [q EXCEPT !.alone = FALSE]

Fresh(r, op, p, what, stage) ==
  New(op, p, what, stage, \A o \in Reqs \ {r} : Over(req[o]))

Starts(r, new) ==
  /\ Over(req[r]) /\ asked < MaxRequests
  /\ asked' = asked + 1
  /\ req' = [o \in Reqs |-> IF o = r THEN new ELSE Disturbed(req[o])]

In(r, stage) == req[r].stage = stage
Goes(r, stage) == req' = [req EXCEPT ![r].stage = stage]

Claims(p) == {s \in Spools : location[s] = p}
-----------------------------------------------------------------------------
(* The requests begin.                                                     *)

Assign(r, s, p) ==
  /\ s \in hub
  /\ Starts(r, Fresh(r, "assign", p, s, "locate"))
  /\ UNCHANGED <<world, desired, pulled, trouble>>

\* assign-profile with create_spool: a spool that only the request knows of
Mint(r, s, p) ==
  /\ s \notin hub
  /\ hub' = hub \cup {s}
  /\ Starts(r, Fresh(r, "assign", p, s, "locate"))
  /\ UNCHANGED <<location, labels, desired, pulled, trouble>>

AssignProfile(r, f, p) ==
  /\ Starts(r, Fresh(r, "label", p, f, "label"))
  /\ UNCHANGED <<world, desired, pulled, trouble>>

\* The record says which spool the plugin placed here; a profile placed none.
Unassign(r, p) ==
  /\ Starts(r, Fresh(r, "unassign", p, desired[p],
                     IF desired[p] \in Profiles THEN "unlabel" ELSE "find"))
  /\ UNCHANGED <<world, desired, pulled, trouble>>

\* One winner for each slot that is claimed, but in a moment of trouble.
Winners == {w \in [Places -> Spools \cup {None}] :
              \A p \in Places : w[p] \in Claims(p) \cup {None}}
Missing(w) == {p \in Places : w[p] = None /\ Claims(p) # {}}

Troubled == trouble < MaxTrouble /\ trouble' = trouble + 1

Pull(r) ==
  /\ pulled < MaxPulls /\ pulled' = pulled + 1
  /\ \E w \in Winners, c \in SUBSET Aces, t, b \in BOOLEAN :
       /\ c # {} => t
       /\ Starts(r, [Fresh(r, "pull", None, None, "list") EXCEPT
         !.won = w, !.tells = t, !.cov = c, !.prune = b,
         !.disputed = {p \in Places : Cardinality(Claims(p)) > 1}])
       /\ IF Missing(w) = {} THEN UNCHANGED trouble ELSE Troubled
  /\ UNCHANGED <<world, desired>>
-----------------------------------------------------------------------------
(* The stages of assign and unassign.                                      *)

Relocated(s, p) == location' = [location EXCEPT ![s] = p]
Labelled(p, what) == labels' = [labels EXCEPT ![p] = what]

\* What a request writes in its stage, and the stage that follows.
Writes(q) ==
  CASE q.stage = "locate"  -> Relocated(q.what, q.at) /\ UNCHANGED labels
    [] q.stage = "label"   -> Labelled(q.at, q.what) /\ UNCHANGED location
    [] q.stage = "unplace" -> Relocated(q.target, None) /\ UNCHANGED labels
    [] q.stage = "unlabel" -> Labelled(q.at, None) /\ UNCHANGED location
    [] OTHER -> FALSE

After == [locate |-> "label", label |-> "record",
          unplace |-> "unlabel", unlabel |-> "drop"]

Write(r) ==
  /\ Writes(req[r])
  /\ Goes(r, After[req[r].stage])
  /\ UNCHANGED <<hub, desired, bounds>>

\* The first spool at the slot is taken out, whoever placed it.
Matches_First(q) == Claims(q.at)

\* unassign_slot: the recorded spool if it is still there; without a record
\* the first one of the list
Matches(q) == {s \in Claims(q.at) : q.what = None \/ s = q.what}

Find(r) ==
  /\ In(r, "find")
  /\ IF Matches(req[r]) = {}
     THEN Goes(r, "unlabel")
     ELSE \E t \in Matches(req[r]) :
            req' = [req EXCEPT ![r].target = t, ![r].stage = "unplace"]
  /\ UNCHANGED <<world, desired, bounds>>

\* _record_desired
Record(r) ==
  /\ In(r, "record")
  /\ desired' = [desired EXCEPT ![req[r].at] = req[r].what]
  /\ Goes(r, "done")
  /\ UNCHANGED <<world, bounds>>

\* The record of a slot outlives its label.
Drop_Nothing(r) ==
  /\ In(r, "drop")
  /\ Goes(r, "done")
  /\ UNCHANGED <<world, desired, bounds>>

Drop(r) ==
  /\ In(r, "drop")
  /\ desired' = [desired EXCEPT ![req[r].at] = None]
  /\ Goes(r, "done")
  /\ UNCHANGED <<world, bounds>>
-----------------------------------------------------------------------------
(* The stages of pull.                                                     *)

Won(q) == {p \in Places : q.won[p] # None}

\* plan_reconcile knows the ACEs with a winner only.
KnownAces_Legacy(q) == {AceOf[p] : p \in Won(q)}

KnownAces(q) == IF q.tells THEN q.cov ELSE {AceOf[p] : p \in Won(q)}

\* A winner that is missing clears the label although spools dispute it.
Vacated_Disputed(q) == {p \in Places : /\ labels[p] # None
                                       /\ AceOf[p] \in KnownAces(q)
                                       /\ p \notin Won(q)}

Vacated(q) == {p \in Places : /\ labels[p] # None
                              /\ p \notin q.disputed
                              /\ AceOf[p] \in KnownAces(q)
                              /\ p \notin Won(q)}

\* list_overrides and plan_reconcile; without prune the clears are reported only
List(r) ==
  /\ In(r, "list")
  /\ req' = [req EXCEPT ![r].stage = "write",
                        ![r].apply = Won(req[r]),
                        ![r].clear = IF req[r].prune THEN Vacated(req[r]) ELSE {}]
  /\ UNCHANGED <<world, desired, bounds>>

\* One label after the other; a write that fails is noted and passed over.
Apply(r, p) ==
  /\ In(r, "write") /\ p \in req[r].apply
  /\ \/ /\ Labelled(p, req[r].won[p])
        /\ req' = [req EXCEPT ![r].apply = @ \ {p}]
        /\ UNCHANGED trouble
     \/ /\ Troubled
        /\ Labelled(p, req[r].won[p]) \/ UNCHANGED labels
        /\ req' = [req EXCEPT ![r].apply = @ \ {p}, ![r].ok = FALSE]
  /\ UNCHANGED <<hub, location, desired, asked, pulled>>

Clear(r, p) ==
  /\ In(r, "write") /\ req[r].apply = {} /\ p \in req[r].clear
  /\ \/ /\ Labelled(p, None)
        /\ req' = [req EXCEPT ![r].clear = @ \ {p}]
        /\ UNCHANGED trouble
     \/ /\ Troubled
        /\ Labelled(p, None) \/ UNCHANGED labels
        /\ req' = [req EXCEPT ![r].clear = @ \ {p}, ![r].ok = FALSE]
  /\ UNCHANGED <<hub, location, desired, asked, pulled>>

\* The records of the slots that have no winner are dropped with the rest.
Persisted_Replaces(q) == q.won

\* The records of the winners replace those of the ACEs in scope, which is
\* that of the labels but for a coverage that is told and empty.
Scope(q) == IF q.cov = {} THEN {AceOf[p] : p \in Won(q)} ELSE q.cov

Persisted(q) ==
  [p \in Places |-> IF p \in Won(q) THEN q.won[p]
                    ELSE IF AceOf[p] \in Scope(q) THEN None ELSE desired[p]]

Persist(r) ==
  /\ In(r, "write") /\ req[r].apply = {} /\ req[r].clear = {}
  /\ desired' = Persisted(req[r])
  /\ Goes(r, "done")
  /\ UNCHANGED <<world, bounds>>
-----------------------------------------------------------------------------
\* A request fails; if it wrote, the write may have been done.
Fails(r) ==
  /\ Troubled
  /\ \/ Writes(req[r])
     \/ /\ req[r].stage \in {"locate", "label", "find", "unplace", "unlabel", "list"}
        /\ UNCHANGED <<location, labels>>
  /\ req' = [req EXCEPT ![r].stage = "done", ![r].ok = FALSE]
  /\ UNCHANGED <<hub, desired, asked, pulled>>

\* The scanner of FilamentHub finds a spool in a slot, or in none.
Scan(s, p) ==
  /\ Troubled
  /\ s \in hub
  /\ Relocated(s, p)
  /\ req' = [o \in Reqs |-> Disturbed(req[o])]
  /\ UNCHANGED <<hub, labels, desired, asked, pulled>>

\* multiACE drops the label of a slot whose spool was taken out.
Eject(p) ==
  /\ Troubled
  /\ labels[p] # None
  /\ Labelled(p, None)
  /\ req' = [o \in Reqs |-> Disturbed(req[o])]
  /\ UNCHANGED <<hub, location, desired, asked, pulled>>

Init ==
  /\ hub = Stock
  /\ location \in {l \in [Spools -> Places \cup {None}] :
                     \A s \in Spools \ Stock : l[s] = None}
  /\ labels = [p \in Places |-> None]
  /\ desired = [p \in Places |-> None]
  /\ req = [r \in Reqs |-> Idle]
  /\ asked = 0 /\ pulled = 0 /\ trouble = 0

Begin(r) ==
  \/ \E s \in Spools, p \in Places : Assign(r, s, p) \/ Mint(r, s, p)
  \/ \E f \in Profiles, p \in Places : AssignProfile(r, f, p)
  \/ \E p \in Places : Unassign(r, p)
  \/ Pull(r)

Step(r) ==
  \/ Write(r) \/ Find(r) \/ Record(r) \/ Drop(r)
  \/ List(r) \/ Persist(r) \/ Fails(r)
  \/ \E p \in Places : Apply(r, p) \/ Clear(r, p)

Next ==
  \/ \E r \in Reqs : Begin(r) \/ Step(r)
  \/ \E s \in Spools, p \in Places \cup {None} : Scan(s, p)
  \/ \E p \in Places : Eject(p)

Spec == Init /\ [][Next]_vars
-----------------------------------------------------------------------------
\* Type invariant; a request that takes a spool out or writes a spool's place
\* has one.
TypeOK ==
  /\ hub \in SUBSET Spools
  /\ location \in [Spools -> Places \cup {None}]
  /\ labels \in Labels /\ desired \in Labels
  /\ req \in [Reqs -> Request]
  /\ asked \in 0 .. MaxRequests /\ pulled \in 0 .. MaxPulls /\ trouble \in 0 .. MaxTrouble
  /\ \A r \in Reqs : In(r, "unplace") => req[r].target # None

\* "Clear only that one": a request to empty a slot takes out no spool but the
\* one that the plugin had on record for the slot when it began; only without
\* a record it takes another.
OnlyOwnIsTakenOut ==
  [][\A r \in Reqs, s \in Spools :
       In(r, "unplace") /\ req'[r] # req[r] /\ req'[r].alone = req[r].alone
         /\ location'[s] # location[s]
         => req[r].what \in {s, None}]_vars

\* A pull deletes no label of a slot that several spools claimed when it asked
\* FilamentHub, nor of an ACE FilamentHub does not track, and none at all when
\* it is only to add.
PullSpares ==
  [][\A r \in Reqs, p \in Places :
       In(r, "write") /\ req'[r] # req[r] /\ req'[r].alone = req[r].alone
         /\ labels'[p] # labels[p] /\ labels'[p] = None
         => /\ req[r].prune /\ p \notin req[r].disputed
            /\ ~req[r].tells \/ AceOf[p] \in req[r].cov]_vars

\* No request loses the record of a slot that is none of its business, however
\* many run side by side: they all write one file.
RecordsKept ==
  [][\A p \in Places : desired'[p] # desired[p] =>
       \E r \in Reqs :
         /\ req'[r] # req[r]
         /\ \/ req[r].at = p
            \/ req[r].op = "pull" /\ (\/ p \in Won(req[r])
                                      \/ AceOf[p] \in Scope(req[r]))]_vars

\* A request that nothing interferes with and that is answered with success
\* leaves the three places in agreement on its slot.
AnswerIsTrue ==
  \A r \in Reqs :
    In(r, "done") /\ req[r].ok /\ req[r].alone =>
      LET q == req[r] IN
      /\ q.op = "assign" =>
           location[q.what] = q.at /\ labels[q.at] = q.what /\ desired[q.at] = q.what
      /\ q.op = "label" => labels[q.at] = q.what /\ desired[q.at] = q.what
      /\ q.op = "unassign" =>
           /\ labels[q.at] = None /\ desired[q.at] = None
           /\ q.what \in Spools => location[q.what] # q.at

\* A full pull that nothing interferes with leaves the labels and the records
\* of the slots FilamentHub tracks as FilamentHub has them: the plan of the
\* labels and the scope of the records are two pieces of code.
Tracked(q) == IF q.tells THEN q.cov ELSE {AceOf[p] : p \in Won(q)}

PullSettles ==
  \A r \in Reqs :
    In(r, "done") /\ req[r].ok /\ req[r].alone /\ req[r].op = "pull" /\ req[r].prune =>
      \A p \in Places \ req[r].disputed :
        p \in Won(req[r]) \/ AceOf[p] \in Tracked(req[r]) =>
          labels[p] = req[r].won[p] /\ desired[p] = req[r].won[p]

=============================================================================
