--------------------------- MODULE SpoolHubProofs ---------------------------
(***************************************************************************)
(* What SpoolHub promises holds for any number of slots, ACEs, spools,     *)
(* requests, failures and changes from outside.  The strengthening says    *)
(* what each stage of a request can rely on: what its earlier stages fixed *)
(* in the request itself (Shape) and, as long as nobody interferes, what   *)
(* they left in the three places (Kept); a request that nobody         *)
(* interferes with is the only one under way (AloneMeans).                 *)
(***************************************************************************)
EXTENDS SpoolHub, TLAPS

Shape(q) ==
  /\ q.stage \in {"locate", "label", "record", "find", "unplace", "unlabel", "drop"} =>
       q.at \in Places /\ q.op # "pull"
  /\ q.stage = "locate" => q.what \in Spools
  /\ q.stage \in {"label", "record"} => q.what \in Things
  /\ q.stage \in {"locate", "label", "record"} => q.op \in {"assign", "label"}
  /\ q.stage \in {"find", "unplace", "unlabel", "drop"} => q.op = "unassign"
  /\ q.stage = "unplace" => q.target \in Spools /\ q.what \in {q.target, None}
  /\ q.stage \in {"list", "write"} => q.op = "pull"
  /\ q.op = "assign" => q.what \in Spools /\ q.at \in Places
  /\ q.op \in {"label", "unassign"} => q.at \in Places
  /\ q.cov # {} => q.tells
  /\ q.stage = "write" =>
       /\ q.apply \subseteq Won(q)
       /\ \A p \in q.clear : /\ q.prune /\ p \notin q.disputed
                             /\ AceOf[p] \in Tracked(q) /\ p \notin Won(q)

AloneMeans == \A r \in Reqs : req[r].alone => \A o \in Reqs \ {r} : Over(req[o])

\* The slots whose label a full pull has to settle.
Due(q) == {p \in Places \ q.disputed : p \in Won(q) \/ AceOf[p] \in Tracked(q)}

Kept(q, loc, lab, rec) ==
  q.alone /\ q.ok =>
    /\ q.op = "assign" =>
         /\ q.stage \in {"label", "record", "done"} => loc[q.what] = q.at
         /\ q.stage \in {"record", "done"} => lab[q.at] = q.what
         /\ q.stage = "done" => rec[q.at] = q.what
    /\ q.op = "label" =>
         /\ q.stage \in {"record", "done"} => lab[q.at] = q.what
         /\ q.stage = "done" => rec[q.at] = q.what
    /\ q.op = "unassign" =>
         /\ q.stage \in {"unlabel", "drop", "done"} =>
              (q.what \in Spools => loc[q.what] # q.at)
         /\ q.stage \in {"drop", "done"} => lab[q.at] = None
         /\ q.stage = "done" => rec[q.at] = None
    /\ q.op = "pull" /\ q.prune =>
         /\ q.stage = "write" =>
              /\ \A p \in Won(q) \ q.apply : lab[p] = q.won[p]
              /\ \A p \in Due(q) \ q.clear : p \notin Won(q) => lab[p] = None
         /\ q.stage = "done" =>
              \A p \in Due(q) : lab[p] = q.won[p] /\ rec[p] = q.won[p]

Progress(q) == Kept(q, location, labels, desired)

IInv == /\ TypeOK /\ AloneMeans
        /\ \A r \in Reqs : Shape(req[r]) /\ Progress(req[r])

USE SpoolHubAssumption
-----------------------------------------------------------------------------
(* Requests.                                                               *)

LEMMA NewTyped ==
  ASSUME NEW op \in {"none", "assign", "label", "unassign", "pull"},
         NEW p \in Places \cup {None}, NEW what \in Things \cup {None},
         NEW stage \in Stages, NEW alone \in BOOLEAN
  PROVE  New(op, p, what, stage, alone) \in Request
BY DEF New, Request, Stages

LEMMA IdleTyped == Idle \in Request
BY NewTyped DEF Idle, Stages

(* A request that somebody interferes with promises nothing any more. *)
LEMMA DisturbedSound ==
  ASSUME NEW q \in Request, Shape(q)
  PROVE  /\ Disturbed(q) \in Request /\ Shape(Disturbed(q))
         /\ Disturbed(q).alone = FALSE
         /\ Over(q) => Over(Disturbed(q))
         /\ ~Over(q) => Disturbed(q).stage = q.stage /\ Disturbed(q).target = q.target
<1>1. CASE Over(q)
  <2>1. Disturbed(q) = Idle
    BY <1>1 DEF Disturbed
  <2>2. Idle.alone = FALSE /\ Idle.stage = "done" /\ Shape(Idle)
    BY DEF Idle, New, Shape, Won
  <2> QED BY <1>1, <2>1, <2>2, IdleTyped DEF Over
<1>2. CASE ~Over(q)
  <2>1. Disturbed(q) = [q EXCEPT !.alone = FALSE]
    BY <1>2 DEF Disturbed
  <2>2. [q EXCEPT !.alone = FALSE] \in Request
    BY DEF Request
  <2>3. Shape([q EXCEPT !.alone = FALSE])
    BY DEF Shape, Request, Won, Tracked
  <2> QED BY <1>2, <2>1, <2>2, <2>3 DEF Over, Request
<1> QED BY <1>1, <1>2
-----------------------------------------------------------------------------
(* The three ways in which the requests change.                            *)

(* Where the requests stand: what the three ways below preserve. *)
Rows == req \in [Reqs -> Request] /\ AloneMeans /\ \A r \in Reqs : Shape(req[r])

LEMMA StartSound ==
  ASSUME IInv, NEW r \in Reqs, NEW new \in Request, Starts(r, new), Shape(new),
         new.alone = (\A o \in Reqs \ {r} : Over(req[o]))
  PROVE  /\ Rows' /\ req'[r] = new
         /\ \A o \in Reqs \ {r} : req'[o].alone = FALSE
         /\ asked' \in 0 .. MaxRequests
<1>1. \A o \in Reqs : req[o] \in Request /\ Shape(req[o])
  BY DEF IInv, TypeOK
<1>2. /\ req' = [o \in Reqs |-> IF o = r THEN new ELSE Disturbed(req[o])]
      /\ asked' = asked + 1 /\ asked < MaxRequests
  BY DEF Starts
<1>3. req'[r] = new /\ \A o \in Reqs \ {r} : req'[o] = Disturbed(req[o])
  BY <1>2
<1>4. \A o \in Reqs \ {r} :
        /\ req'[o] \in Request /\ Shape(req'[o]) /\ req'[o].alone = FALSE
        /\ Over(req[o]) => Over(req'[o])
  BY <1>1, <1>3, DisturbedSound
<1>5. req' \in [Reqs -> Request] /\ \A o \in Reqs : Shape(req'[o])
  BY <1>2, <1>3, <1>4
<1>6. AloneMeans'
  BY <1>3, <1>4 DEF AloneMeans, Over
<1>7. (\A o \in Reqs : Shape(req[o]))'
  BY <1>5 DEF Shape, Won, Tracked
<1>8. asked' \in 0 .. MaxRequests
  BY <1>2 DEF IInv, TypeOK
<1> QED BY <1>3, <1>4, <1>5, <1>6, <1>7, <1>8 DEF Rows

LEMMA StepSound ==
  ASSUME IInv, NEW r \in Reqs, NEW q \in Request, req' = [req EXCEPT ![r] = q],
         ~Over(req[r]), q.alone = req[r].alone, Shape(q)
  PROVE  /\ Rows' /\ req'[r] = q
         /\ \A o \in Reqs \ {r} : req'[o] = req[o] /\ req'[o].alone = FALSE
<1>1. \A o \in Reqs : req[o] \in Request /\ Shape(req[o])
  BY DEF IInv, TypeOK
<1>2. req'[r] = q /\ \A o \in Reqs \ {r} : req'[o] = req[o]
  BY DEF IInv, TypeOK
<1>3. \A o \in Reqs \ {r} : req[o].alone = FALSE
  <2> SUFFICES ASSUME NEW o \in Reqs \ {r} PROVE req[o].alone = FALSE
    OBVIOUS
  <2>1. ~req[o].alone
    BY DEF IInv, AloneMeans
  <2>2. req[o].alone \in BOOLEAN
    BY <1>1 DEF Request
  <2> QED BY <2>1, <2>2
<1>4. req' \in [Reqs -> Request] /\ \A o \in Reqs : Shape(req'[o])
  BY <1>1, <1>2 DEF IInv, TypeOK
<1>5. AloneMeans'
  BY <1>2, <1>3 DEF IInv, AloneMeans, Over
<1>6. (\A o \in Reqs : Shape(req[o]))'
  BY <1>4 DEF Shape, Won, Tracked
<1> QED BY <1>2, <1>3, <1>4, <1>5, <1>6 DEF Rows

LEMMA OutsideSound ==
  ASSUME IInv, req' = [o \in Reqs |-> Disturbed(req[o])]
  PROVE  Rows' /\ \A o \in Reqs : req'[o].alone = FALSE
<1>1. \A o \in Reqs : req[o] \in Request /\ Shape(req[o])
  BY DEF IInv, TypeOK
<1>2. \A o \in Reqs : req'[o] = Disturbed(req[o])
  OBVIOUS
<1>3. \A o \in Reqs : req'[o] \in Request /\ Shape(req'[o]) /\ req'[o].alone = FALSE
  BY <1>1, <1>2, DisturbedSound
<1>4. req' \in [Reqs -> Request] /\ AloneMeans'
  BY <1>3 DEF AloneMeans
<1>5. (\A o \in Reqs : Shape(req[o]))'
  BY <1>3 DEF Shape, Won, Tracked
<1> QED BY <1>3, <1>4, <1>5 DEF Rows

(* What is left to show of a step: the types of what it writes, and that   *)
(* the request that takes it keeps its own promise.                        *)
LEMMA Conclude ==
  ASSUME Rows', hub' \in SUBSET Spools, location' \in [Spools -> Places \cup {None}],
         labels' \in Labels, desired' \in Labels, asked' \in 0 .. MaxRequests,
         pulled' \in 0 .. MaxPulls, trouble' \in 0 .. MaxTrouble,
         \A o \in Reqs : req'[o].alone = FALSE \/ Kept(req'[o], location', labels', desired')
  PROVE  IInv'
<1>1. TypeOK'
  <2>1. \A o \in Reqs : Shape(req[o])'
    BY DEF Rows
  <2>2. \A o \in Reqs : (In(o, "unplace") => req[o].target # None)'
    BY <2>1 DEF Shape, In
  <2> QED BY <2>2 DEF TypeOK, Rows
<1>2. \A o \in Reqs : Progress(req[o])'
  BY DEF Progress, Kept
<1> QED BY <1>1, <1>2 DEF IInv, Rows
-----------------------------------------------------------------------------
(* Beginnings.                                                             *)

(* A new request has promised nothing yet. *)
LEMMA FreshSound ==
  ASSUME IInv, NEW r \in Reqs, NEW p \in Places
  PROVE  /\ \A s \in Spools : LET q == Fresh(r, "assign", p, s, "locate") IN
              q \in Request /\ Shape(q) /\ Kept(q, location', labels', desired')
         /\ \A f \in Profiles : LET q == Fresh(r, "label", p, f, "label") IN
              q \in Request /\ Shape(q) /\ Kept(q, location', labels', desired')
         /\ LET q == Fresh(r, "unassign", p, desired[p],
                           IF desired[p] \in Profiles THEN "unlabel" ELSE "find") IN
              q \in Request /\ Shape(q) /\ Kept(q, location', labels', desired')
<1> DEFINE a == \A o \in Reqs \ {r} : Over(req[o])
<1>1. a \in BOOLEAN
  OBVIOUS
<1>2. ASSUME NEW s \in Spools
      PROVE  LET q == Fresh(r, "assign", p, s, "locate") IN
               q \in Request /\ Shape(q) /\ Kept(q, location', labels', desired')
  <2>1. New("assign", p, s, "locate", a) \in Request
    BY <1>1, NewTyped DEF Things, Stages
  <2>2. Shape(New("assign", p, s, "locate", a))
    BY DEF Shape, New, Things
  <2>3. Kept(New("assign", p, s, "locate", a), location', labels', desired')
    BY DEF Kept, New
  <2> QED BY <2>1, <2>2, <2>3 DEF Fresh
<1>3. ASSUME NEW f \in Profiles
      PROVE  LET q == Fresh(r, "label", p, f, "label") IN
               q \in Request /\ Shape(q) /\ Kept(q, location', labels', desired')
  <2>1. New("label", p, f, "label", a) \in Request
    BY <1>1, NewTyped DEF Things, Stages
  <2>2. Shape(New("label", p, f, "label", a))
    BY DEF Shape, New, Things
  <2>3. Kept(New("label", p, f, "label", a), location', labels', desired')
    BY DEF Kept, New
  <2> QED BY <2>1, <2>2, <2>3 DEF Fresh
<1>4. LET q == Fresh(r, "unassign", p, desired[p],
                     IF desired[p] \in Profiles THEN "unlabel" ELSE "find") IN
        q \in Request /\ Shape(q) /\ Kept(q, location', labels', desired')
  <2> DEFINE stage == IF desired[p] \in Profiles THEN "unlabel" ELSE "find"
  <2>1. desired[p] \in Things \cup {None}
    BY DEF IInv, TypeOK, Labels
  <2>2. stage \in Stages
    BY DEF Stages
  <2>3. New("unassign", p, desired[p], stage, a) \in Request
    BY <1>1, <2>1, <2>2, NewTyped
  <2>4. Shape(New("unassign", p, desired[p], stage, a))
    BY DEF Shape, New
  <2>5. Kept(New("unassign", p, desired[p], stage, a), location', labels', desired')
    BY DEF Kept, New
  <2> QED BY <2>3, <2>4, <2>5 DEF Fresh
<1> QED BY <1>2, <1>3, <1>4

LEMMA FreshAlone ==
  ASSUME NEW r, NEW op, NEW p, NEW what, NEW stage
  PROVE  Fresh(r, op, p, what, stage).alone = (\A o \in Reqs \ {r} : Over(req[o]))
BY DEF Fresh, New

LEMMA BeginSound ==
  ASSUME IInv, NEW r \in Reqs, Begin(r)
  PROVE  IInv'
<1>0. hub \in SUBSET Spools /\ location \in [Spools -> Places \cup {None}]
      /\ labels \in Labels /\ desired \in Labels
      /\ pulled \in 0 .. MaxPulls /\ trouble \in 0 .. MaxTrouble
  BY DEF IInv, TypeOK
<1>1. ASSUME NEW s \in Spools, NEW p \in Places, Assign(r, s, p) \/ Mint(r, s, p)
      PROVE  IInv'
  <2> DEFINE q == Fresh(r, "assign", p, s, "locate")
  <2>1. q \in Request /\ Shape(q) /\ Kept(q, location', labels', desired')
    BY FreshSound
  <2>2. Starts(r, q) /\ q.alone = (\A o \in Reqs \ {r} : Over(req[o]))
    BY <1>1, FreshAlone DEF Assign, Mint
  <2>3. /\ Rows' /\ req'[r] = q /\ asked' \in 0 .. MaxRequests
        /\ \A o \in Reqs \ {r} : req'[o].alone = FALSE
    BY <2>1, <2>2, StartSound
  <2>4. Kept(req'[r], location', labels', desired')
    BY <2>1, <2>3
  <2>5. hub' \in SUBSET Spools /\ UNCHANGED <<location, labels, desired, pulled, trouble>>
    BY <1>0, <1>1 DEF Assign, Mint, world
  <2> QED BY <1>0, <2>3, <2>4, <2>5, Conclude
<1>2. ASSUME NEW f \in Profiles, NEW p \in Places, AssignProfile(r, f, p)
      PROVE  IInv'
  <2> DEFINE q == Fresh(r, "label", p, f, "label")
  <2>1. q \in Request /\ Shape(q) /\ Kept(q, location', labels', desired')
    BY FreshSound
  <2>2. Starts(r, q) /\ q.alone = (\A o \in Reqs \ {r} : Over(req[o]))
    BY <1>2, FreshAlone DEF AssignProfile
  <2>3. /\ Rows' /\ req'[r] = q /\ asked' \in 0 .. MaxRequests
        /\ \A o \in Reqs \ {r} : req'[o].alone = FALSE
    BY <2>1, <2>2, StartSound
  <2>4. Kept(req'[r], location', labels', desired')
    BY <2>1, <2>3
  <2>5. UNCHANGED <<hub, location, labels, desired, pulled, trouble>>
    BY <1>2 DEF AssignProfile, world
  <2> QED BY <1>0, <2>3, <2>4, <2>5, Conclude
<1>3. ASSUME NEW p \in Places, Unassign(r, p)
      PROVE  IInv'
  <2> DEFINE q == Fresh(r, "unassign", p, desired[p],
                        IF desired[p] \in Profiles THEN "unlabel" ELSE "find")
  <2>1. q \in Request /\ Shape(q) /\ Kept(q, location', labels', desired')
    BY FreshSound
  <2>2. Starts(r, q) /\ q.alone = (\A o \in Reqs \ {r} : Over(req[o]))
    BY <1>3, FreshAlone DEF Unassign
  <2>3. /\ Rows' /\ req'[r] = q /\ asked' \in 0 .. MaxRequests
        /\ \A o \in Reqs \ {r} : req'[o].alone = FALSE
    BY <2>1, <2>2, StartSound
  <2>4. Kept(req'[r], location', labels', desired')
    BY <2>1, <2>3
  <2>5. UNCHANGED <<hub, location, labels, desired, pulled, trouble>>
    BY <1>3 DEF Unassign, world
  <2> QED BY <1>0, <2>3, <2>4, <2>5, Conclude
<1>4. ASSUME Pull(r)
      PROVE  IInv'
  <2>1. PICK w \in Winners, c \in SUBSET Aces, t \in BOOLEAN, b \in BOOLEAN :
          /\ c # {} => t
          /\ Starts(r, [Fresh(r, "pull", None, None, "list") EXCEPT
               !.won = w, !.tells = t, !.cov = c, !.prune = b,
               !.disputed = {p \in Places : Cardinality(Claims(p)) > 1}])
          /\ IF Missing(w) = {} THEN UNCHANGED trouble ELSE Troubled
    BY <1>4 DEF Pull
  <2> DEFINE a == \A o \in Reqs \ {r} : Over(req[o])
             d == {p \in Places : Cardinality(Claims(p)) > 1}
             q == [New("pull", None, None, "list", a) EXCEPT
                    !.won = w, !.tells = t, !.cov = c, !.prune = b, !.disputed = d]
  <2>2. w \in [Places -> Spools \cup {None}] /\ d \in SUBSET Places
    BY DEF Winners
  <2>3. New("pull", None, None, "list", a) \in Request
    BY NewTyped DEF Stages
  <2>4. q \in Request
    <3> HIDE DEF a, d
    <3> QED BY <2>2, <2>3 DEF Request
  <2>5. /\ q.alone = a /\ q.stage = "list" /\ q.op = "pull" /\ q.cov = c /\ q.tells = t
    BY DEF New
  <2>6. Shape(q)
    BY <2>1, <2>5 DEF Shape
  <2>7. Kept(q, location', labels', desired')
    BY <2>5 DEF Kept
  <2>8. Starts(r, q)
    BY <2>1 DEF Fresh
  <2>9. /\ Rows' /\ req'[r] = q /\ asked' \in 0 .. MaxRequests
        /\ \A o \in Reqs \ {r} : req'[o].alone = FALSE
    <3> HIDE DEF q
    <3> QED BY <2>4, <2>5, <2>6, <2>8, StartSound
  <2>10. Kept(req'[r], location', labels', desired')
    <3> HIDE DEF q
    <3> QED BY <2>7, <2>9
  <2>11. /\ UNCHANGED <<hub, location, labels, desired>>
         /\ trouble' \in 0 .. MaxTrouble /\ pulled' \in 0 .. MaxPulls
    BY <1>0, <1>4, <2>1 DEF Pull, Troubled, world
  <2> QED
    <3> HIDE DEF q
    <3> QED BY <1>0, <2>9, <2>10, <2>11, Conclude
<1> QED BY <1>1, <1>2, <1>3, <1>4 DEF Begin
-----------------------------------------------------------------------------
(* The stages of assign and unassign.                                      *)

LEMMA GoesSound ==
  ASSUME IInv, NEW r \in Reqs, NEW stage \in Stages, Goes(r, stage), ~Over(req[r]),
         Shape([req[r] EXCEPT !.stage = stage])
  PROVE  /\ Rows' /\ req'[r] = [req[r] EXCEPT !.stage = stage]
         /\ \A o \in Reqs \ {r} : req'[o].alone = FALSE
<1> DEFINE q == [req[r] EXCEPT !.stage = stage]
<1>1. req[r] \in Request
  BY DEF IInv, TypeOK
<1>2. q \in Request /\ q.alone = req[r].alone
  BY <1>1 DEF Request
<1>3. req' = [req EXCEPT ![r] = q]
  BY DEF Goes
<1> QED
  <2> HIDE DEF q
  <2>1. Shape(q)
    BY DEF q
  <2>2. /\ Rows' /\ req'[r] = q
        /\ \A o \in Reqs \ {r} : req'[o] = req[o] /\ req'[o].alone = FALSE
    BY <1>2, <1>3, <2>1, StepSound
  <2> QED BY <2>2 DEF q

LEMMA World ==
  ASSUME IInv
  PROVE  /\ hub \in SUBSET Spools /\ location \in [Spools -> Places \cup {None}]
         /\ labels \in Labels /\ desired \in Labels
         /\ asked \in 0 .. MaxRequests /\ pulled \in 0 .. MaxPulls
         /\ trouble \in 0 .. MaxTrouble
         /\ \A r \in Reqs : /\ req[r] \in Request /\ Shape(req[r])
                            /\ Kept(req[r], location, labels, desired)
BY DEF IInv, TypeOK, Progress

(* The writes have a type, whatever becomes of the answer. *)
LEMMA WritesTyped ==
  ASSUME IInv, NEW r \in Reqs, Writes(req[r])
  PROVE  /\ location' \in [Spools -> Places \cup {None}] /\ labels' \in Labels
         /\ req[r].stage \in {"locate", "label", "unplace", "unlabel"}
<1> DEFINE q == req[r]
<1>1. q.stage \in {"locate", "label", "unplace", "unlabel"}
  BY DEF Writes
<1>2. q.at \in Places
  BY <1>1, World DEF Shape
<1>3. CASE q.stage = "locate"
  BY <1>1, <1>2, <1>3, World DEF Writes, Relocated, Shape
<1>4. CASE q.stage = "label"
  BY <1>1, <1>2, <1>4, World DEF Writes, Labelled, Shape, Labels
<1>5. CASE q.stage = "unplace"
  BY <1>1, <1>2, <1>5, World DEF Writes, Relocated
<1>6. CASE q.stage = "unlabel"
  BY <1>1, <1>2, <1>6, World DEF Writes, Labelled, Labels
<1> QED BY <1>1, <1>3, <1>4, <1>5, <1>6

LEMMA WriteSound ==
  ASSUME IInv, NEW r \in Reqs, Write(r)
  PROVE  IInv'
<1> DEFINE q == req[r]
           n == [q EXCEPT !.stage = After[q.stage]]
<1>1. /\ Writes(q) /\ Goes(r, After[q.stage])
      /\ UNCHANGED <<hub, desired, asked, pulled, trouble>>
  BY DEF Write, bounds
<1>2. /\ location' \in [Spools -> Places \cup {None}] /\ labels' \in Labels
      /\ q.stage \in {"locate", "label", "unplace", "unlabel"}
  BY <1>1, WritesTyped
<1>3. q \in Request /\ Shape(q) /\ Kept(q, location, labels, desired)
  BY World
<1>4. After[q.stage] \in Stages /\ After[q.stage] \in {"label", "record", "unlabel", "drop"}
  BY <1>2 DEF After, Stages
<1>5. /\ n.stage = After[q.stage] /\ n.op = q.op /\ n.at = q.at /\ n.what = q.what
      /\ n.target = q.target /\ n.alone = q.alone /\ n.ok = q.ok /\ n.cov = q.cov
      /\ n.tells = q.tells
  BY <1>3 DEF Request
<1>6. Shape(n)
  BY <1>2, <1>3, <1>4, <1>5 DEF Shape, After, Things
<1>7. /\ Rows' /\ req'[r] = n /\ \A o \in Reqs \ {r} : req'[o].alone = FALSE
  BY <1>1, <1>2, <1>4, <1>6, GoesSound DEF Over
<1>8. Kept(n, location', labels', desired')
  <2> HIDE DEF n
  <2>0. q.op # "pull"
    BY <1>2, <1>3 DEF Shape
  <2>1. CASE q.stage = "locate"
    <3>1. q.what \in Spools /\ q.at \in Places /\ location'[q.what] = q.at
      BY <1>1, <1>2, <1>3, <2>1, World DEF Writes, Relocated, Shape
    <3> QED BY <1>3, <1>5, <2>0, <2>1, <3>1 DEF Kept, After, Shape
  <2>2. CASE q.stage = "label"
    <3>1. q.at \in Places /\ labels'[q.at] = q.what /\ location' = location
      BY <1>1, <1>2, <1>3, <2>2, World DEF Writes, Labelled, Shape, Labels
    <3> QED BY <1>3, <1>5, <2>0, <2>2, <3>1 DEF Kept, After, Shape
  <2>3. CASE q.stage = "unplace"
    <3>1. /\ q.target \in Spools /\ q.what \in {q.target, None}
          /\ q.at \in Places /\ location'[q.target] = None
      BY <1>1, <1>2, <1>3, <2>3, World DEF Writes, Relocated, Shape
    <3>2. q.what \in Spools => location'[q.what] # q.at
      BY <3>1
    <3> QED BY <1>3, <1>5, <2>0, <2>3, <3>2 DEF Kept, After, Shape
  <2>4. CASE q.stage = "unlabel"
    <3>1. q.at \in Places /\ labels'[q.at] = None /\ location' = location
      BY <1>1, <1>2, <1>3, <2>4, World DEF Writes, Labelled, Shape, Labels
    <3> QED BY <1>3, <1>5, <2>0, <2>4, <3>1 DEF Kept, After, Shape
  <2> QED BY <1>2, <2>1, <2>2, <2>3, <2>4
<1>9. Kept(req'[r], location', labels', desired')
  BY <1>7, <1>8
<1> QED
  <2> HIDE DEF n
  <2> QED BY <1>1, <1>2, <1>7, <1>9, World, Conclude

LEMMA FindSound ==
  ASSUME IInv, NEW r \in Reqs, Find(r)
  PROVE  IInv'
<1> DEFINE q == req[r]
<1>1. q.stage = "find" /\ UNCHANGED <<hub, location, labels, desired, asked, pulled, trouble>>
  BY DEF Find, In, world, bounds
<1>2. q \in Request /\ Shape(q) /\ Kept(q, location, labels, desired)
  BY World
<1>3. CASE Matches(q) = {}
  <2> DEFINE n == [q EXCEPT !.stage = "unlabel"]
  <2>1. Goes(r, "unlabel")
    BY <1>3 DEF Find
  <2>2. /\ n.stage = "unlabel" /\ n.op = q.op /\ n.at = q.at /\ n.what = q.what
        /\ n.alone = q.alone /\ n.ok = q.ok /\ n.cov = q.cov /\ n.tells = q.tells
    BY <1>2 DEF Request
  <2>3. Shape(n)
    BY <1>1, <1>2, <2>2 DEF Shape
  <2>4. /\ Rows' /\ req'[r] = n /\ \A o \in Reqs \ {r} : req'[o].alone = FALSE
    BY <1>1, <2>1, <2>3, GoesSound DEF Over, Stages
  <2>5. q.what \in Spools => location[q.what] # q.at
    BY <1>3 DEF Matches, Claims
  <2>6. Kept(n, location', labels', desired')
    BY <1>1, <1>2, <2>2, <2>5 DEF Kept, Shape
  <2> HIDE DEF n
  <2> QED BY <1>1, <2>4, <2>6, World, Conclude
<1>4. CASE Matches(q) # {}
  <2>1. PICK t \in Matches(q) :
          req' = [req EXCEPT ![r].target = t, ![r].stage = "unplace"]
    BY <1>4 DEF Find
  <2> DEFINE n == [q EXCEPT !.target = t, !.stage = "unplace"]
  <2>2. req' = [req EXCEPT ![r] = n]
    BY <2>1
  <2>3. t \in Spools /\ q.what \in {t, None}
    BY DEF Matches, Claims
  <2>4. n \in Request
    BY <1>2, <2>3 DEF Request, Stages
  <2>5. /\ n.stage = "unplace" /\ n.op = q.op /\ n.at = q.at /\ n.what = q.what
        /\ n.alone = q.alone /\ n.ok = q.ok /\ n.cov = q.cov /\ n.target = t
        /\ n.tells = q.tells
    BY <1>2 DEF Request
  <2>6. Shape(n)
    BY <1>1, <1>2, <2>3, <2>5 DEF Shape
  <2>7. Kept(n, location', labels', desired')
    BY <1>1, <1>2, <2>5 DEF Kept, Shape
  <2> HIDE DEF n
  <2>8. /\ Rows' /\ req'[r] = n /\ \A o \in Reqs \ {r} : req'[o].alone = FALSE
    BY <1>1, <2>2, <2>4, <2>5, <2>6, StepSound DEF Over
  <2> QED BY <1>1, <2>7, <2>8, World, Conclude
<1> QED BY <1>3, <1>4

LEMMA RecordSound ==
  ASSUME IInv, NEW r \in Reqs, Record(r) \/ Drop(r)
  PROVE  IInv'
<1> DEFINE q == req[r]
           n == [q EXCEPT !.stage = "done"]
<1>1. /\ q.stage \in {"record", "drop"} /\ Goes(r, "done")
      /\ UNCHANGED <<hub, location, labels, asked, pulled, trouble>>
      /\ desired' = [desired EXCEPT ![q.at] = IF q.stage = "record" THEN q.what ELSE None]
  BY DEF Record, Drop, In, world, bounds
<1>2. q \in Request /\ Shape(q) /\ Kept(q, location, labels, desired)
  BY World
<1>3. q.at \in Places /\ (q.stage = "record" => q.what \in Things)
  BY <1>1, <1>2 DEF Shape
<1>4. /\ desired' \in Labels
      /\ desired'[q.at] = IF q.stage = "record" THEN q.what ELSE None
  BY <1>1, <1>3, World DEF Labels
<1>5. /\ n.stage = "done" /\ n.op = q.op /\ n.at = q.at /\ n.what = q.what
      /\ n.alone = q.alone /\ n.ok = q.ok /\ n.cov = q.cov /\ n.tells = q.tells
  BY <1>2 DEF Request
<1>6. Shape(n)
  BY <1>1, <1>2, <1>5 DEF Shape
<1>7. /\ Rows' /\ req'[r] = n /\ \A o \in Reqs \ {r} : req'[o].alone = FALSE
  BY <1>1, <1>6, GoesSound DEF Over, Stages
<1>8. Kept(n, location', labels', desired')
  <2> HIDE DEF n
  <2>1. CASE q.stage = "record"
    BY <1>1, <1>2, <1>4, <1>5, <2>1 DEF Kept, Shape
  <2>2. CASE q.stage = "drop"
    BY <1>1, <1>2, <1>4, <1>5, <2>2 DEF Kept, Shape
  <2> QED BY <1>1, <2>1, <2>2
<1> HIDE DEF n
<1> QED BY <1>1, <1>4, <1>7, <1>8, World, Conclude
-----------------------------------------------------------------------------
(* The stages of pull.                                                     *)

LEMMA ListSound ==
  ASSUME IInv, NEW r \in Reqs, List(r)
  PROVE  IInv'
<1> DEFINE q == req[r]
           c == IF q.prune THEN Vacated(q) ELSE {}
           n == [q EXCEPT !.stage = "write", !.apply = Won(q), !.clear = c]
<1>1. q.stage = "list" /\ UNCHANGED <<hub, location, labels, desired, asked, pulled, trouble>>
  BY DEF List, In, world, bounds
<1>2. q \in Request /\ Shape(q) /\ Kept(q, location, labels, desired)
  BY World
<1>3. /\ c \in SUBSET Places /\ Won(q) \in SUBSET Places
      /\ \A p \in c : /\ q.prune /\ p \notin q.disputed
                       /\ AceOf[p] \in Tracked(q) /\ p \notin Won(q)
  BY DEF Vacated, Won, KnownAces, Tracked
<1>4. n \in Request
  <2> HIDE DEF c
  <2> QED BY <1>2, <1>3 DEF Request, Stages
<1>5. req' = [req EXCEPT ![r] = n]
  BY DEF List
<1>6. /\ n.stage = "write" /\ n.op = q.op /\ n.apply = Won(q) /\ n.clear = c
      /\ n.alone = q.alone /\ n.ok = q.ok /\ n.cov = q.cov /\ n.tells = q.tells
      /\ n.won = q.won /\ n.disputed = q.disputed /\ n.prune = q.prune
  <2> HIDE DEF c
  <2> QED BY <1>2 DEF Request
<1>7. Won(n) = Won(q) /\ Tracked(n) = Tracked(q) /\ Due(n) = Due(q)
  <2> HIDE DEF n
  <2> QED BY <1>6 DEF Won, Tracked, Due
<1>8. Shape(n)
  <2> HIDE DEF n, c
  <2> QED BY <1>1, <1>2, <1>3, <1>6, <1>7 DEF Shape
<1>9. /\ Rows' /\ req'[r] = n /\ \A o \in Reqs \ {r} : req'[o].alone = FALSE
  <2> HIDE DEF n
  <2> QED BY <1>1, <1>4, <1>5, <1>6, <1>8, StepSound DEF Over
<1>10. q.op = "pull"
  BY <1>1, <1>2 DEF Shape
<1>11. q.prune => \A p \in Due(q) \ c : p \notin Won(q) => labels[p] = None
  BY DEF Due, Vacated, KnownAces, Tracked, Won
<1>12. Kept(n, location', labels', desired')
  <2> HIDE DEF n, c
  <2> QED BY <1>1, <1>6, <1>7, <1>10, <1>11 DEF Kept
<1> HIDE DEF n
<1> QED BY <1>1, <1>9, <1>12, World, Conclude

(* Two fields of a request change at once.                                 *)
LEMMA TwoFields ==
  ASSUME IInv, NEW r \in Reqs
  PROVE  /\ \A x : [req EXCEPT ![r].apply = x, ![r].ok = FALSE]
                  = [req EXCEPT ![r] = [req[r] EXCEPT !.apply = x, !.ok = FALSE]]
         /\ \A x : [req EXCEPT ![r].clear = x, ![r].ok = FALSE]
                  = [req EXCEPT ![r] = [req[r] EXCEPT !.clear = x, !.ok = FALSE]]
         /\ [req EXCEPT ![r].stage = "done", ![r].ok = FALSE]
              = [req EXCEPT ![r] = [req[r] EXCEPT !.stage = "done", !.ok = FALSE]]
BY DEF IInv, TypeOK

(* A label that is written or deleted, with or without an answer.          *)
LEMMA LabelSound ==
  ASSUME IInv, NEW r \in Reqs, NEW p \in Places, Apply(r, p) \/ Clear(r, p)
  PROVE  IInv'
<1> DEFINE q == req[r]
<1>1. /\ q.stage = "write" /\ UNCHANGED <<hub, location, desired, asked, pulled>>
      /\ trouble' \in 0 .. MaxTrouble
  BY World DEF Apply, Clear, In, Troubled
<1>2. q \in Request /\ Shape(q) /\ Kept(q, location, labels, desired)
  BY World
<1>3. PICK a \in SUBSET Places, c \in SUBSET Places, k \in BOOLEAN :
        /\ req' = [req EXCEPT ![r] = [q EXCEPT !.apply = a, !.clear = c, !.ok = k]]
        /\ k => q.ok
        /\ \/ /\ Apply(r, p) /\ p \in q.apply /\ a = q.apply \ {p} /\ c = q.clear
              /\ labels' = [labels EXCEPT ![p] = q.won[p]] \/ (~k /\ labels' = labels)
           \/ /\ Clear(r, p) /\ p \in q.clear /\ a = q.apply /\ c = q.clear \ {p}
              /\ labels' = [labels EXCEPT ![p] = None] \/ (~k /\ labels' = labels)
  <2>0. q.apply \in SUBSET Places /\ q.clear \in SUBSET Places /\ q.ok \in BOOLEAN
    BY <1>2 DEF Request
  <2>1. CASE Apply(r, p)
    <3>1. CASE req' = [req EXCEPT ![r].apply = @ \ {p}] /\ Labelled(p, q.won[p])
      <4>1. [q EXCEPT !.apply = q.apply \ {p}]
            = [q EXCEPT !.apply = q.apply \ {p}, !.clear = q.clear, !.ok = q.ok]
        BY <1>2 DEF Request
      <4> QED BY <2>0, <2>1, <3>1, <4>1 DEF Apply, Labelled
    <3>2. CASE /\ req' = [req EXCEPT ![r].apply = @ \ {p}, ![r].ok = FALSE]
               /\ Labelled(p, q.won[p]) \/ UNCHANGED labels
      <4>1. [q EXCEPT !.apply = q.apply \ {p}, !.ok = FALSE]
            = [q EXCEPT !.apply = q.apply \ {p}, !.clear = q.clear, !.ok = FALSE]
        BY <1>2 DEF Request
      <4>2. req' = [req EXCEPT ![r] = [q EXCEPT !.apply = q.apply \ {p}, !.clear = q.clear, !.ok = FALSE]]
        BY <3>2, <4>1, TwoFields
      <4> QED BY <2>0, <2>1, <3>2, <4>2 DEF Apply, Labelled
    <3> QED BY <2>1, <3>1, <3>2 DEF Apply
  <2>2. CASE Clear(r, p)
    <3>1. CASE req' = [req EXCEPT ![r].clear = @ \ {p}] /\ Labelled(p, None)
      <4>1. [q EXCEPT !.clear = q.clear \ {p}]
            = [q EXCEPT !.apply = q.apply, !.clear = q.clear \ {p}, !.ok = q.ok]
        BY <1>2 DEF Request
      <4> QED BY <2>0, <2>2, <3>1, <4>1 DEF Clear, Labelled
    <3>2. CASE /\ req' = [req EXCEPT ![r].clear = @ \ {p}, ![r].ok = FALSE]
               /\ Labelled(p, None) \/ UNCHANGED labels
      <4>1. [q EXCEPT !.clear = q.clear \ {p}, !.ok = FALSE]
            = [q EXCEPT !.apply = q.apply, !.clear = q.clear \ {p}, !.ok = FALSE]
        BY <1>2 DEF Request
      <4>2. req' = [req EXCEPT ![r] = [q EXCEPT !.apply = q.apply, !.clear = q.clear \ {p}, !.ok = FALSE]]
        BY <3>2, <4>1, TwoFields
      <4> QED BY <2>0, <2>2, <3>2, <4>2 DEF Clear, Labelled
    <3> QED BY <2>2, <3>1, <3>2 DEF Clear
  <2> QED BY <2>1, <2>2
<1> DEFINE n == [q EXCEPT !.apply = a, !.clear = c, !.ok = k]
<1>4. n \in Request
  BY <1>2, <1>3 DEF Request
<1>5. /\ n.stage = "write" /\ n.op = q.op /\ n.apply = a /\ n.clear = c
      /\ n.alone = q.alone /\ n.ok = k /\ n.cov = q.cov /\ n.tells = q.tells
      /\ n.won = q.won /\ n.disputed = q.disputed /\ n.prune = q.prune
  BY <1>1, <1>2 DEF Request
<1>6. Won(n) = Won(q) /\ Tracked(n) = Tracked(q) /\ Due(n) = Due(q)
  <2> HIDE DEF n
  <2> QED BY <1>5 DEF Won, Tracked, Due
<1>7. a \subseteq q.apply /\ c \subseteq q.clear
  BY <1>3
<1>8. Shape(n)
  <2> HIDE DEF n
  <2> QED BY <1>1, <1>2, <1>5, <1>6, <1>7 DEF Shape
<1>9. /\ Rows' /\ req'[r] = n /\ \A o \in Reqs \ {r} : req'[o].alone = FALSE
  <2>1. req' = [req EXCEPT ![r] = n]
    BY <1>3
  <2> HIDE DEF n
  <2> QED BY <1>1, <1>4, <1>5, <1>8, <2>1, StepSound DEF Over
<1>10. /\ q.op = "pull" /\ q.apply \subseteq Won(q)
       /\ \A o \in q.clear : o \notin Won(q)
  BY <1>1, <1>2 DEF Shape
<1>11. labels' \in Labels
  <2>1. q.won \in [Places -> Spools \cup {None}]
    BY <1>2 DEF Request
  <2> QED BY <1>3, <2>1, World DEF Labels, Things
<1>12. Kept(n, location', labels', desired')
  <2> HIDE DEF n
  <2>1. k /\ n.prune /\ n.alone =>
          /\ \A o \in Won(n) \ a : labels'[o] = n.won[o]
          /\ \A o \in Due(n) \ c : o \notin Won(n) => labels'[o] = None
    <3>1. k /\ n.prune /\ n.alone =>
            /\ \A o \in Won(q) \ q.apply : labels[o] = q.won[o]
            /\ \A o \in Due(q) \ q.clear : o \notin Won(q) => labels[o] = None
      BY <1>1, <1>2, <1>3, <1>5, <1>10 DEF Kept
    <3>2. Won(q) \subseteq Places /\ Due(q) \subseteq Places /\ labels \in [Places -> Things \cup {None}]
      BY World DEF Won, Due, Labels
    <3>3. CASE Apply(r, p) /\ p \in q.apply /\ a = q.apply \ {p} /\ c = q.clear
               /\ (labels' = [labels EXCEPT ![p] = q.won[p]] \/ (~k /\ labels' = labels))
      BY <1>5, <1>6, <1>10, <3>1, <3>2, <3>3
    <3>4. CASE Clear(r, p) /\ p \in q.clear /\ a = q.apply /\ c = q.clear \ {p}
               /\ (labels' = [labels EXCEPT ![p] = None] \/ (~k /\ labels' = labels))
      BY <1>5, <1>6, <1>10, <3>1, <3>2, <3>4
    <3> QED BY <1>3, <3>3, <3>4
  <2> QED BY <1>5, <1>10, <2>1 DEF Kept
<1> HIDE DEF n
<1> QED BY <1>1, <1>9, <1>11, <1>12, World, Conclude

LEMMA PersistSound ==
  ASSUME IInv, NEW r \in Reqs, Persist(r)
  PROVE  IInv'
<1> DEFINE q == req[r]
           n == [q EXCEPT !.stage = "done"]
<1>1. /\ q.stage = "write" /\ q.apply = {} /\ q.clear = {} /\ Goes(r, "done")
      /\ desired' = Persisted(q)
      /\ UNCHANGED <<hub, location, labels, asked, pulled, trouble>>
  BY DEF Persist, In, world, bounds
<1>2. q \in Request /\ Shape(q) /\ Kept(q, location, labels, desired)
  BY World
<1>3. q.op = "pull" /\ (q.cov # {} => q.tells)
  BY <1>1, <1>2 DEF Shape
<1>4. desired' \in Labels
  <2>1. q.won \in [Places -> Spools \cup {None}]
    BY <1>2 DEF Request
  <2> QED BY <1>1, <2>1, World DEF Persisted, Labels, Things
<1>5. /\ n.stage = "done" /\ n.op = q.op /\ n.won = q.won /\ n.prune = q.prune
      /\ n.disputed = q.disputed /\ n.alone = q.alone /\ n.ok = q.ok /\ n.cov = q.cov
      /\ n.tells = q.tells
  BY <1>2 DEF Request
<1>6. Won(n) = Won(q) /\ Due(n) = Due(q)
  <2> HIDE DEF n
  <2> QED BY <1>5 DEF Won, Tracked, Due
<1>7. Shape(n)
  <2> HIDE DEF n
  <2> QED BY <1>2, <1>3, <1>5 DEF Shape
<1>8. /\ Rows' /\ req'[r] = n /\ \A o \in Reqs \ {r} : req'[o].alone = FALSE
  BY <1>1, <1>7, GoesSound DEF Over, Stages
<1>9. \A p \in Due(q) : desired'[p] = q.won[p]
  <2> SUFFICES ASSUME NEW p \in Due(q) PROVE Persisted(q)[p] = q.won[p]
    BY <1>1
  <2>1. p \in Places /\ (p \in Won(q) \/ AceOf[p] \in Tracked(q))
    BY DEF Due
  <2>2. CASE p \in Won(q)
    BY <2>1, <2>2 DEF Persisted
  <2>3. CASE p \notin Won(q)
    <3>1. q.won[p] = None
      BY <2>1, <2>3 DEF Won
    <3>2. AceOf[p] \in Scope(q)
      BY <1>3, <2>1, <2>3 DEF Tracked, Scope
    <3> QED BY <2>1, <2>3, <3>1, <3>2 DEF Persisted
  <2> QED BY <2>2, <2>3
<1>10. q.alone /\ q.ok /\ q.prune => \A p \in Due(q) : labels[p] = q.won[p]
  <2>0. SUFFICES ASSUME q.alone /\ q.ok /\ q.prune, NEW p \in Due(q)
               PROVE  labels[p] = q.won[p]
    OBVIOUS
  <2>1. /\ p \in Won(q) => labels[p] = q.won[p]
        /\ p \notin Won(q) => labels[p] = None
    BY <1>1, <1>2, <1>3, <2>0 DEF Kept
  <2>2. p \notin Won(q) => q.won[p] = None
    BY DEF Won, Due
  <2> QED BY <2>1, <2>2
<1>11. Kept(n, location', labels', desired')
  <2> HIDE DEF n
  <2> QED BY <1>1, <1>3, <1>5, <1>6, <1>9, <1>10 DEF Kept
<1> HIDE DEF n
<1> QED BY <1>1, <1>4, <1>8, <1>11, World, Conclude
-----------------------------------------------------------------------------
(* Failures, and what others do.                                           *)

LEMMA FailsSound ==
  ASSUME IInv, NEW r \in Reqs, Fails(r)
  PROVE  IInv'
<1> DEFINE q == req[r]
           n == [q EXCEPT !.stage = "done", !.ok = FALSE]
<1>1. /\ req' = [req EXCEPT ![r] = n] /\ trouble' \in 0 .. MaxTrouble
      /\ UNCHANGED <<hub, desired, asked, pulled>>
  <2>1. req' = [req EXCEPT ![r] = n]
    BY TwoFields DEF Fails
  <2>2. trouble' \in 0 .. MaxTrouble
    BY World, SpoolHubAssumption DEF Fails, Troubled
  <2>3. UNCHANGED <<hub, desired, asked, pulled>>
    BY DEF Fails
  <2> HIDE DEF n
  <2> QED BY <2>1, <2>2, <2>3
<1>2. q \in Request /\ Shape(q)
  BY World
<1>3. /\ location' \in [Spools -> Places \cup {None}] /\ labels' \in Labels
      /\ q.stage \in {"locate", "label", "find", "unplace", "unlabel", "list"}
  <2>1. CASE Writes(q)
    BY <2>1, WritesTyped
  <2>2. CASE /\ q.stage \in {"locate", "label", "find", "unplace", "unlabel", "list"}
             /\ UNCHANGED <<location, labels>>
    BY <2>2, World
  <2> QED BY <2>1, <2>2 DEF Fails
<1>4. n \in Request
  BY <1>2 DEF Request, Stages
<1>5. /\ n.stage = "done" /\ n.op = q.op /\ n.at = q.at /\ n.what = q.what
      /\ n.alone = q.alone /\ n.ok = FALSE /\ n.cov = q.cov /\ n.tells = q.tells
  BY <1>2 DEF Request
<1>6. Shape(n)
  <2> HIDE DEF n
  <2> QED BY <1>2, <1>3, <1>5 DEF Shape
<1>7. Kept(n, location', labels', desired')
  BY <1>5 DEF Kept
<1> HIDE DEF n
<1>8. /\ Rows' /\ req'[r] = n /\ \A o \in Reqs \ {r} : req'[o].alone = FALSE
  BY <1>1, <1>3, <1>4, <1>5, <1>6, StepSound DEF Over
<1> QED BY <1>1, <1>3, <1>7, <1>8, World, Conclude

LEMMA OthersSound ==
  ASSUME IInv, \/ \E s \in Spools, p \in Places \cup {None} : Scan(s, p)
               \/ \E p \in Places : Eject(p)
  PROVE  IInv'
<1>1. /\ req' = [o \in Reqs |-> Disturbed(req[o])] /\ trouble' \in 0 .. MaxTrouble
      /\ UNCHANGED <<hub, desired, asked, pulled>>
  BY World DEF Scan, Eject, Troubled
<1>2. Rows' /\ \A o \in Reqs : req'[o].alone = FALSE
  BY <1>1, OutsideSound
<1>3. location' \in [Spools -> Places \cup {None}] /\ labels' \in Labels
  BY World DEF Scan, Eject, Relocated, Labelled, Labels
<1> QED BY <1>1, <1>2, <1>3, World, Conclude
-----------------------------------------------------------------------------
LEMMA InitSound == Init => IInv
<1> SUFFICES ASSUME Init PROVE IInv
  OBVIOUS
<1>1. \A r \in Reqs : req[r] = Idle
  BY DEF Init
<1>2. Idle.stage = "done" /\ Idle.alone = FALSE /\ Idle.op = "none" /\ Idle.cov = {}
  BY DEF Idle, New
<1>3. TypeOK
  BY <1>1, <1>2, IdleTyped DEF Init, TypeOK, Labels, In
<1>4. AloneMeans
  BY <1>1, <1>2 DEF AloneMeans
<1>5. \A r \in Reqs : Shape(req[r]) /\ Progress(req[r])
  BY <1>1, <1>2 DEF Shape, Progress, Kept
<1> QED BY <1>3, <1>4, <1>5 DEF IInv

LEMMA NextSound == IInv /\ [Next]_vars => IInv'
<1> SUFFICES ASSUME IInv, [Next]_vars PROVE IInv'
  OBVIOUS
<1>1. ASSUME NEW r \in Reqs, Begin(r) PROVE IInv'
  BY <1>1, BeginSound
<1>2. ASSUME NEW r \in Reqs, Step(r) PROVE IInv'
  BY <1>2, WriteSound, FindSound, RecordSound, ListSound, LabelSound,
     PersistSound, FailsSound DEF Step
<1>3. CASE \/ \E s \in Spools, p \in Places \cup {None} : Scan(s, p)
           \/ \E p \in Places : Eject(p)
  BY <1>3, OthersSound
<1>4. CASE UNCHANGED vars
  BY <1>4 DEF vars, world, bounds, IInv, TypeOK, AloneMeans, In, Over, Shape, Won,
              Tracked, Progress, Kept, Due
<1> QED BY <1>1, <1>2, <1>3, <1>4 DEF Next

(* The strengthening is inductive, for any number of slots, spools,        *)
(* requests and failures.                                                  *)
THEOREM Inductive == Spec => []IInv
BY InitSound, NextSound, PTL DEF Spec

(* Every variable keeps its type, and no request goes on to clear the      *)
(* location of a spool it has not found.                                   *)
THEOREM TypeCorrect == Spec => []TypeOK
<1>1. IInv => TypeOK
  BY DEF IInv
<1> QED BY <1>1, Inductive, PTL

(* An answer of success that nothing interfered with is true of FilamentHub,*)
(* of the label and of the record.                                         *)
THEOREM AnswerCorrect == Spec => []AnswerIsTrue
<1>1. IInv => AnswerIsTrue
  BY DEF IInv, Progress, Kept, AnswerIsTrue, In
<1> QED BY <1>1, Inductive, PTL

(* A full pull that nothing interferes with settles labels and records.    *)
THEOREM PullCorrect == Spec => []PullSettles
<1>1. IInv => PullSettles
  BY DEF IInv, Progress, Kept, PullSettles, In, Due
<1> QED BY <1>1, Inductive, PTL
-----------------------------------------------------------------------------
(* What a step may never do.                                               *)

\* A step of one request, or one from outside, that leaves a request's record
\* as it is or only disturbs it.
LEMMA Untouched ==
  ASSUME IInv, NEW r \in Reqs, ~Over(req[r]),
         req' = [o \in Reqs |-> Disturbed(req[o])],
         req'[r].alone = req[r].alone
  PROVE  req'[r] = req[r]
<1>1. req[r] \in Request
  BY World
<1>2. req'[r] = [req[r] EXCEPT !.alone = FALSE]
  BY DEF Disturbed
<1> QED BY <1>1, <1>2 DEF Request

(* A step that gives one request another stage leaves the others alone. *)
LEMMA OneMoves ==
  ASSUME IInv, NEW o \in Reqs, Step(o), NEW r \in Reqs, req'[r] # req[r]
  PROVE  r = o
<1> SUFFICES ASSUME r # o PROVE req'[r] = req[r]
  OBVIOUS
<1>1. req \in [Reqs -> Request]
  BY DEF IInv, TypeOK
<1>2. CASE Write(o) \/ Record(o) \/ Drop(o) \/ Persist(o)
  BY <1>1, <1>2 DEF Write, Record, Drop, Persist, Goes
<1>3. CASE Find(o) \/ List(o)
  BY <1>1, <1>3 DEF Find, List, Goes
<1>4. CASE Fails(o) \/ \E p \in Places : Apply(o, p) \/ Clear(o, p)
  BY <1>1, <1>4 DEF Fails, Apply, Clear
<1> QED BY <1>2, <1>3, <1>4 DEF Step

LEMMA BeginKeeps ==
  ASSUME NEW o \in Reqs, Begin(o)
  PROVE  UNCHANGED <<location, labels, desired>>
BY DEF Begin, Assign, Mint, AssignProfile, Unassign, Pull, world

LEMMA TakeOutStep ==
  ASSUME IInv, [Next]_vars, NEW r \in Reqs, NEW s \in Spools,
         In(r, "unplace"), req'[r] # req[r], req'[r].alone = req[r].alone,
         location'[s] # location[s]
  PROVE  req[r].what \in {s, None}
<1>1. req[r] \in Request /\ Shape(req[r]) /\ ~Over(req[r])
  BY World DEF In, Over
<1>2. ASSUME NEW o \in Reqs, Begin(o) PROVE FALSE
  BY <1>2, BeginKeeps
<1>3. ASSUME NEW o \in Reqs, Step(o) PROVE req[r].what \in {s, None}
  <2>1. r = o
    BY <1>3, OneMoves
  <2>2. Write(r) \/ Fails(r)
    BY <1>3, <2>1 DEF Step, Find, Record, Drop, List, Persist, Apply, Clear, world
  <2>3. Writes(req[r])
    BY <2>2 DEF Write, Fails
  <2>4. location' = [location EXCEPT ![req[r].target] = None]
    BY <2>3 DEF Writes, Relocated, In
  <2>5. s = req[r].target
    BY <2>4, World
  <2> QED BY <2>5, <1>1 DEF Shape, In
<1>4. CASE \/ \E t \in Spools, p \in Places \cup {None} : Scan(t, p)
           \/ \E p \in Places : Eject(p)
  BY <1>1, <1>4, Untouched DEF Scan, Eject
<1>5. CASE UNCHANGED vars
  BY <1>5 DEF vars, world
<1> QED BY <1>2, <1>3, <1>4, <1>5 DEF Next

(* A request to empty a slot takes out no spool but the one on record. *)
THEOREM TakeOutCorrect == Spec => OnlyOwnIsTakenOut
<1>1. IInv /\ [Next]_vars =>
        [\A r \in Reqs, s \in Spools :
           In(r, "unplace") /\ req'[r] # req[r] /\ req'[r].alone = req[r].alone
             /\ location'[s] # location[s]
             => req[r].what \in {s, None}]_vars
  BY TakeOutStep
<1> QED BY <1>1, Inductive, PTL DEF Spec, OnlyOwnIsTakenOut

LEMMA SpareStep ==
  ASSUME IInv, [Next]_vars, NEW r \in Reqs, NEW p \in Places,
         In(r, "write"), req'[r] # req[r], req'[r].alone = req[r].alone,
         labels'[p] # labels[p], labels'[p] = None
  PROVE  /\ req[r].prune /\ p \notin req[r].disputed
         /\ ~req[r].tells \/ AceOf[p] \in req[r].cov
<1>1. req[r] \in Request /\ Shape(req[r]) /\ ~Over(req[r])
  BY World DEF In, Over
<1>2. ASSUME NEW o \in Reqs, Begin(o) PROVE FALSE
  BY <1>2, BeginKeeps
<1>3. ASSUME NEW o \in Reqs, Step(o)
      PROVE  /\ req[r].prune /\ p \notin req[r].disputed
             /\ ~req[r].tells \/ AceOf[p] \in req[r].cov
  <2>1. r = o
    BY <1>3, OneMoves
  <2>2. ~Writes(req[r])
    BY DEF Writes, In
  <2>3. PICK d \in Places : Apply(r, d) \/ Clear(r, d)
    <3>1. ~Write(r) /\ ~Find(r) /\ ~Record(r) /\ ~Drop(r) /\ ~List(r)
      BY <2>2 DEF Write, Find, Record, Drop, List, In
    <3>2. ~Persist(r) /\ ~Fails(r)
      BY <2>2 DEF Persist, Fails, In, world
    <3> QED BY <1>3, <2>1, <3>1, <3>2 DEF Step
  <2>4. ~Apply(r, d)
    <3>1. SUFFICES ASSUME Apply(r, d) PROVE FALSE
      OBVIOUS
    <3>2. labels' = [labels EXCEPT ![d] = req[r].won[d]]
      BY <3>1 DEF Apply, Labelled
    <3>3. req[r].won[d] # None
      BY <1>1, <3>1 DEF Apply, Shape, Won, In
    <3> QED BY <3>2, <3>3, World DEF Labels
  <2>5. labels' = [labels EXCEPT ![d] = None] /\ d \in req[r].clear
    BY <2>3, <2>4 DEF Clear, Labelled
  <2>6. p = d
    BY <2>5, World DEF Labels
  <2>7. /\ req[r].prune /\ p \notin req[r].disputed /\ AceOf[p] \in Tracked(req[r])
    BY <1>1, <2>5, <2>6 DEF Shape, In
  <2> QED BY <2>7 DEF Tracked
<1>4. CASE \/ \E t \in Spools, d \in Places \cup {None} : Scan(t, d)
           \/ \E d \in Places : Eject(d)
  BY <1>1, <1>4, Untouched DEF Scan, Eject
<1>5. CASE UNCHANGED vars
  BY <1>5 DEF vars, world
<1> QED BY <1>2, <1>3, <1>4, <1>5 DEF Next

(* A pull spares disputed slots, ACEs that are not tracked, and everything *)
(* when it is only to add.                                                 *)
THEOREM SparesCorrect == Spec => PullSpares
<1>1. IInv /\ [Next]_vars =>
        [\A r \in Reqs, p \in Places :
           In(r, "write") /\ req'[r] # req[r] /\ req'[r].alone = req[r].alone
             /\ labels'[p] # labels[p] /\ labels'[p] = None
             => /\ req[r].prune /\ p \notin req[r].disputed
                /\ ~req[r].tells \/ AceOf[p] \in req[r].cov]_vars
  BY SpareStep
<1> QED BY <1>1, Inductive, PTL DEF Spec, PullSpares

LEMMA RecordStep ==
  ASSUME IInv, [Next]_vars, NEW p \in Places, desired'[p] # desired[p]
  PROVE  \E r \in Reqs :
           /\ req'[r] # req[r]
           /\ \/ req[r].at = p
              \/ req[r].op = "pull" /\ (\/ p \in Won(req[r])
                                        \/ AceOf[p] \in Scope(req[r]))
<1>1. ASSUME NEW o \in Reqs, Begin(o) PROVE FALSE
  BY <1>1, BeginKeeps
<1>2. ASSUME NEW o \in Reqs, Step(o)
      PROVE  /\ req'[o] # req[o]
             /\ \/ req[o].at = p
                \/ req[o].op = "pull" /\ (\/ p \in Won(req[o])
                                          \/ AceOf[p] \in Scope(req[o]))
  <2>1. req[o] \in Request /\ Shape(req[o]) /\ desired \in Labels
    BY World
  <2>2. Record(o) \/ Drop(o) \/ Persist(o)
    BY <1>2 DEF Step, Write, Find, List, Fails, Apply, Clear
  <2>3. req' = [req EXCEPT ![o].stage = "done"] /\ req[o].stage # "done"
    BY <2>2 DEF Record, Drop, Persist, Goes, In
  <2>4. req'[o] # req[o]
    <3>1. req'[o] = [req[o] EXCEPT !.stage = "done"]
      BY <2>3 DEF IInv, TypeOK
    <3>2. req'[o].stage = "done"
      BY <2>1, <3>1 DEF Request
    <3> QED BY <2>3, <3>2
  <2>5. CASE Record(o) \/ Drop(o)
    <3>1. req[o].at = p
      BY <2>1, <2>5 DEF Record, Drop, Labels
    <3> QED BY <2>4, <3>1
  <2>6. CASE Persist(o)
    <3>1. req[o].op = "pull"
      BY <2>1, <2>6 DEF Persist, Shape, In
    <3>2. p \in Won(req[o]) \/ AceOf[p] \in Scope(req[o])
      BY <2>6 DEF Persist, Persisted
    <3> QED BY <2>4, <3>1, <3>2
  <2> QED BY <2>2, <2>5, <2>6
<1>3. CASE \/ \E t \in Spools, d \in Places \cup {None} : Scan(t, d)
           \/ \E d \in Places : Eject(d)
  BY <1>3 DEF Scan, Eject
<1>4. CASE UNCHANGED vars
  BY <1>4 DEF vars
<1> QED BY <1>1, <1>2, <1>3, <1>4 DEF Next

(* No request loses the record of a slot that is none of its business.    *)
THEOREM RecordsCorrect == Spec => RecordsKept
<1>1. IInv /\ [Next]_vars =>
        [\A p \in Places : desired'[p] # desired[p] =>
           \E r \in Reqs :
             /\ req'[r] # req[r]
             /\ \/ req[r].at = p
                \/ req[r].op = "pull" /\ (\/ p \in Won(req[r])
                                          \/ AceOf[p] \in Scope(req[r]))]_vars
  BY RecordStep
<1> QED BY <1>1, Inductive, PTL DEF Spec, RecordsKept
=============================================================================
