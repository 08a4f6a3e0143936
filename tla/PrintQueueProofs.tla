------------------------- MODULE PrintQueueProofs -------------------------
(* Theorems about PrintQueue, for any number of heads, tools and slots, any  *)
(* headers and bindings, and any program the slicer may write.               *)
EXTENDS PrintQueue, FiniteSetTheorems, FunctionTheorems, SequenceTheorems, WellFoundedInduction, TLAPS

\* What a pass may be matched with: the bindings, or nothing.
Known == Racks \cup {[s \in Slots |-> None]}

\* Every pass matches against its rack, over the web exactly.
PassInv ==
    stage # "idle" =>
      /\ pass.rack \in Known
      /\ pass.by = "web" => pass.tab = MatchTools(header, pass.rack, FALSE)

IInv == TypeOK /\ HeadsInverse /\ PassInv /\ ReadyIsExact

-----------------------------------------------------------------------------
LEMMA NotNumbers ==
    /\ \A h \in Heads : h # None
    /\ \A t \in Tools : t # None
    /\ \A s \in Slots : s # None
BY NoneAssumption, SizeAssumption DEF Heads, Tools, Slots

\* A set of naturals that is not empty has a least element: the strict subsets
\* of a finite set do not descend for ever.
LEMMA LeastExists ==
    ASSUME NEW S \in SUBSET Nat, S # {}
    PROVE  \E m \in S : \A n \in S : m <= n
<1> DEFINE Below(x) == {y \in S : y < x}
           T == {Below(x) : x \in S}
           R == StrictSubsetOrdering(Nat)
<1>1. IsWellFoundedOn(R, FiniteSubsetsOf(Nat))
  BY FS_StrictSubsetOrderingWellFounded
<1>2. T \subseteq FiniteSubsetsOf(Nat)
  <2> SUFFICES ASSUME NEW x \in S PROVE Below(x) \in FiniteSubsetsOf(Nat)
    OBVIOUS
  <2>1. IsFiniteSet(0..x)
    BY FS_Interval
  <2>2. ASSUME NEW y \in Below(x) PROVE y \in 0..x
    <3>1. x \in Nat /\ y \in Nat /\ y < x
      OBVIOUS
    <3> QED BY <3>1
  <2>3. IsFiniteSet(Below(x))
    BY <2>1, <2>2, FS_Subset
  <2> QED BY <2>3 DEF FiniteSubsetsOf
<1>3. T # {}
  OBVIOUS
<1>4. PICK B \in T : \A C \in T : <<C, B>> \notin R
  <2> HIDE DEF T, R
  <2> QED BY <1>1, <1>2, <1>3, WFMin
<1>5. PICK m \in S : B = Below(m)
  OBVIOUS
<1>6. ASSUME NEW n \in S, n < m PROVE FALSE
  <2>1. Below(n) \in T
    OBVIOUS
  <2>2. n \in Below(m) /\ n \notin Below(n)
    <3>1. n \in Nat
      OBVIOUS
    <3> QED BY <1>6, <3>1
  <2>a. ASSUME NEW y \in Below(n) PROVE y \in Below(m)
    <3>1. n \in Nat /\ m \in Nat /\ y \in Nat /\ y \in S /\ y < n
      OBVIOUS
    <3> QED BY <1>6, <3>1
  <2>3. <<Below(n), B>> \in R
    BY <1>5, <2>a, <2>2 DEF StrictSubsetOrdering
  <2> QED BY <1>4, <2>1, <2>3
<1>7. \A n \in S : n \in Nat /\ m \in Nat
  OBVIOUS
<1> QED BY <1>6, <1>7

\* The nearest spool exists among slots that hold one.
LEMMA NearestIn ==
    ASSUME NEW h \in Headers, NEW r \in Known, NEW t \in Tools,
           NEW S \in SUBSET SameMaterial(h, r, t), S # {}
    PROVE  Nearest(h, r, t, S) \in Slots
<1> DEFINE D(s) == Gap(h[t].col, r[s].col)
<1>1. \A s \in S : s \in Slots /\ r[s] # None
  BY DEF SameMaterial
<1>2. S \subseteq Nat
  BY <1>1, SizeAssumption DEF Slots
<1>3. ASSUME NEW s \in S PROVE D(s) \in Nat
  <2>1. h[t].col \in Nat
    BY BindingAssumption
  <2>2. r[s].col \in Nat
    <3>1. r \in Racks
      BY <1>1 DEF Known
    <3> QED BY <1>1, <3>1, BindingAssumption
  <2> QED BY <2>1, <2>2 DEF Gap
<1>4. PICK d \in {D(s) : s \in S} : \A e \in {D(s) : s \in S} : d <= e
  <2>1. {D(s) : s \in S} \in SUBSET Nat /\ {D(s) : s \in S} # {}
    BY <1>3
  <2> HIDE DEF D
  <2> QED BY <2>1, LeastExists
<1> DEFINE Best == {s \in S : D(s) = d}
<1>5. PICK m \in Best : \A s \in Best : m <= s
  <2>1. Best \in SUBSET Nat /\ Best # {}
    BY <1>2, <1>4
  <2> HIDE DEF Best
  <2> QED BY <2>1, LeastExists
<1>6. m \in S /\ \A o \in S : D(m) < D(o) \/ (D(m) = D(o) /\ m <= o)
  <2>1. m \in S /\ D(m) = d
    BY <1>5
  <2>2. ASSUME NEW o \in S PROVE D(m) < D(o) \/ (D(m) = D(o) /\ m <= o)
    <3>1. D(m) <= D(o) /\ D(m) \in Nat /\ D(o) \in Nat
      BY <1>3, <1>4, <2>1
    <3>2. CASE D(m) = D(o)
      BY <1>5, <2>1, <3>2
    <3>3. CASE D(m) # D(o)
      <4> HIDE DEF D
      <4> QED BY <3>1, <3>3
    <3> QED BY <3>2, <3>3
  <2> QED BY <2>1, <2>2
<1>7. Nearest(h, r, t, S) \in S
  <2> HIDE DEF D
  <2>1. Nearest(h, r, t, S) = CHOOSE s \in S : \A o \in S : D(s) < D(o) \/ (D(s) = D(o) /\ s <= o)
    BY Zenon DEF Nearest, D
  <2> QED BY <1>6, <2>1
<1> QED BY <1>1, <1>7

\* What match_tools resolves a tool to is a slot.
LEMMA MatchTyped ==
    ASSUME NEW h \in Headers, NEW r \in Known, NEW fuzzy \in BOOLEAN
    PROVE  MatchTools(h, r, fuzzy) \in [Tools -> Slots \cup {None}]
<1>1. ASSUME NEW t \in Tools, Cardinality(Exact(h, r, t)) = 1
      PROVE  (CHOOSE s \in Slots : s \in Exact(h, r, t)) \in Slots
  <2>1. Exact(h, r, t) # {}
    BY <1>1, FS_EmptySet
  <2> QED BY <2>1 DEF Exact
<1>2. ASSUME NEW t \in Tools PROVE FuzzyResolve(h, r, t) \in Slots \cup {None}
  <2> DEFINE tiers == Tiers(h, r, t)
             hit == {i \in DOMAIN tiers : tiers[i] # {}}
             first == CHOOSE i \in hit : \A j \in hit : i <= j
  <2>1. DOMAIN tiers = 1..3 /\ \A i \in 1..3 : tiers[i] \subseteq SameMaterial(h, r, t)
    BY DEF Tiers
  <2>2. CASE hit = {}
    BY <2>2 DEF FuzzyResolve
  <2>3. CASE hit # {}
    <3>1. hit \in SUBSET Nat
      BY <2>1
    <3>2. first \in hit
      <4>1. \E i \in hit : \A j \in hit : i <= j
        <5> HIDE DEF hit
        <5> QED BY <2>3, <3>1, LeastExists
      <4> HIDE DEF hit
      <4> QED BY <4>1
    <3>3. FuzzyResolve(h, r, t) = Nearest(h, r, t, tiers[first])
      BY <2>3 DEF FuzzyResolve
    <3>4. tiers[first] \in SUBSET SameMaterial(h, r, t) /\ tiers[first] # {}
      <4> HIDE DEF tiers, first
      <4> QED BY <2>1, <3>2
    <3> HIDE DEF first, tiers, hit
    <3> QED BY <3>3, <3>4, NearestIn
  <2> QED BY <2>2, <2>3
<1> QED BY <1>1, <1>2 DEF MatchTools

\* An exact match is the only slot with a spool of its kind.
LEMMA MatchExact ==
    ASSUME NEW h, NEW r, NEW t \in Tools, MatchTools(h, r, FALSE)[t] # None
    PROVE  Exact(h, r, t) = {MatchTools(h, r, FALSE)[t]}
<1>1. Cardinality(Exact(h, r, t)) = 1
      /\ MatchTools(h, r, FALSE)[t] = CHOOSE s \in Slots : s \in Exact(h, r, t)
  BY DEF MatchTools
<1>2. IsFiniteSet(Exact(h, r, t)) /\ Exact(h, r, t) \in SUBSET Slots
  <2>1. IsFiniteSet(Slots)
    BY FS_Interval, SizeAssumption DEF Slots
  <2>2. Exact(h, r, t) \in SUBSET Slots
    BY DEF Exact
  <2> QED BY <2>1, <2>2, FS_Subset
<1>3. PICK x : Exact(h, r, t) = {x}
  BY <1>1, <1>2, FS_Singleton
<1> QED BY <1>1, <1>2, <1>3

-----------------------------------------------------------------------------
\* The first assignment gives a head a tool, and two heads two tools.
LEMMA FirstHeadsTyped ==
    ASSUME NEW lines, NEW tab
    PROVE  /\ FirstHeads(lines, tab) \in [Heads -> Tools \cup {None}]
           /\ \A g, h \in Heads : FirstHeads(lines, tab)[g] = FirstHeads(lines, tab)[h]
                                    /\ FirstHeads(lines, tab)[g] # None => g = h
<1> DEFINE Rank(t) == Cardinality({u \in Appearing(lines, tab) : FirstUse(lines, u) < FirstUse(lines, t)})
           Holds(h) == {t \in Appearing(lines, tab) : Rank(t) = h}
           F == FirstHeads(lines, tab)
<1>1. F = [h \in Heads |-> IF Holds(h) = {} THEN None ELSE CHOOSE t \in Tools : t \in Holds(h)]
  BY DEF FirstHeads
<1>2. \A h \in Heads : Holds(h) \subseteq Tools
  BY DEF Appearing
<1>3. \A h \in Heads : F[h] = None \/ (F[h] \in Tools /\ F[h] \in Holds(h))
  <2> SUFFICES ASSUME NEW h \in Heads PROVE F[h] = None \/ (F[h] \in Tools /\ F[h] \in Holds(h))
    OBVIOUS
  <2> HIDE DEF F, Holds
  <2>1. CASE Holds(h) = {}
    BY <1>1, <2>1
  <2>2. CASE Holds(h) # {}
    BY <1>1, <1>2, <2>2
  <2> QED BY <2>1, <2>2
<1>4. F \in [Heads -> Tools \cup {None}]
  <2> HIDE DEF Holds
  <2> QED BY <1>1, <1>3
<1>5. \A h \in Heads : F[h] # None => Rank(F[h]) = h
  <2> HIDE DEF F, Rank
  <2> QED BY <1>3
<1> HIDE DEF F, Rank, Holds
<1>6. \A g, h \in Heads : F[g] = F[h] /\ F[g] # None => g = h
  BY <1>5
<1> QED BY <1>4, <1>6 DEF F

\* tool_to_head of an assignment without repetition is its inverse.
LEMMA InvertedInverse ==
    ASSUME NEW heads \in [Heads -> Tools \cup {None}],
           \A g, h \in Heads : heads[g] = heads[h] /\ heads[g] # None => g = h
    PROVE  /\ Inverted(heads) \in [Tools -> Heads \cup {None}]
           /\ \A h \in Heads, t \in Tools : heads[h] = t <=> Inverted(heads)[t] = h
<1> SUFFICES ASSUME NEW t \in Tools
             PROVE  /\ Inverted(heads)[t] \in Heads \cup {None}
                    /\ \A h \in Heads : heads[h] = t <=> Inverted(heads)[t] = h
  BY DEF Inverted
<1>1. CASE \E h \in Heads : heads[h] = t
  <2>1. PICK g \in Heads : heads[g] = t
    BY <1>1
  <2>2. Inverted(heads)[t] = CHOOSE h \in Heads : heads[h] = t
    BY <1>1 DEF Inverted
  <2>3. Inverted(heads)[t] \in Heads /\ heads[Inverted(heads)[t]] = t
    BY <2>1, <2>2
  <2> QED BY <2>3, NotNumbers
<1>2. CASE ~\E h \in Heads : heads[h] = t
  <2>1. Inverted(heads)[t] = None
    BY <1>2 DEF Inverted
  <2> QED BY <1>2, <2>1, NotNumbers
<1> QED BY <1>1, <1>2

\* Putting tool t on head h and taking the tool of h off keeps the maps inverse.
LEMMA SwapInverse ==
    ASSUME NEW w, NEW t \in Tools, NEW h \in Heads,
           w.heads \in [Heads -> Tools \cup {None}], w.headOf \in [Tools -> Heads \cup {None}],
           w.headOf[t] = None,
           \A g \in Heads, u \in Tools : w.heads[g] = u <=> w.headOf[u] = g
    PROVE  /\ Swap(w, t, h).heads \in [Heads -> Tools \cup {None}]
           /\ Swap(w, t, h).headOf \in [Tools -> Heads \cup {None}]
           /\ \A g \in Heads, u \in Tools :
                Swap(w, t, h).heads[g] = u <=> Swap(w, t, h).headOf[u] = g
<1> DEFINE heads == [w.heads EXCEPT ![h] = t]
           headOf == [u \in Tools |-> IF u = t THEN h ELSE IF u = w.heads[h] THEN None ELSE w.headOf[u]]
<1>1. Swap(w, t, h).heads = heads /\ Swap(w, t, h).headOf = headOf
  BY DEF Swap
<1>2. heads \in [Heads -> Tools \cup {None}] /\ headOf \in [Tools -> Heads \cup {None}]
  OBVIOUS
<1>3. ASSUME NEW g \in Heads, NEW u \in Tools PROVE heads[g] = u <=> headOf[u] = g
  <2>1. w.heads[g] # t
    BY NotNumbers
  <2>2. heads[g] = IF g = h THEN t ELSE w.heads[g]
    OBVIOUS
  <2>3. headOf[u] = IF u = t THEN h ELSE IF u = w.heads[h] THEN None ELSE w.headOf[u]
    OBVIOUS
  <2>4. g # None
    BY NotNumbers
  <2> QED BY <2>1, <2>2, <2>3, <2>4
<1> QED BY <1>1, <1>2, <1>3

LEMMA InitInv == Init => IInv
<1> SUFFICES ASSUME Init PROVE IInv
  OBVIOUS
<1>1. stage = "idle" /\ sidecar = None
  BY DEF Init
<1>2. /\ header \in Headers /\ rack \in Racks /\ rewrites \in Nat /\ rebinds \in Nat
      /\ swapping \in BOOLEAN /\ job \in BOOLEAN /\ torn \in BOOLEAN
  BY DEF Init
<1> QED BY <1>1, <1>2 DEF IInv, TypeOK, HeadsInverse, PassInv, ReadyIsExact

\* A pass that begins over bindings that are known has a sound plan.
LEMMA BeginsInv ==
    ASSUME IInv, NEW p, Begins(p), p.by \in {"script", "web"}, p.rack \in Known,
           p.tab \in [Tools -> Slots \cup {None}],
           p.by = "web" => p.tab = MatchTools(header, p.rack, FALSE),
           NEW lines, p.start = FirstHeads(lines, p.tab)
    PROVE  IInv'
<1>1. /\ p.start \in [Heads -> Tools \cup {None}]
      /\ \A g, h \in Heads : p.start[g] = p.start[h] /\ p.start[g] # None => g = h
  BY FirstHeadsTyped
<1>2. /\ Inverted(p.start) \in [Tools -> Heads \cup {None}]
      /\ \A h \in Heads, t \in Tools : p.start[h] = t <=> Inverted(p.start)[t] = h
  BY <1>1, InvertedInverse
<1>3. /\ walk'.heads = p.start /\ walk'.headOf = Inverted(p.start)
      /\ walk'.phys \in [Tools -> Heads \cup {None}]
  BY DEF Begins, WalkFrom
<1>4. pass' = p /\ stage' = "plan" /\ UNCHANGED <<header, sliced, rack, file, sidecar, swapping, job, rebinds, rewrites, torn>>
  BY DEF Begins
<1>5. TypeOK'
  BY <1>1, <1>2, <1>3, <1>4 DEF IInv, TypeOK
<1>6. HeadsInverse'
  BY <1>2, <1>3 DEF HeadsInverse
<1>7. PassInv'
  BY <1>4 DEF PassInv
<1>8. ReadyIsExact'
  BY <1>4 DEF IInv, ReadyIsExact
<1> QED BY <1>5, <1>6, <1>7, <1>8 DEF IInv

LEMMA StepInv == IInv /\ [Next]_vars => IInv'
<1> SUFFICES ASSUME IInv, [Next]_vars PROVE IInv'
  OBVIOUS
<1>1. ASSUME NEW optimize \in BOOLEAN, NEW layer \in BOOLEAN, NEW fuzzy \in BOOLEAN,
             NEW host \in BOOLEAN, RunScript(optimize, layer, fuzzy, host)
      PROVE  IInv'
  <2> DEFINE known == IF host THEN rack ELSE [s \in Slots |-> None]
             tab == MatchTools(header, known, fuzzy)
             aliased == IF optimize THEN Aliased(file, header, known, tab) ELSE file
             lines == IF layer THEN Preloaded(aliased, tab) ELSE aliased
             p == PassOver("script", lines, known, tab)
  <2>1. Begins(p)
    BY <1>1 DEF RunScript
  <2>2. known \in Known /\ tab \in [Tools -> Slots \cup {None}]
    <3>1. known \in Known
      BY DEF Known, IInv, TypeOK
    <3>2. header \in Headers
      BY DEF IInv, TypeOK
    <3> HIDE DEF known
    <3> QED BY <3>1, <3>2, MatchTyped
  <2> HIDE DEF known, tab, lines
  <2>3. p.by = "script" /\ p.rack = known /\ p.tab = tab /\ p.start = FirstHeads(lines, tab)
    BY DEF PassOver
  <2> QED BY <2>1, <2>2, <2>3, BeginsInv
<1>2. CASE Revalidate
  <2> DEFINE tab == MatchTools(header, rack, FALSE)
             p == PassOver("web", file, rack, tab)
  <2>1. Begins(p)
    BY <1>2 DEF Revalidate
  <2>2. rack \in Known /\ tab \in [Tools -> Slots \cup {None}]
    BY MatchTyped DEF Known, IInv, TypeOK
  <2>3. p.by = "web" /\ p.rack = rack /\ p.tab = MatchTools(header, p.rack, FALSE)
        /\ p.tab = tab /\ p.start = FirstHeads(file, p.tab)
    BY DEF PassOver
  <2> HIDE DEF p
  <2> QED BY <2>1, <2>2, <2>3, BeginsInv
<1>3. CASE PlanLine
  <2>1. /\ stage = "plan" /\ UNCHANGED <<header, sliced, rack, file, sidecar, stage, pass, swapping, job, rebinds, rewrites, torn>>
    BY <1>3 DEF PlanLine
  <2>2. /\ walk'.heads \in [Heads -> Tools \cup {None}]
        /\ walk'.headOf \in [Tools -> Heads \cup {None}]
        /\ walk'.phys \in [Tools -> Heads \cup {None}]
        /\ \A h \in Heads, t \in Tools : walk'.heads[h] = t <=> walk'.headOf[t] = h
    <3> DEFINE line == pass.lines[walk.at]
    <3>1. \/ walk' = Skip(walk)
          \/ line.n \in Tools /\ walk' = Stay(walk, line.n)
          \/ /\ line.n \in Tools /\ walk.headOf[line.n] = None
             /\ \E h \in Heads : walk' = Swap(walk, line.n, h)
      BY <1>3 DEF PlanLine
    <3>2. /\ walk.heads \in [Heads -> Tools \cup {None}]
          /\ walk.headOf \in [Tools -> Heads \cup {None}]
          /\ walk.phys \in [Tools -> Heads \cup {None}]
          /\ \A h \in Heads, t \in Tools : walk.heads[h] = t <=> walk.headOf[t] = h
      BY <2>1 DEF IInv, TypeOK, HeadsInverse
    <3> HIDE DEF line
    <3>3. CASE walk' = Skip(walk)
      BY <3>2, <3>3 DEF Skip
    <3>4. CASE line.n \in Tools /\ walk' = Stay(walk, line.n)
      <4>1. walk'.phys = [walk.phys EXCEPT ![line.n] = walk.headOf[line.n]]
            /\ walk'.heads = walk.heads /\ walk'.headOf = walk.headOf
        BY <3>4 DEF Stay
      <4> QED BY <3>2, <3>4, <4>1
    <3>5. ASSUME line.n \in Tools, walk.headOf[line.n] = None, NEW h \in Heads,
                 walk' = Swap(walk, line.n, h)
          PROVE  /\ walk'.heads \in [Heads -> Tools \cup {None}]
                 /\ walk'.headOf \in [Tools -> Heads \cup {None}]
                 /\ walk'.phys \in [Tools -> Heads \cup {None}]
                 /\ \A g \in Heads, t \in Tools : walk'.heads[g] = t <=> walk'.headOf[t] = g
      <4>1. walk'.phys = [walk.phys EXCEPT ![line.n] = h]
        BY <3>5 DEF Swap
      <4>2. walk'.phys \in [Tools -> Heads \cup {None}]
        BY <3>2, <3>5, <4>1
      <4> QED BY <3>2, <3>5, <4>2, SwapInverse
    <3> QED BY <3>1, <3>3, <3>4, <3>5
  <2> QED BY <2>1, <2>2 DEF IInv, TypeOK, HeadsInverse, PassInv, ReadyIsExact
<1>4. CASE Planned
  BY <1>4 DEF Planned, IInv, TypeOK, HeadsInverse, PassInv, ReadyIsExact
<1>5. CASE WriteGcode
  <2>1. rewrites' \in Nat
    <3>1. rewrites \in Nat
      BY DEF IInv, TypeOK
    <3>2. rewrites' = rewrites \/ rewrites' = rewrites + 1
      BY <1>5 DEF WriteGcode
    <3> QED BY <3>1, <3>2
  <2>2. /\ stage = "gcode" /\ stage' = "sidecar"
        /\ UNCHANGED <<header, sliced, rack, sidecar, pass, walk, swapping, job, rebinds, torn>>
    BY <1>5 DEF WriteGcode
  <2> QED BY <2>1, <2>2 DEF IInv, TypeOK, HeadsInverse, PassInv, ReadyIsExact
<1>6. CASE WriteSidecar
  <2> DEFINE sc == [status |-> Status(pass), rack |-> pass.rack, tab |-> pass.tab,
                    start |-> pass.start, swaps |-> walk.swaps]
  <2>1. sidecar' = sc /\ stage = "sidecar" /\ stage' = "idle"
        /\ UNCHANGED <<header, sliced, rack, file, swapping, job, rebinds, rewrites, torn>>
    BY <1>6 DEF WriteSidecar
  <2>2. sc.status = Status(pass) /\ sc.rack = pass.rack /\ sc.tab = pass.tab /\ sc.start = pass.start
    OBVIOUS
  <2>3. Status(pass) \in {"ok", "ready", "pending"}
    BY DEF Status
  <2> HIDE DEF sc
  <2>4. TypeOK'
    BY <2>1, <2>2, <2>3 DEF IInv, TypeOK
  <2>5. ASSUME Status(pass) = "ready", NEW t \in Tools
        PROVE  Exact(header, pass.rack, t) = {pass.tab[t]}
    <3>1. pass.by = "web" /\ pass.tab[t] # None
      BY <2>1, <2>5 DEF Status, IInv, TypeOK
    <3>2. pass.tab = MatchTools(header, pass.rack, FALSE)
      BY <2>1, <3>1 DEF IInv, PassInv
    <3>3. MatchTools(header, pass.rack, FALSE)[t] # None
      BY <3>1, <3>2
    <3>4. Exact(header, pass.rack, t) = {MatchTools(header, pass.rack, FALSE)[t]}
      BY <3>3, MatchExact
    <3> QED BY <3>2, <3>4
  <2>6. ReadyIsExact'
    BY <2>1, <2>2, <2>5 DEF ReadyIsExact, Exact
  <2>7. HeadsInverse' /\ PassInv'
    BY <2>1 DEF HeadsInverse, PassInv
  <2> QED BY <2>4, <2>6, <2>7 DEF IInv
<1>7. CASE Die
  BY <1>7 DEF Die, IInv, TypeOK, HeadsInverse, PassInv, ReadyIsExact
<1>8. CASE StartPrint \/ PrintEnds \/ SwapSeen
  BY <1>8 DEF StartPrint, PrintEnds, SwapSeen, IInv, TypeOK, HeadsInverse, PassInv, ReadyIsExact
<1>9. CASE Rebind
  BY <1>9 DEF Rebind, IInv, TypeOK, HeadsInverse, PassInv, ReadyIsExact
<1>10. CASE UNCHANGED vars
  BY <1>10 DEF vars, IInv, TypeOK, HeadsInverse, PassInv, ReadyIsExact
<1> QED BY <1>1, <1>2, <1>3, <1>4, <1>5, <1>6, <1>7, <1>8, <1>9, <1>10 DEF Next

-----------------------------------------------------------------------------
\* Plans and sidecars always speak of heads, tools and slots that exist.
THEOREM TypeCorrect == Spec => []TypeOK
<1>1. IInv => TypeOK
  BY DEF IInv
<1> QED BY InitInv, StepInv, <1>1, PTL DEF Spec

\* At every line of every plan, a tool is on one head and a head has one tool:
\* the two maps of plan_swaps never drift apart.
THEOREM InverseCorrect == Spec => []HeadsInverse
<1>1. IInv => HeadsInverse
  BY DEF IInv
<1> QED BY InitInv, StepInv, <1>1, PTL DEF Spec

\* Whatever is matched, crashes or is bound again: a sidecar that lets a file be
\* printed was matched exactly and without a choice.
THEOREM ReadyCorrect == Spec => []ReadyIsExact
<1>1. IInv => ReadyIsExact
  BY DEF IInv
<1> QED BY InitInv, StepInv, <1>1, PTL DEF Spec

-----------------------------------------------------------------------------
(* The swaps of a plan. *)

SwapRecord == [line : Int, head : Heads, out : Tools \cup {None}, in : Tools]

SwapsTyped ==
    stage # "idle" => walk.at \in Nat /\ walk.swaps \in Seq(SwapRecord)

Replay == IInv /\ SwapsTyped /\ SwapsReplay

\* A set of numbers up to n that is not empty has a greatest one.
LEMMA GreatestIn ==
    ASSUME NEW n \in Nat, NEW S \in SUBSET (1..n), S # {}
    PROVE  Max(S) \in S /\ \A j \in S : Max(S) >= j
<1> DEFINE D == {n - j : j \in S}
<1>1. D \in SUBSET Nat /\ D # {}
  <2>1. \A j \in S : j \in 1..n
    OBVIOUS
  <2>2. \A j \in S : n - j \in Nat
    BY <2>1
  <2> QED BY <2>2
<1>2. PICK d \in D : \A e \in D : d <= e
  <2> HIDE DEF D
  <2> QED BY <1>1, LeastExists
<1>3. PICK m \in S : d = n - m
  OBVIOUS
<1>4. \A j \in S : m >= j
  <2> SUFFICES ASSUME NEW j \in S PROVE m >= j
    OBVIOUS
  <2>1. n - m <= n - j
    BY <1>2, <1>3
  <2>2. m \in Int /\ j \in Int
    OBVIOUS
  <2> QED BY <2>1, <2>2
<1>5. \E x \in S : \A y \in S : x >= y
  BY <1>4
<1> QED BY <1>5, Zenon DEF Max

\* Before the first swap the heads hold what they are given.
LEMMA NoSwap ==
    ASSUME NEW start \in [Heads -> Tools \cup {None}], NEW swaps
    PROVE  HeadsAfter(start, swaps, 0) = start
<1>1. \A h \in Heads : {j \in 1..0 : swaps[j].head = h} = {}
  OBVIOUS
<1> QED BY <1>1 DEF HeadsAfter

\* A swap gives its head its tool, and leaves the others.
LEMMA NextSwap ==
    ASSUME NEW start, NEW swaps, NEW n \in Nat, swaps[n + 1].head \in Heads
    PROVE  HeadsAfter(start, swaps, n + 1)
             = [HeadsAfter(start, swaps, n) EXCEPT ![swaps[n + 1].head] = swaps[n + 1].in]
<1> DEFINE e == swaps[n + 1]
           Into(k, h) == {j \in 1..k : swaps[j].head = h}
<1>1. n + 1 \in Nat /\ \A j \in 1..(n + 1) : j \in 1..n \/ j = n + 1
  OBVIOUS
<1>2. Into(n + 1, e.head) # {} /\ Max(Into(n + 1, e.head)) = n + 1
  <2>1. Into(n + 1, e.head) \in SUBSET (1..(n + 1))
    OBVIOUS
  <2>2. n + 1 \in Into(n + 1, e.head)
    OBVIOUS
  <2> HIDE DEF Into
  <2>3. /\ Max(Into(n + 1, e.head)) \in 1..(n + 1)
        /\ Max(Into(n + 1, e.head)) >= n + 1
    BY <1>1, <2>1, <2>2, GreatestIn
  <2> QED BY <2>2, <2>3
<1>3. ASSUME NEW h \in Heads, h # e.head PROVE Into(n + 1, h) = Into(n, h)
  BY <1>1, <1>3
<1>4. ASSUME NEW k \in {n, n + 1}
      PROVE  HeadsAfter(start, swaps, k)
               = [h \in Heads |-> IF Into(k, h) = {} THEN start[h] ELSE swaps[Max(Into(k, h))].in]
  BY DEF HeadsAfter
<1> HIDE DEF Into
<1>5. \A h \in Heads :
        HeadsAfter(start, swaps, n + 1)[h]
          = IF h = e.head THEN e.in ELSE HeadsAfter(start, swaps, n)[h]
  <2> SUFFICES ASSUME NEW h \in Heads
               PROVE  HeadsAfter(start, swaps, n + 1)[h]
                        = IF h = e.head THEN e.in ELSE HeadsAfter(start, swaps, n)[h]
    OBVIOUS
  <2>1. CASE h = e.head
    BY <1>2, <1>4, <2>1
  <2>2. CASE h # e.head
    BY <1>3, <1>4, <2>2
  <2> QED BY <2>1, <2>2
<1> QED BY <1>4, <1>5

\* A swap that is appended changes nothing of what the earlier ones lead to...
LEMMA EarlierSwaps ==
    ASSUME NEW start, NEW swaps \in Seq(SwapRecord), NEW e \in SwapRecord,
           NEW k \in 0..Len(swaps)
    PROVE  HeadsAfter(start, Append(swaps, e), k) = HeadsAfter(start, swaps, k)
<1> DEFINE more == Append(swaps, e)
           Into(s, h) == {j \in 1..k : s[j].head = h}
<1>1. Len(swaps) \in Nat /\ \A i \in 1..Len(swaps) : more[i] = swaps[i]
  BY AppendProperties, LenProperties
<1>2. k \in Nat /\ \A j \in 1..k : more[j] = swaps[j]
  BY <1>1
<1> HIDE DEF more
<1>3. \A h \in Heads : Into(more, h) = Into(swaps, h)
  BY <1>2
<1>4. ASSUME NEW h \in Heads, Into(swaps, h) # {}
      PROVE  more[Max(Into(swaps, h))].in = swaps[Max(Into(swaps, h))].in
  <2>1. Into(swaps, h) \in SUBSET (1..k)
    OBVIOUS
  <2> HIDE DEF Into
  <2>2. Max(Into(swaps, h)) \in 1..k
    BY <1>2, <1>4, <2>1, GreatestIn
  <2> QED BY <1>2, <2>2
<1>5. HeadsAfter(start, more, k)
        = [h \in Heads |-> IF Into(more, h) = {} THEN start[h] ELSE more[Max(Into(more, h))].in]
  BY DEF HeadsAfter
<1>6. HeadsAfter(start, swaps, k)
        = [h \in Heads |-> IF Into(swaps, h) = {} THEN start[h] ELSE swaps[Max(Into(swaps, h))].in]
  BY DEF HeadsAfter
<1> HIDE DEF Into
<1>7. \A h \in Heads :
        (IF Into(more, h) = {} THEN start[h] ELSE more[Max(Into(more, h))].in)
          = (IF Into(swaps, h) = {} THEN start[h] ELSE swaps[Max(Into(swaps, h))].in)
  BY <1>3, <1>4
<1> QED BY <1>5, <1>6, <1>7 DEF more

\* ... and gives its head its tool.
LEMMA LastSwap ==
    ASSUME NEW start, NEW swaps \in Seq(SwapRecord), NEW e \in SwapRecord
    PROVE  HeadsAfter(start, Append(swaps, e), Len(swaps) + 1)
             = [HeadsAfter(start, swaps, Len(swaps)) EXCEPT ![e.head] = e.in]
<1> DEFINE more == Append(swaps, e)
           n == Len(swaps)
<1>1. n \in Nat /\ n \in 0..n /\ more[n + 1] = e
  BY AppendProperties, LenProperties
<1>2. e.head \in Heads
  BY DEF SwapRecord
<1>3. HeadsAfter(start, more, n) = HeadsAfter(start, swaps, n)
  BY <1>1, EarlierSwaps
<1> HIDE DEF more, n
<1>4. HeadsAfter(start, more, n + 1) = [HeadsAfter(start, more, n) EXCEPT ![e.head] = e.in]
  BY <1>1, <1>2, NextSwap
<1> QED BY <1>3, <1>4 DEF more, n

\* A plan that begins has no swaps.
LEMMA BeginsReplay ==
    ASSUME NEW p, Begins(p), p.start \in [Heads -> Tools \cup {None}]
    PROVE  SwapsTyped' /\ SwapsReplay'
<1>1. /\ pass' = p /\ walk'.heads = p.start /\ walk'.swaps = <<>> /\ walk'.at = 1
  BY DEF Begins, WalkFrom
<1>2. SwapsTyped'
  BY <1>1, EmptySeq DEF SwapsTyped
<1>3. HeadsAfter(p.start, <<>>, Len(<<>>)) = p.start /\ DOMAIN <<>> = {}
  BY NoSwap, EmptySeq
<1> QED BY <1>1, <1>2, <1>3 DEF SwapsReplay

\* A step that leaves plan and pass alone leaves the replay as it is.
LEMMA KeepsReplay ==
    ASSUME SwapsTyped, SwapsReplay, stage' = "idle" \/ (stage # "idle" /\ UNCHANGED <<pass, walk>>)
    PROVE  SwapsTyped' /\ SwapsReplay'
BY DEF SwapsTyped, SwapsReplay

LEMMA PlanReplay ==
    ASSUME Replay, PlanLine
    PROVE  SwapsTyped' /\ SwapsReplay'
<1> DEFINE line == pass.lines[walk.at]
<1>1. /\ stage = "plan" /\ UNCHANGED <<stage, pass>>
      /\ \/ walk' = Skip(walk)
         \/ line.n \in Tools /\ walk' = Stay(walk, line.n)
         \/ line.n \in Tools /\ \E h \in Heads : walk' = Swap(walk, line.n, h)
  BY DEF PlanLine
<1> HIDE DEF line
<1>2. /\ walk.at \in Nat /\ walk.swaps \in Seq(SwapRecord)
      /\ walk.heads \in [Heads -> Tools \cup {None}]
      /\ walk.heads = HeadsAfter(pass.start, walk.swaps, Len(walk.swaps))
      /\ \A k \in DOMAIN walk.swaps :
           HeadsAfter(pass.start, walk.swaps, k - 1)[walk.swaps[k].head] = walk.swaps[k].out
  BY <1>1 DEF Replay, IInv, TypeOK, SwapsTyped, SwapsReplay
<1>3. CASE walk' = Skip(walk) \/ walk' = Stay(walk, line.n)
  <2>1. walk'.at = walk.at + 1 /\ walk'.heads = walk.heads /\ walk'.swaps = walk.swaps
    BY <1>3 DEF Skip, Stay
  <2> QED BY <1>1, <1>2, <2>1 DEF SwapsTyped, SwapsReplay
<1>4. ASSUME line.n \in Tools, NEW h \in Heads, walk' = Swap(walk, line.n, h)
      PROVE  SwapsTyped' /\ SwapsReplay'
  <2> DEFINE e == [line |-> walk.at, head |-> h, out |-> walk.heads[h], in |-> line.n]
             n == Len(walk.swaps)
  <2>1. /\ walk'.at = walk.at + 1 /\ walk'.heads = [walk.heads EXCEPT ![h] = line.n]
        /\ walk'.swaps = Append(walk.swaps, e)
    BY <1>4 DEF Swap
  <2>2. e \in SwapRecord /\ e.head = h /\ e.in = line.n /\ e.out = walk.heads[h]
    BY <1>2, <1>4 DEF SwapRecord
  <2> HIDE DEF e
  <2>3. /\ walk'.swaps \in Seq(SwapRecord) /\ Len(walk'.swaps) = n + 1 /\ n \in Nat
        /\ DOMAIN walk'.swaps = 1..(n + 1) /\ DOMAIN walk.swaps = 1..n
        /\ \A i \in 1..n : walk'.swaps[i] = walk.swaps[i]
        /\ walk'.swaps[n + 1] = e
    BY <1>2, <2>1, <2>2, AppendProperties, LenProperties
  <2>4. walk'.heads = HeadsAfter(pass.start, walk'.swaps, n + 1)
    BY <1>2, <2>1, <2>2, LastSwap
  <2>5. \A k \in 0..n : HeadsAfter(pass.start, walk'.swaps, k) = HeadsAfter(pass.start, walk.swaps, k)
    BY <1>2, <2>1, <2>2, EarlierSwaps
  <2> HIDE DEF n
  <2>6. ASSUME NEW k \in 1..(n + 1)
        PROVE  HeadsAfter(pass.start, walk'.swaps, k - 1)[walk'.swaps[k].head] = walk'.swaps[k].out
    <3>1. k - 1 \in 0..n
      BY <2>3
    <3>2. CASE k \in 1..n
      BY <1>2, <2>3, <2>5, <3>1, <3>2
    <3>3. CASE k = n + 1
      <4>1. k - 1 = n
        BY <2>3, <3>3
      <4>2. HeadsAfter(pass.start, walk'.swaps, k - 1) = walk.heads
        BY <1>2, <2>5, <3>1, <4>1 DEF n
      <4> QED BY <2>2, <2>3, <3>3, <4>2
    <3> QED BY <2>3, <3>2, <3>3
  <2>7. SwapsTyped'
    BY <1>2, <2>1, <2>3 DEF SwapsTyped
  <2>8. SwapsReplay'
    BY <1>1, <2>3, <2>4, <2>6 DEF SwapsReplay
  <2> QED BY <2>7, <2>8
<1> QED BY <1>1, <1>3, <1>4

LEMMA StepReplay == Replay /\ [Next]_vars => Replay'
<1> SUFFICES ASSUME Replay, [Next]_vars PROVE SwapsTyped' /\ SwapsReplay'
  BY StepInv DEF Replay
<1>1. IInv' /\ SwapsTyped /\ SwapsReplay
  BY StepInv DEF Replay
<1>2. ASSUME NEW p, Begins(p) PROVE SwapsTyped' /\ SwapsReplay'
  <2>1. pass' = p /\ stage' = "plan"
    BY <1>2 DEF Begins
  <2>2. p.start \in [Heads -> Tools \cup {None}]
    BY <1>1, <2>1 DEF IInv, TypeOK
  <2> QED BY <1>2, <2>2, BeginsReplay
<1>3. CASE Revalidate \/ \E optimize, layer, fuzzy, host \in BOOLEAN : RunScript(optimize, layer, fuzzy, host)
  BY <1>2, <1>3 DEF Revalidate, RunScript
<1>4. CASE PlanLine
  BY <1>4, PlanReplay
<1>5. CASE Planned \/ WriteGcode \/ WriteSidecar \/ Die
  BY <1>1, <1>5, KeepsReplay DEF Planned, WriteGcode, WriteSidecar, Die
<1>6. CASE StartPrint \/ PrintEnds \/ SwapSeen \/ Rebind
  BY <1>1, <1>6, KeepsReplay DEF StartPrint, PrintEnds, SwapSeen, Rebind
<1>7. CASE UNCHANGED vars
  BY <1>1, <1>7 DEF vars, SwapsTyped, SwapsReplay
<1> QED BY <1>3, <1>4, <1>5, <1>6, <1>7 DEF Next

\* For every file and every binding, the swaps of the plan lead from its first
\* assignment to the heads of the walk, and each takes out the tool that is in.
THEOREM ReplayCorrect == Spec => []SwapsReplay
<1>1. Init => Replay
  BY InitInv DEF Init, Replay, SwapsTyped, SwapsReplay
<1>2. Replay => SwapsReplay
  BY DEF Replay
<1> QED BY <1>1, <1>2, StepReplay, PTL DEF Spec

-----------------------------------------------------------------------------
(* The plan has the fewest swaps: furthest next use (Belady).  First the       *)
(* reference, which is a recursion from the last line to the first: what is    *)
(* shown of a line from the next one holds of all (Downwards).                 *)

\* A set with m that has i whenever it has i + 1 has all of 1..m: induction from
\* the last line of a file, without an operator for a parameter.
LEMMA Downwards ==
    ASSUME NEW m \in Nat, NEW S, m \in S,
           \A i \in 1..(m - 1) : i + 1 \in S => i \in S
    PROVE  1..m \subseteq S
<1> DEFINE Out == {k \in 0..m : m - k \in (1..m) \ S}
<1>1. SUFFICES ASSUME Out # {} PROVE FALSE
  <2>1. ASSUME NEW i \in 1..m, i \notin S PROVE m - i \in Out
    <3>1. m - i \in 0..m /\ m - (m - i) = i
      OBVIOUS
    <3> QED BY <2>1, <3>1
  <2> QED BY <1>1, <2>1
<1>2. PICK k \in Out : \A n \in Out : k <= n
  <2>1. Out \in SUBSET Nat
    OBVIOUS
  <2> HIDE DEF Out
  <2> QED BY <1>1, <2>1, LeastExists
<1>3. k \in Nat /\ m - k \in 1..m /\ m - k \notin S /\ k # 0
  OBVIOUS
<1>4. k - 1 \notin Out
  <2> HIDE DEF Out
  <2> QED BY <1>2, <1>3
<1>5. m - (k - 1) \in S
  BY <1>3, <1>4
<1>6. m - k \in 1..(m - 1) /\ (m - k) + 1 = m - (k - 1)
  BY <1>3
<1> QED BY <1>3, <1>5, <1>6

\* What the planner needs of a file: its lines are numbered.
IsProgram(lines) == Len(lines) \in Nat /\ DOMAIN lines = 1..Len(lines)

\* The recursion of SwapsLeft has a solution.
LEMMA SwapsLeftSolves ==
    ASSUME NEW lines, IsProgram(lines), NEW need
    PROVE  /\ SwapsLeft(lines, need)[Len(lines) + 1] = [C \in Loadable(need) |-> 0]
           /\ \A i \in 1..Len(lines) :
                SwapsLeft(lines, need)[i] = From(lines[i], need, SwapsLeft(lines, need)[i + 1])
<1> DEFINE m == Len(lines) + 1
           E(g, i) == IF i > Len(lines) THEN [C \in Loadable(need) |-> 0]
                      ELSE From(lines[i], need, g[i + 1])
           Solved(i) == \E g : g = [j \in 1..m |-> g[j]] /\ \A j \in i..m : g[j] = E(g, j)
           S == {i \in 1..m : Solved(i)}
<1>1. m \in Nat /\ m \in 1..m /\ Len(lines) \in Nat
  BY DEF IsProgram
<1>2. m \in S
  <2> DEFINE g == [j \in 1..m |-> [C \in Loadable(need) |-> 0]]
  <2>1. g = [j \in 1..m |-> g[j]] /\ \A j \in m..m : g[j] = E(g, j)
    BY <1>1
  <2> QED BY <1>1, <2>1
<1>3. ASSUME NEW i \in 1..(m - 1), i + 1 \in S PROVE i \in S
  <2>1. PICK g : g = [j \in 1..m |-> g[j]] /\ \A j \in (i + 1)..m : g[j] = E(g, j)
    BY <1>3
  <2> DEFINE h == [j \in 1..m |-> IF j = i THEN E(g, i) ELSE g[j]]
  <2>2. ASSUME NEW j \in i..m PROVE h[j] = E(h, j)
    <3>1. CASE j = i
      <4>1. h[i + 1] = g[i + 1] /\ h[i] = E(g, i) /\ i <= Len(lines)
        OBVIOUS
      <4> QED BY <3>1, <4>1
    <3>2. CASE j # i
      <4>1. j \in (i + 1)..m /\ h[j] = g[j] /\ j \in 1..m
        BY <3>2
      <4>2. j <= Len(lines) => j + 1 \in 1..m /\ j + 1 # i
        BY <4>1
      <4>3. j <= Len(lines) => h[j + 1] = g[j + 1]
        BY <4>2
      <4>4. E(h, j) = E(g, j)
        <5> HIDE DEF h
        <5> QED BY <4>3
      <4>5. g[j] = E(g, j)
        BY <2>1, <4>1
      <4> HIDE DEF E, h
      <4> QED BY <4>1, <4>4, <4>5
    <3> QED BY <3>1, <3>2
  <2>3. h = [j \in 1..m |-> h[j]]
    OBVIOUS
  <2> HIDE DEF h, E
  <2> QED BY <2>2, <2>3, <1>1
<1>4. 1 \in S
  <2> HIDE DEF S
  <2> QED BY <1>1, <1>2, <1>3, Downwards
<1>5. PICK g : g = [j \in 1..m |-> g[j]] /\ \A j \in 1..m : g[j] = E(g, j)
  BY <1>4
<1>6. g = [j \in 1..m |-> E(g, j)]
  BY <1>5
<1> DEFINE left == SwapsLeft(lines, need)
<1>7. left = CHOOSE f : f = [j \in 1..m |-> E(f, j)]
  BY DEF SwapsLeft
<1>8. left = [j \in 1..m |-> E(left, j)]
  <2> HIDE DEF E, left
  <2> QED BY <1>6, <1>7
<1>9. left[m] = [C \in Loadable(need) |-> 0]
  <2>1. left[m] = E(left, m) /\ m > Len(lines)
    <3> HIDE DEF E, left
    <3> QED BY <1>1, <1>8
  <2> HIDE DEF left
  <2> QED BY <2>1
<1>10. ASSUME NEW i \in 1..Len(lines) PROVE left[i] = From(lines[i], need, left[i + 1])
  <2>1. left[i] = E(left, i) /\ ~(i > Len(lines))
    <3> HIDE DEF E, left
    <3> QED BY <1>8
  <2> HIDE DEF left
  <2> QED BY <2>1
<1> QED BY <1>9, <1>10
\* The fewest swaps from line i on with the tools C on heads
Left(lines, need, i, C) == SwapsLeft(lines, need)[i][C]

\* There are finitely many tools.
LEMMA ToolsFinite == IsFiniteSet(Tools) /\ NHeads \in Nat \ {0} /\ NTools \in Nat
<1>1. NTools \in Nat /\ NHeads \in Nat \ {0}
  BY SizeAssumption
<1>2. IsFiniteSet(0..(NTools - 1))
  BY <1>1, FS_Interval
<1> QED BY <1>1, <1>2 DEF Tools

\* What may be on the heads is a finite set, and what may be added or exchanged.
LEMMA LoadableSets ==
    ASSUME NEW need \in SUBSET Tools, NEW C \in Loadable(need)
    PROVE  /\ IsFiniteSet(C) /\ Cardinality(C) \in Nat /\ Cardinality(C) <= NHeads
           /\ C \subseteq need
           /\ \A D \in SUBSET C : D \in Loadable(need)
           /\ \A x \in need \ C :
                /\ Cardinality(C \cup {x}) = Cardinality(C) + 1
                /\ Cardinality(C) < NHeads => C \cup {x} \in Loadable(need)
                /\ \A t \in C : /\ (C \ {t}) \cup {x} \in Loadable(need)
                                /\ Cardinality((C \ {t}) \cup {x}) = Cardinality(C)
<1>1. C \subseteq need /\ C \subseteq Tools /\ Cardinality(C) <= NHeads
  BY DEF Loadable
<1>2. IsFiniteSet(C) /\ Cardinality(C) \in Nat /\ NHeads \in Nat
  BY <1>1, ToolsFinite, FS_Subset, FS_CardinalityType
<1>3. ASSUME NEW D \in SUBSET C PROVE D \in Loadable(need)
  <2>1. Cardinality(D) <= Cardinality(C) /\ Cardinality(D) \in Nat
    BY <1>2, FS_Subset, FS_CardinalityType
  <2> QED BY <1>1, <1>2, <2>1 DEF Loadable
<1>4. ASSUME NEW x \in need \ C
      PROVE  /\ Cardinality(C \cup {x}) = Cardinality(C) + 1
             /\ Cardinality(C) < NHeads => C \cup {x} \in Loadable(need)
  <2>1. Cardinality(C \cup {x}) = Cardinality(C) + 1
    BY <1>2, FS_AddElement
  <2>2. C \cup {x} \in SUBSET need
    BY <1>1
  <2> QED BY <1>2, <2>1, <2>2 DEF Loadable
<1>5. ASSUME NEW x \in need \ C, NEW t \in C
      PROVE  /\ (C \ {t}) \cup {x} \in Loadable(need)
             /\ Cardinality((C \ {t}) \cup {x}) = Cardinality(C)
  <2>1. IsFiniteSet(C \ {t}) /\ Cardinality(C \ {t}) = Cardinality(C) - 1
    BY <1>2, FS_RemoveElement
  <2>2. Cardinality((C \ {t}) \cup {x}) = Cardinality(C) - 1 + 1
    BY <2>1, FS_AddElement
  <2>3. (C \ {t}) \cup {x} \in SUBSET need
    BY <1>1
  <2> QED BY <1>1, <1>2, <2>2, <2>3 DEF Loadable
<1> QED BY <1>1, <1>2, <1>3, <1>4, <1>5

\* Nothing is left after the last line.
LEMMA SwapsLeftEnds ==
    ASSUME NEW lines, IsProgram(lines), NEW need, NEW C \in Loadable(need)
    PROVE  Left(lines, need, Len(lines) + 1, C) = 0
<1>1. SwapsLeft(lines, need)[Len(lines) + 1] = [D \in Loadable(need) |-> 0]
  BY SwapsLeftSolves, Zenon
<1> QED BY <1>1 DEF Left

\* The recursion, one line at a time.
LEMMA SwapsLeftUnfolds ==
    ASSUME NEW lines, IsProgram(lines), NEW need, NEW i \in 1..Len(lines)
    PROVE  SwapsLeft(lines, need)[i] = From(lines[i], need, SwapsLeft(lines, need)[i + 1])
<1>1. \A j \in 1..Len(lines) :
        SwapsLeft(lines, need)[j] = From(lines[j], need, SwapsLeft(lines, need)[j + 1])
  BY SwapsLeftSolves, Zenon
<1> QED BY <1>1, Zenon

\* What the reference minimises has a minimum.
LEMMA LeastIn ==
    ASSUME NEW S \in SUBSET Nat, S # {}
    PROVE  Least(S) \in S /\ \A n \in S : Least(S) <= n
BY LeastExists DEF Least

\* One line of the reference: on full heads the best of them is taken.
LEMMA LeftUnfolds ==
    ASSUME NEW lines, IsProgram(lines), NEW need \in SUBSET Tools,
           NEW i \in 1..Len(lines), NEW C \in Loadable(need),
           \A D \in Loadable(need) : Left(lines, need, i + 1, D) \in Nat
    PROVE  /\ Left(lines, need, i, C) \in Nat
           /\ (\A x \in need \ C : i \notin Uses(lines, x)) =>
                Left(lines, need, i, C) = Left(lines, need, i + 1, C)
           /\ \A x \in need \ C : i \in Uses(lines, x) =>
                /\ Cardinality(C) < NHeads =>
                     Left(lines, need, i, C) = 1 + Left(lines, need, i + 1, C \cup {x})
                /\ Cardinality(C) = NHeads =>
                     /\ \E t \in C : Left(lines, need, i, C)
                          = 1 + Left(lines, need, i + 1, (C \ {t}) \cup {x})
                     /\ \A t \in C : Left(lines, need, i, C)
                          <= 1 + Left(lines, need, i + 1, (C \ {t}) \cup {x})
<1> DEFINE now == SwapsLeft(lines, need)[i]
           later == SwapsLeft(lines, need)[i + 1]
<1>1. now = From(lines[i], need, later)
  BY SwapsLeftUnfolds, Zenon
<1>2. \A x : i \in Uses(lines, x) <=> lines[i].op = "T" /\ lines[i].n = x
  BY DEF Uses, IsProgram
<1>3. \A D \in Loadable(need) : later[D] \in Nat
  BY DEF Left
<1>a. /\ Left(lines, need, i, C) = now[C]
      /\ \A D : Left(lines, need, i + 1, D) = later[D]
  BY DEF Left
<1> HIDE DEF now, later
<1>4. now[C] =
        IF ~(lines[i].op = "T" /\ lines[i].n \in need \ C) THEN later[C]
        ELSE IF Cardinality(C) < NHeads THEN 1 + later[C \cup {lines[i].n}]
        ELSE 1 + Least({later[(C \ {t}) \cup {lines[i].n}] : t \in C})
  BY <1>1 DEF From
<1>5. (\A x \in need \ C : i \notin Uses(lines, x)) => now[C] = later[C]
  BY <1>2, <1>4
<1>6. ASSUME NEW x \in need \ C, i \in Uses(lines, x), Cardinality(C) < NHeads
      PROVE  now[C] = 1 + later[C \cup {x}] /\ now[C] \in Nat
  <2>1. C \cup {x} \in Loadable(need)
    BY <1>6, LoadableSets
  <2>2. lines[i].op = "T" /\ lines[i].n = x
    BY <1>2, <1>6
  <2>3. now[C] = 1 + later[C \cup {x}]
    BY <1>4, <1>6, <2>2
  <2> QED BY <1>3, <2>1, <2>3
<1>7. ASSUME NEW x \in need \ C, i \in Uses(lines, x), Cardinality(C) = NHeads
      PROVE  /\ now[C] \in Nat
             /\ \E t \in C : now[C] = 1 + later[(C \ {t}) \cup {x}]
             /\ \A t \in C : now[C] <= 1 + later[(C \ {t}) \cup {x}]
  <2> DEFINE G(t) == later[(C \ {t}) \cup {x}]
             W == {G(t) : t \in C}
  <2>1. lines[i].op = "T" /\ lines[i].n = x
    BY <1>2, <1>7
  <2>2. ~(Cardinality(C) < NHeads)
    BY <1>7, ToolsFinite
  <2>3. now[C] = 1 + Least(W)
    BY <1>4, <2>1, <2>2
  <2>4. C # {}
    <3>1. NHeads # 0
      BY ToolsFinite
    <3> QED BY <1>7, <3>1, FS_EmptySet
  <2>5. \A t \in C : (C \ {t}) \cup {x} \in Loadable(need)
    BY LoadableSets
  <2>6. \A t \in C : G(t) \in Nat
    BY <1>3, <2>5
  <2> HIDE DEF G
  <2>7. W \in SUBSET Nat /\ W # {}
    BY <2>4, <2>6
  <2>8. Least(W) \in W /\ \A n \in W : Least(W) <= n
    <3> HIDE DEF W
    <3> QED BY <2>7, LeastIn
  <2>9. /\ Least(W) \in Nat /\ \E t \in C : Least(W) = G(t)
        /\ \A t \in C : Least(W) <= G(t)
    BY <2>7, <2>8
  <2> HIDE DEF W
  <2>10. /\ now[C] \in Nat
         /\ \E t \in C : now[C] = 1 + G(t)
         /\ \A t \in C : now[C] <= 1 + G(t)
    BY <2>3, <2>6, <2>9
  <2> QED BY <2>10 DEF G
<1>8. now[C] \in Nat
  <2>1. Cardinality(C) < NHeads \/ Cardinality(C) = NHeads
    BY LoadableSets, ToolsFinite
  <2> QED BY <1>3, <1>5, <1>6, <1>7, <2>1
<1> QED BY <1>a, <1>5, <1>6, <1>7, <1>8

\* The reference counts swaps.
LEMMA LeftTyped ==
    ASSUME NEW lines, IsProgram(lines), NEW need \in SUBSET Tools
    PROVE  \A i \in 1..(Len(lines) + 1) : \A C \in Loadable(need) :
             Left(lines, need, i, C) \in Nat
<1> DEFINE Typed(i) == \A C \in Loadable(need) : Left(lines, need, i, C) \in Nat
           m == Len(lines) + 1
           S == {i \in 1..m : Typed(i)}
<1>1. Len(lines) \in Nat /\ m \in Nat /\ m \in 1..m
  BY DEF IsProgram
<1>2. Typed(m)
  BY SwapsLeftEnds
<1>3. ASSUME NEW i \in 1..(m - 1), Typed(i + 1) PROVE Typed(i)
  <2>1. i \in 1..Len(lines)
    BY <1>1
  <2> SUFFICES ASSUME NEW C \in Loadable(need) PROVE Left(lines, need, i, C) \in Nat
    OBVIOUS
  <2> QED BY <1>3, <2>1, LeftUnfolds
<1> HIDE DEF Typed
<1>4. m \in S /\ \A i \in 1..(m - 1) : i + 1 \in S => i \in S
  BY <1>1, <1>2, <1>3
<1>5. 1..m \subseteq S
  <2> HIDE DEF S, m
  <2> QED BY <1>1, <1>4, Downwards
<1>6. \A i \in 1..m : Typed(i)
  BY <1>5
<1> QED BY <1>6 DEF Typed

\* F and G say what is left from a line that changes to x on, and after it.
Serves(need, x, F, G) ==
    \A C \in Loadable(need) :
        /\ x \in C => F[C] = G[C]
        /\ x \notin C =>
             /\ Cardinality(C) < NHeads => F[C] = 1 + G[C \cup {x}]
             /\ Cardinality(C) = NHeads =>
                  /\ \E t \in C : F[C] = 1 + G[(C \ {t}) \cup {x}]
                  /\ \A t \in C : F[C] <= 1 + G[(C \ {t}) \cup {x}]

\* One more tool on the heads saves a swap at most, and costs none.
Helps(need, F) ==
    \A X \in SUBSET need, a \in need :
        a \notin X /\ X \cup {a} \in Loadable(need) =>
            F[X \cup {a}] <= F[X] /\ F[X] <= 1 + F[X \cup {a}]

\* It is no worse to have a than b.
Prefers(need, a, b, F) ==
    \A X \in SUBSET need :
        /\ a \notin X /\ b \notin X
        /\ X \cup {a} \in Loadable(need) /\ X \cup {b} \in Loadable(need)
        => F[X \cup {a}] <= F[X \cup {b}]

\* What one line of the reference may be
Rows(need) == [Loadable(need) -> Nat]

\* To have one tool instead of another saves a swap at most.
LEMMA Exchanges ==
    ASSUME NEW need \in SUBSET Tools, NEW G \in Rows(need), Helps(need, G),
           NEW X \in SUBSET need, NEW a \in need \ X, NEW b \in need \ X,
           X \cup {a} \in Loadable(need), X \cup {b} \in Loadable(need)
    PROVE  G[X \cup {b}] <= 1 + G[X \cup {a}]
<1>1. X \in Loadable(need)
  BY LoadableSets
<1>2. G[X] \in Nat /\ G[X \cup {a}] \in Nat /\ G[X \cup {b}] \in Nat
  BY <1>1 DEF Rows
<1>3. G[X \cup {b}] <= G[X] /\ G[X] <= 1 + G[X \cup {a}]
  BY DEF Helps
<1> QED BY <1>2, <1>3

\* Heads are full, or one is free.
LEMMA Sizes ==
    ASSUME NEW need \in SUBSET Tools, NEW C \in Loadable(need)
    PROVE  Cardinality(C) < NHeads \/ Cardinality(C) = NHeads
BY LoadableSets, ToolsFinite

\* What one more tool is worth, carried over a line.
LEMMA HelpsBefore ==
    ASSUME NEW need \in SUBSET Tools, NEW F \in Rows(need), NEW G \in Rows(need),
           NEW x \in need, Serves(need, x, F, G), Helps(need, G)
    PROVE  Helps(need, F)
<1> SUFFICES ASSUME NEW X \in SUBSET need, NEW a \in need \ X, X \cup {a} \in Loadable(need)
             PROVE  F[X \cup {a}] <= F[X] /\ F[X] <= 1 + F[X \cup {a}]
  BY DEF Helps
<1> DEFINE D == X \cup {a}
<1>1. D \in Loadable(need) /\ X \in Loadable(need) /\ Cardinality(D) = Cardinality(X) + 1
      /\ Cardinality(X) \in Nat /\ Cardinality(D) <= NHeads /\ NHeads \in Nat
      /\ Cardinality(X) < NHeads
  <2>1. D \in Loadable(need)
    OBVIOUS
  <2>2. X \in Loadable(need)
    BY <2>1, LoadableSets
  <2>3. Cardinality(D) = Cardinality(X) + 1 /\ Cardinality(X) \in Nat
    BY <2>2, LoadableSets
  <2>4. Cardinality(D) <= NHeads /\ NHeads \in Nat
    BY <2>1, LoadableSets, ToolsFinite
  <2> QED BY <2>1, <2>2, <2>3, <2>4
<1>2. \A C \in Loadable(need) : F[C] \in Nat /\ G[C] \in Nat
  BY DEF Rows
<1>3. CASE x \in X
  <2>1. F[X] = G[X] /\ F[D] = G[D]
    BY <1>1, <1>3 DEF Serves
  <2>2. G[D] <= G[X] /\ G[X] <= 1 + G[D]
    BY DEF Helps
  <2> QED BY <2>1, <2>2
<1>4. CASE x = a
  <2>1. F[D] = G[D] /\ F[X] = 1 + G[D]
    BY <1>1, <1>4 DEF Serves
  <2> QED BY <1>1, <1>2, <2>1
<1>5. CASE x \notin D
  <2> DEFINE Y == X \cup {x}
  <2>1. Y \in Loadable(need) /\ Y \in SUBSET need /\ F[X] = 1 + G[Y]
    <3>1. Y \in Loadable(need)
      BY <1>1, <1>5, LoadableSets
    <3> QED BY <1>1, <1>5, <3>1 DEF Serves
  <2>2. CASE Cardinality(D) < NHeads
    <3>1. Y \cup {a} \in Loadable(need) /\ D \cup {x} = Y \cup {a}
      <4>1. D \cup {x} \in Loadable(need)
        BY <1>1, <1>5, <2>2, LoadableSets
      <4>2. D \cup {x} = Y \cup {a}
        OBVIOUS
      <4> QED BY <4>1, <4>2
    <3>2. F[D] = 1 + G[Y \cup {a}]
      BY <1>1, <1>5, <2>2, <3>1 DEF Serves
    <3>3. a \notin Y
      BY <1>5
    <3>4. G[Y \cup {a}] <= G[Y] /\ G[Y] <= 1 + G[Y \cup {a}]
      <4> HIDE DEF Y
      <4> QED BY <2>1, <3>1, <3>3 DEF Helps
    <3> HIDE DEF Y, D
    <3> QED BY <1>2, <2>1, <3>1, <3>2, <3>4 DEF D
  <2>3. CASE Cardinality(D) = NHeads
    <3>1. F[D] <= F[X]
      <4>1. F[D] <= 1 + G[(D \ {a}) \cup {x}]
        BY <1>1, <1>5, <2>3 DEF Serves
      <4>2. (D \ {a}) \cup {x} = Y
        OBVIOUS
      <4> QED BY <2>1, <4>1, <4>2
    <3>2. PICK t \in D : F[D] = 1 + G[(D \ {t}) \cup {x}]
      BY <1>1, <1>5, <2>3 DEF Serves
    <3>3. CASE t = a
      <4>1. (D \ {t}) \cup {x} = Y
        BY <3>3
      <4>2. F[D] = F[X]
        BY <2>1, <3>2, <4>1
      <4> QED BY <1>1, <1>2, <4>2
    <3>4. CASE t \in X
      <4> DEFINE Z == (X \ {t}) \cup {x}
      <4>1. /\ (D \ {t}) \cup {x} = Z \cup {a} /\ Y = Z \cup {t}
            /\ a \in need \ Z /\ t \in need \ Z /\ Z \in SUBSET need
        BY <1>5, <3>4
      <4>2. Z \cup {a} \in Loadable(need)
        <5>1. (D \ {t}) \cup {x} \in Loadable(need)
          BY <1>1, <1>5, LoadableSets
        <5> QED BY <4>1, <5>1
      <4>3. G[Z \cup {t}] <= 1 + G[Z \cup {a}]
        <5> HIDE DEF Z
        <5>1. Z \cup {t} \in Loadable(need)
          BY <2>1, <4>1
        <5> QED BY <4>1, <4>2, <5>1, Exchanges
      <4>4. F[D] = 1 + G[Z \cup {a}] /\ F[X] = 1 + G[Z \cup {t}]
        BY <2>1, <3>2, <4>1
      <4>5. G[Z \cup {a}] \in Nat /\ G[Z \cup {t}] \in Nat
        BY <1>2, <2>1, <4>1, <4>2
      <4>6. F[X] <= 1 + F[D]
        <5> HIDE DEF Z, D
        <5> QED BY <4>3, <4>4, <4>5
      <4> QED BY <3>1, <4>6
    <3> QED BY <3>3, <3>4
  <2> QED BY <1>1, <2>2, <2>3, Sizes
<1> QED BY <1>3, <1>4, <1>5

\* A preference is carried over a line that does not need b: if it needs a, to
\* have a saves the swap that b may save later.
LEMMA PrefersBefore ==
    ASSUME NEW need \in SUBSET Tools, NEW F \in Rows(need), NEW G \in Rows(need),
           NEW x \in need, Serves(need, x, F, G), Helps(need, G),
           NEW a \in need, NEW b \in need, a # b, x # b,
           x # a => Prefers(need, a, b, G)
    PROVE  Prefers(need, a, b, F)
<1> SUFFICES ASSUME NEW X \in SUBSET need, a \notin X, b \notin X,
                    X \cup {a} \in Loadable(need), X \cup {b} \in Loadable(need)
             PROVE  F[X \cup {a}] <= F[X \cup {b}]
  BY DEF Prefers
<1> DEFINE C == X \cup {a}
           D == X \cup {b}
<1>1. C \in Loadable(need) /\ D \in Loadable(need) /\ X \in Loadable(need)
      /\ Cardinality(C) = Cardinality(D)
  <2>1. C \in Loadable(need) /\ D \in Loadable(need)
    OBVIOUS
  <2>2. X \in Loadable(need)
    BY <2>1, LoadableSets
  <2>3. Cardinality(C) = Cardinality(X) + 1 /\ Cardinality(D) = Cardinality(X) + 1
    BY <2>2, LoadableSets
  <2> QED BY <2>1, <2>2, <2>3
<1>2. \A S \in Loadable(need) : F[S] \in Nat /\ G[S] \in Nat
  BY DEF Rows
<1>3. CASE x \in X
  <2>1. F[C] = G[C] /\ F[D] = G[D] /\ x # a
    BY <1>1, <1>3 DEF Serves
  <2>2. G[C] <= G[D]
    BY <2>1 DEF Prefers
  <2> QED BY <2>1, <2>2
<1>4. CASE x = a
  <2>1. F[C] = G[C] /\ x \notin D
    BY <1>1, <1>4 DEF Serves
  <2>2. CASE Cardinality(D) < NHeads
    <3>1. D \cup {x} = C \cup {b} /\ C \cup {b} \in Loadable(need)
      <4>1. D \cup {x} = C \cup {b}
        BY <1>4
      <4>2. D \cup {x} \in Loadable(need)
        BY <1>1, <2>1, <2>2, LoadableSets
      <4> QED BY <4>1, <4>2
    <3>2. F[D] = 1 + G[C \cup {b}]
      BY <1>1, <2>1, <2>2, <3>1 DEF Serves
    <3>3. C \in SUBSET need /\ b \notin C
      OBVIOUS
    <3>4. G[C] <= 1 + G[C \cup {b}]
      <4> HIDE DEF C
      <4> QED BY <3>1, <3>3 DEF Helps
    <3> QED BY <2>1, <3>2, <3>4
  <2>3. CASE Cardinality(D) = NHeads
    <3>1. PICK t \in D : F[D] = 1 + G[(D \ {t}) \cup {x}]
      BY <1>1, <2>1, <2>3 DEF Serves
    <3>2. CASE t = b
      <4>1. (D \ {t}) \cup {x} = C
        BY <1>4, <3>2
      <4>2. F[D] = 1 + G[C] /\ G[C] \in Nat
        BY <1>1, <1>2, <3>1, <4>1
      <4> QED BY <2>1, <4>2
    <3>3. CASE t \in X
      <4> DEFINE Z == (X \ {t}) \cup {a}
      <4>1. /\ (D \ {t}) \cup {x} = Z \cup {b} /\ C = Z \cup {t}
            /\ b \in need \ Z /\ t \in need \ Z /\ Z \in SUBSET need
        BY <1>4, <3>3
      <4>2. Z \cup {b} \in Loadable(need)
        <5>1. (D \ {t}) \cup {x} \in Loadable(need)
          BY <1>1, <2>1, LoadableSets
        <5> QED BY <4>1, <5>1
      <4>3. G[Z \cup {t}] <= 1 + G[Z \cup {b}]
        <5> HIDE DEF Z
        <5>1. Z \cup {t} \in Loadable(need)
          BY <1>1, <4>1
        <5> QED BY <4>1, <4>2, <5>1, Exchanges
      <4>4. F[D] = 1 + G[Z \cup {b}] /\ F[C] = G[Z \cup {t}]
        BY <2>1, <3>1, <4>1
      <4> HIDE DEF Z, C, D
      <4>5. F[C] <= F[D]
        BY <4>3, <4>4
      <4> QED BY <4>5 DEF C, D
    <3> QED BY <3>2, <3>3
  <2> QED BY <1>1, <2>2, <2>3, Sizes
<1>5. CASE x \notin C \cup D
  <2>1. Prefers(need, a, b, G)
    BY <1>5
  <2>2. CASE Cardinality(D) < NHeads
    <3> DEFINE Y == X \cup {x}
    <3>1. /\ C \cup {x} = Y \cup {a} /\ D \cup {x} = Y \cup {b}
          /\ Y \in SUBSET need /\ a \notin Y /\ b \notin Y
      BY <1>5
    <3>2. C \cup {x} \in Loadable(need) /\ D \cup {x} \in Loadable(need)
      BY <1>1, <1>5, <2>2, LoadableSets
    <3>3. F[C] = 1 + G[C \cup {x}] /\ F[D] = 1 + G[D \cup {x}]
      BY <1>1, <1>5, <2>2 DEF Serves
    <3>4. G[Y \cup {a}] <= G[Y \cup {b}]
      <4> HIDE DEF Y
      <4> QED BY <2>1, <3>1, <3>2 DEF Prefers
    <3>5. G[Y \cup {a}] \in Nat /\ G[Y \cup {b}] \in Nat
      BY <1>2, <3>1, <3>2
    <3> HIDE DEF Y
    <3> QED BY <3>1, <3>3, <3>4, <3>5
  <2>3. CASE Cardinality(D) = NHeads
    <3>1. PICK t \in D : F[D] = 1 + G[(D \ {t}) \cup {x}]
      BY <1>1, <1>5, <2>3 DEF Serves
    <3>2. \A u \in C : F[C] <= 1 + G[(C \ {u}) \cup {x}]
      BY <1>1, <1>5, <2>3 DEF Serves
    <3>3. CASE t = b
      <4>1. (D \ {t}) \cup {x} = (C \ {a}) \cup {x}
        BY <3>3
      <4>2. F[C] <= 1 + G[(C \ {a}) \cup {x}]
        BY <3>2
      <4> QED BY <3>1, <4>1, <4>2
    <3>4. CASE t \in X
      <4> DEFINE Z == (X \ {t}) \cup {x}
      <4>1. /\ (C \ {t}) \cup {x} = Z \cup {a} /\ (D \ {t}) \cup {x} = Z \cup {b}
            /\ Z \in SUBSET need /\ a \notin Z /\ b \notin Z
        BY <1>5, <3>4
      <4>2. Z \cup {a} \in Loadable(need) /\ Z \cup {b} \in Loadable(need)
        <5>1. (C \ {t}) \cup {x} \in Loadable(need) /\ (D \ {t}) \cup {x} \in Loadable(need)
          <6>1. x \in need \ C /\ x \in need \ D /\ t \in C /\ t \in D
            BY <1>5, <3>4
          <6> HIDE DEF C, D
          <6> QED BY <1>1, <6>1, LoadableSets
        <5> QED BY <4>1, <5>1
      <4>3. G[Z \cup {a}] <= G[Z \cup {b}]
        <5> HIDE DEF Z
        <5> QED BY <2>1, <4>1, <4>2 DEF Prefers
      <4>4. G[Z \cup {a}] \in Nat /\ G[Z \cup {b}] \in Nat
        BY <1>2, <4>2
      <4>5. F[C] <= 1 + G[Z \cup {a}] /\ F[D] = 1 + G[Z \cup {b}]
        BY <3>1, <3>2, <3>4, <4>1
      <4>6. F[C] \in Nat /\ F[D] \in Nat
        BY <1>1, <1>2
      <4> HIDE DEF Z, C, D
      <4>7. F[C] <= F[D]
        BY <4>3, <4>4, <4>5, <4>6
      <4> QED BY <4>7 DEF C, D
    <3> QED BY <3>3, <3>4
  <2> QED BY <1>1, <2>2, <2>3, Sizes
<1> QED BY <1>3, <1>4, <1>5

\* From line i on, a is needed no later than b.
Sooner(lines, i, a, b) ==
    \A k \in Uses(lines, b) : k >= i => \E j \in Uses(lines, a) : i <= j /\ j <= k

\* The reference on line i, as a function of the tools on heads
Row(lines, need, i) == [C \in Loadable(need) |-> Left(lines, need, i, C)]

\* Each row of the reference counts swaps.
LEMMA RowTyped ==
    ASSUME NEW lines, IsProgram(lines), NEW need \in SUBSET Tools,
           NEW i \in 1..(Len(lines) + 1)
    PROVE  Row(lines, need, i) \in Rows(need)
<1>1. \A C \in Loadable(need) : Left(lines, need, i, C) \in Nat
  BY LeftTyped
<1> QED BY <1>1 DEF Row, Rows

\* A row serves its line and hands the rest to the next row.
LEMMA RowServes ==
    ASSUME NEW lines, IsProgram(lines), NEW need \in SUBSET Tools, NEW i \in 1..Len(lines)
    PROVE  /\ (\A x \in need : i \notin Uses(lines, x)) =>
                Row(lines, need, i) = Row(lines, need, i + 1)
           /\ \A x \in need : i \in Uses(lines, x) =>
                Serves(need, x, Row(lines, need, i), Row(lines, need, i + 1))
<1>1. i + 1 \in 1..(Len(lines) + 1)
  BY DEF IsProgram
<1>2. \A D \in Loadable(need) : Left(lines, need, i + 1, D) \in Nat
  BY <1>1, LeftTyped
<1>3. ASSUME NEW C \in Loadable(need)
      PROVE  /\ (\A x \in need \ C : i \notin Uses(lines, x)) =>
                  Left(lines, need, i, C) = Left(lines, need, i + 1, C)
             /\ \A x \in need \ C : i \in Uses(lines, x) =>
                  /\ Cardinality(C) < NHeads =>
                       Left(lines, need, i, C) = 1 + Left(lines, need, i + 1, C \cup {x})
                  /\ Cardinality(C) = NHeads =>
                       /\ \E t \in C : Left(lines, need, i, C)
                            = 1 + Left(lines, need, i + 1, (C \ {t}) \cup {x})
                       /\ \A t \in C : Left(lines, need, i, C)
                            <= 1 + Left(lines, need, i + 1, (C \ {t}) \cup {x})
  <2>1. (\A x \in need \ C : i \notin Uses(lines, x)) =>
          Left(lines, need, i, C) = Left(lines, need, i + 1, C)
    BY <1>2, LeftUnfolds
  <2>2. ASSUME NEW x \in need \ C, i \in Uses(lines, x), Cardinality(C) < NHeads
        PROVE  Left(lines, need, i, C) = 1 + Left(lines, need, i + 1, C \cup {x})
    BY <1>2, <2>2, LeftUnfolds
  <2>3. ASSUME NEW x \in need \ C, i \in Uses(lines, x), Cardinality(C) = NHeads
        PROVE  /\ \E t \in C : Left(lines, need, i, C)
                    = 1 + Left(lines, need, i + 1, (C \ {t}) \cup {x})
               /\ \A t \in C : Left(lines, need, i, C)
                    <= 1 + Left(lines, need, i + 1, (C \ {t}) \cup {x})
    BY <1>2, <2>3, LeftUnfolds
  <2> QED BY <2>1, <2>2, <2>3
<1>4. \A x, y : i \in Uses(lines, x) /\ i \in Uses(lines, y) => x = y
  BY DEF Uses
<1>5. (\A x \in need : i \notin Uses(lines, x)) =>
        Row(lines, need, i) = Row(lines, need, i + 1)
  BY <1>3 DEF Row
<1>6. ASSUME NEW x \in need, i \in Uses(lines, x)
      PROVE  Serves(need, x, Row(lines, need, i), Row(lines, need, i + 1))
  <2> DEFINE F == Row(lines, need, i)
             G == Row(lines, need, i + 1)
  <2> SUFFICES ASSUME NEW C \in Loadable(need)
               PROVE  /\ x \in C => F[C] = G[C]
                      /\ x \notin C =>
                           /\ Cardinality(C) < NHeads => F[C] = 1 + G[C \cup {x}]
                           /\ Cardinality(C) = NHeads =>
                                /\ \E t \in C : F[C] = 1 + G[(C \ {t}) \cup {x}]
                                /\ \A t \in C : F[C] <= 1 + G[(C \ {t}) \cup {x}]
    BY DEF Serves
  <2>0. \A D \in Loadable(need) :
          F[D] = Left(lines, need, i, D) /\ G[D] = Left(lines, need, i + 1, D)
    BY DEF Row
  <2> HIDE DEF F, G
  <2>1. x \in C => F[C] = G[C]
    BY <1>3, <1>4, <1>6, <2>0
  <2>2. ASSUME x \notin C, Cardinality(C) < NHeads PROVE F[C] = 1 + G[C \cup {x}]
    <3>1. C \cup {x} \in Loadable(need)
      BY <2>2, LoadableSets
    <3> QED BY <1>3, <1>6, <2>0, <2>2, <3>1
  <2>3. ASSUME x \notin C, Cardinality(C) = NHeads
        PROVE  /\ \E t \in C : F[C] = 1 + G[(C \ {t}) \cup {x}]
               /\ \A t \in C : F[C] <= 1 + G[(C \ {t}) \cup {x}]
    <3>1. \A t \in C : (C \ {t}) \cup {x} \in Loadable(need)
      BY <2>3, LoadableSets
    <3>2. /\ \E t \in C : Left(lines, need, i, C)
                 = 1 + Left(lines, need, i + 1, (C \ {t}) \cup {x})
          /\ \A t \in C : Left(lines, need, i, C)
                 <= 1 + Left(lines, need, i + 1, (C \ {t}) \cup {x})
      BY <1>3, <1>6, <2>3
    <3> QED BY <2>0, <3>1, <3>2
  <2> QED BY <2>1, <2>2, <2>3
<1> QED BY <1>5, <1>6

\* What has been said of one line holds of a whole program.
LEMMA Exchange ==
    ASSUME NEW lines, IsProgram(lines), NEW need \in SUBSET Tools
    PROVE  \A i \in 1..(Len(lines) + 1) :
             /\ Helps(need, Row(lines, need, i))
             /\ \A a, b \in need : a # b /\ Sooner(lines, i, a, b) =>
                  Prefers(need, a, b, Row(lines, need, i))
<1> DEFINE Good(i) == /\ Helps(need, Row(lines, need, i))
                      /\ \A a, b \in need : a # b /\ Sooner(lines, i, a, b) =>
                           Prefers(need, a, b, Row(lines, need, i))
           m == Len(lines) + 1
           S == {i \in 1..m : Good(i)}
<1>1. Len(lines) \in Nat /\ m \in Nat /\ m \in 1..m
  BY DEF IsProgram
<1>2. Good(m)
  <2>1. \A C \in Loadable(need) : Row(lines, need, m)[C] = 0
    BY SwapsLeftEnds DEF Row
  <2>2. ASSUME NEW X \in SUBSET need, NEW a \in need, X \cup {a} \in Loadable(need)
        PROVE  X \in Loadable(need)
    BY <2>2, LoadableSets
  <2>3. Helps(need, Row(lines, need, m))
    BY <2>1, <2>2 DEF Helps
  <2>4. \A a, b \in need : Prefers(need, a, b, Row(lines, need, m))
    BY <2>1 DEF Prefers
  <2> QED BY <2>3, <2>4
<1>3. ASSUME NEW i \in 1..(m - 1), Good(i + 1) PROVE Good(i)
  <2> DEFINE F == Row(lines, need, i)
             G == Row(lines, need, i + 1)
  <2>1. i \in 1..Len(lines) /\ i \in 1..m /\ i + 1 \in 1..m
    BY <1>1
  <2>2. F \in Rows(need) /\ G \in Rows(need)
    BY <2>1, RowTyped
  <2>3. ASSUME NEW a \in need, NEW b \in need, Sooner(lines, i, a, b), i \notin Uses(lines, a)
        PROVE  Sooner(lines, i + 1, a, b)
    <3> SUFFICES ASSUME NEW k \in Uses(lines, b), k >= i + 1
                 PROVE  \E j \in Uses(lines, a) : i + 1 <= j /\ j <= k
      BY DEF Sooner
    <3>1. k \in Nat /\ i \in Nat /\ \A j \in Uses(lines, a) : j \in Nat
      BY <2>1 DEF Uses, IsProgram
    <3>2. PICK j \in Uses(lines, a) : i <= j /\ j <= k
      BY <2>3, <3>1 DEF Sooner
    <3>3. j # i
      BY <2>3
    <3> QED BY <3>1, <3>2, <3>3
  <2>4. CASE \A x \in need : i \notin Uses(lines, x)
    <3>1. F = G
      BY <2>1, <2>4, RowServes
    <3> HIDE DEF F, G
    <3> QED BY <1>3, <2>3, <2>4, <3>1 DEF F, G
  <2>5. ASSUME NEW x \in need, i \in Uses(lines, x) PROVE Good(i)
    <3>1. Serves(need, x, F, G)
      BY <2>1, <2>5, RowServes
    <3>2. Helps(need, G)
      BY <1>3
    <3>3. Helps(need, F)
      <4> HIDE DEF F, G
      <4> QED BY <2>2, <3>1, <3>2, HelpsBefore
    <3>4. ASSUME NEW a \in need, NEW b \in need, a # b, Sooner(lines, i, a, b)
          PROVE  Prefers(need, a, b, F)
      <4>0. \A y, z : i \in Uses(lines, y) /\ i \in Uses(lines, z) => y = z
        BY DEF Uses
      <4>1. x # b
        <5> SUFFICES ASSUME x = b PROVE FALSE
          OBVIOUS
        <5>1. i \in Uses(lines, b) /\ i >= i
          BY <2>5
        <5>2. PICK j \in Uses(lines, a) : i <= j /\ j <= i
          BY <3>4, <5>1 DEF Sooner
        <5>3. j \in Nat
          BY DEF Uses, IsProgram
        <5>4. j = i
          BY <5>2, <5>3
        <5> QED BY <3>4, <4>0, <5>1, <5>2, <5>4
      <4>2. x # a => Prefers(need, a, b, G)
        <5> SUFFICES ASSUME x # a PROVE Prefers(need, a, b, G)
          OBVIOUS
        <5>1. i \notin Uses(lines, a)
          BY <2>5, <4>0
        <5>2. Sooner(lines, i + 1, a, b)
          BY <2>3, <3>4, <5>1
        <5> QED BY <1>3, <3>4, <5>2
      <4> HIDE DEF F, G
      <4> QED BY <2>2, <3>1, <3>2, <3>4, <4>1, <4>2, PrefersBefore
    <3> QED BY <3>3, <3>4
  <2> QED BY <2>4, <2>5
<1> HIDE DEF Good
<1>4. m \in S /\ \A i \in 1..(m - 1) : i + 1 \in S => i \in S
  BY <1>1, <1>2, <1>3
<1>5. 1..m \subseteq S
  <2> HIDE DEF S, m
  <2> QED BY <1>1, <1>4, Downwards
<1>6. \A i \in 1..m : Good(i)
  BY <1>5
<1> QED BY <1>6 DEF Good

\* To evict the tool that is needed last is the best choice.
LEMMA FurthestIsBest ==
    ASSUME NEW lines, IsProgram(lines), NEW need \in SUBSET Tools, NEW i \in 1..Len(lines),
           NEW C \in Loadable(need), Cardinality(C) = NHeads,
           NEW x \in need \ C, i \in Uses(lines, x),
           NEW t \in C, \A u \in C : u # t => Sooner(lines, i + 1, u, t)
    PROVE  Left(lines, need, i, C) = 1 + Left(lines, need, i + 1, (C \ {t}) \cup {x})
<1> DEFINE F == Row(lines, need, i)
           G == Row(lines, need, i + 1)
<1>1. i + 1 \in 1..(Len(lines) + 1)
  BY DEF IsProgram
<1>2. Serves(need, x, F, G)
  BY RowServes
<1>3. \A S \in Loadable(need) : F[S] = Left(lines, need, i, S)
                                /\ G[S] = Left(lines, need, i + 1, S) /\ G[S] \in Nat
  BY <1>1, LeftTyped DEF Row
<1>4. \A u \in C : u # t => Prefers(need, u, t, G)
  <2>1. C \subseteq need
    BY LoadableSets
  <2> QED BY <1>1, <2>1, Exchange
<1> HIDE DEF F, G
<1>5. PICK u \in C : F[C] = 1 + G[(C \ {u}) \cup {x}]
  BY <1>2 DEF Serves
<1>6. F[C] <= 1 + G[(C \ {t}) \cup {x}]
  BY <1>2 DEF Serves
<1>7. (C \ {u}) \cup {x} \in Loadable(need) /\ (C \ {t}) \cup {x} \in Loadable(need)
  BY LoadableSets
<1>8. G[(C \ {t}) \cup {x}] <= G[(C \ {u}) \cup {x}]
  <2>1. CASE u = t
    BY <1>3, <1>7, <2>1
  <2>2. CASE u # t
    <3> DEFINE X == (C \ {u, t}) \cup {x}
    <3>1. /\ (C \ {t}) \cup {x} = X \cup {u} /\ (C \ {u}) \cup {x} = X \cup {t}
          /\ u \notin X /\ t \notin X
      BY <2>2
    <3>2. X \in SUBSET need
      BY LoadableSets
    <3> HIDE DEF X
    <3>3. Prefers(need, u, t, G)
      BY <1>4, <2>2
    <3>4. G[X \cup {u}] <= G[X \cup {t}]
      BY <1>7, <3>1, <3>2, <3>3 DEF Prefers
    <3> QED BY <3>1, <3>4
  <2> QED BY <2>1, <2>2
<1>9. F[C] = 1 + G[(C \ {t}) \cup {x}]
  BY <1>3, <1>5, <1>6, <1>7, <1>8
<1> QED BY <1>3, <1>7, <1>9

\* To begin with the tools that are needed first is the best choice.
LEMMA FirstIsBest ==
    ASSUME NEW lines, IsProgram(lines), NEW need \in SUBSET Tools,
           NEW C \in Loadable(need), Cardinality(C) = NHeads \/ C = need,
           \A a \in C, b \in need \ C : Sooner(lines, 1, a, b)
    PROVE  \A D \in Loadable(need) : Left(lines, need, 1, C) <= Left(lines, need, 1, D)
<1> DEFINE F == Row(lines, need, 1)
           Better == {D \in Loadable(need) : F[D] < F[C]}
           Far == {Cardinality(C \ D) : D \in Better}
<1>1. 1 \in 1..(Len(lines) + 1)
  BY DEF IsProgram
<1>2. \A D \in Loadable(need) : F[D] = Left(lines, need, 1, D) /\ F[D] \in Nat
  BY <1>1, LeftTyped DEF Row
<1>3. Helps(need, F) /\ \A a \in C, b \in need \ C : Prefers(need, a, b, F)
  <2>1. C \subseteq need
    BY LoadableSets
  <2> QED BY <1>1, <2>1, Exchange
<1> HIDE DEF F
<1>4. SUFFICES ASSUME Better # {} PROVE FALSE
  BY <1>2
<1>5. IsFiniteSet(C) /\ C \subseteq need /\ \A D : IsFiniteSet(C \ D) /\ Cardinality(C \ D) \in Nat
  <2>1. IsFiniteSet(C) /\ C \subseteq need
    BY LoadableSets
  <2>2. ASSUME NEW D PROVE IsFiniteSet(C \ D) /\ Cardinality(C \ D) \in Nat
    <3>1. C \ D \in SUBSET C
      OBVIOUS
    <3> QED BY <2>1, <3>1, FS_Subset, FS_CardinalityType
  <2> QED BY <2>1, <2>2
<1>6. PICK D \in Better : \A E \in Better : Cardinality(C \ D) <= Cardinality(C \ E)
  <2>1. Far \in SUBSET Nat /\ Far # {}
    BY <1>4, <1>5
  <2>2. PICK n \in Far : \A k \in Far : n <= k
    <3> HIDE DEF Far
    <3> QED BY <2>1, LeastExists
  <2> QED BY <2>2
<1>7. /\ D \in Loadable(need) /\ F[D] < F[C] /\ D # C
      /\ IsFiniteSet(D) /\ D \subseteq need /\ Cardinality(D) \in Nat /\ NHeads \in Nat
      /\ Cardinality(D) <= NHeads /\ Cardinality(C) <= NHeads /\ Cardinality(C) \in Nat
  BY <1>2, <1>6, LoadableSets, ToolsFinite
<1>8. PICK a \in C : a \notin D
  <2> SUFFICES ASSUME C \subseteq D PROVE FALSE
    OBVIOUS
  <2>1. CASE C = need
    BY <1>7, <2>1
  <2>2. CASE Cardinality(C) = NHeads
    <3>1. Cardinality(C) <= Cardinality(D)
      BY <1>7, FS_Subset
    <3>2. Cardinality(C) = Cardinality(D)
      BY <1>7, <2>2, <3>1
    <3> QED BY <1>7, <3>2, FS_Subset
  <2> QED BY <2>1, <2>2
<1>9. ASSUME NEW E \in Loadable(need), C \ E = (C \ D) \ {a} PROVE F[D] < F[E]
  <2>1. Cardinality(C \ E) = Cardinality(C \ D) - 1
    <3> DEFINE Q == C \ D
    <3>1. IsFiniteSet(Q) /\ a \in Q /\ C \ E = Q \ {a}
      BY <1>5, <1>8, <1>9
    <3> HIDE DEF Q
    <3>2. Cardinality(Q \ {a}) = Cardinality(Q) - 1
      BY <3>1, FS_RemoveElement
    <3> QED BY <3>1, <3>2 DEF Q
  <2>2. E \notin Better
    <3> SUFFICES ASSUME E \in Better PROVE FALSE
      OBVIOUS
    <3>1. Cardinality(C \ D) <= Cardinality(C \ E)
      BY <1>6
    <3>2. Cardinality(C \ D) \in Nat
      BY <1>5
    <3> QED BY <2>1, <3>1, <3>2
  <2>3. ~(F[E] < F[C])
    BY <2>2
  <2>4. F[E] \in Nat /\ F[C] \in Nat /\ F[D] \in Nat
    BY <1>2, <1>7
  <2> QED BY <1>7, <2>3, <2>4
<1>10. CASE Cardinality(D) < NHeads
  <2>1. D \cup {a} \in Loadable(need)
    BY <1>5, <1>7, <1>8, <1>10, LoadableSets
  <2>2. F[D \cup {a}] <= F[D]
    BY <1>3, <1>5, <1>7, <1>8, <2>1 DEF Helps
  <2>3. C \ (D \cup {a}) = (C \ D) \ {a}
    OBVIOUS
  <2>4. F[D] < F[D \cup {a}]
    BY <1>9, <2>1, <2>3
  <2> QED BY <1>2, <1>7, <2>1, <2>2, <2>4
<1>11. CASE Cardinality(D) = NHeads
  <2>1. PICK b \in D : b \notin C
    <3> SUFFICES ASSUME D \subseteq C PROVE FALSE
      OBVIOUS
    <3>1. Cardinality(D) <= Cardinality(C)
      BY <1>5, FS_Subset
    <3>2. Cardinality(D) = Cardinality(C)
      BY <1>7, <1>11, <3>1
    <3> QED BY <1>5, <1>7, <3>2, FS_Subset
  <2> DEFINE X == D \ {b}
             E == X \cup {a}
  <2>2. X \cup {b} = D /\ a \notin X /\ b \notin X /\ X \in SUBSET need
    BY <1>7, <1>8, <2>1
  <2>3. E \in Loadable(need)
    BY <1>5, <1>7, <1>8, <2>1, LoadableSets
  <2>4. Prefers(need, a, b, F)
    BY <1>3, <1>7, <1>8, <2>1
  <2>5. F[E] <= F[D]
    <3> HIDE DEF X
    <3> QED BY <1>7, <2>2, <2>3, <2>4 DEF Prefers
  <2>6. C \ E = (C \ D) \ {a}
    BY <1>8, <2>1
  <2>7. F[D] < F[E]
    <3> HIDE DEF E
    <3> QED BY <1>9, <2>3, <2>6
  <2> HIDE DEF E
  <2> QED BY <1>2, <1>7, <2>3, <2>5, <2>7
<1> QED BY <1>7, <1>10, <1>11

\* A first assignment no other one beats gives the fewest swaps.
LEMMA FewestIs ==
    ASSUME NEW lines, IsProgram(lines), NEW tab,
           NEW C \in Loadable(Appearing(lines, tab)),
           \A D \in Loadable(Appearing(lines, tab)) :
             Left(lines, Appearing(lines, tab), 1, C) <= Left(lines, Appearing(lines, tab), 1, D)
    PROVE  Fewest(lines, tab) = Left(lines, Appearing(lines, tab), 1, C)
<1> DEFINE need == Appearing(lines, tab)
           G(D) == Left(lines, need, 1, D)
           W == {G(D) : D \in Loadable(need)}
<1>1. need \in SUBSET Tools /\ 1 \in 1..(Len(lines) + 1)
  BY DEF Appearing, IsProgram
<1>2. \A D \in Loadable(need) : G(D) \in Nat
  BY <1>1, LeftTyped
<1>3. Fewest(lines, tab) = Least(W)
  BY DEF Fewest, Left
<1>4. C \in Loadable(need) /\ \A D \in Loadable(need) : G(C) <= G(D)
  OBVIOUS
<1> HIDE DEF G, need
<1>5. W \in SUBSET Nat /\ G(C) \in W /\ \A n \in W : G(C) <= n
  BY <1>2, <1>4
<1>6. Least(W) \in W /\ \A n \in W : Least(W) <= n
  <2> HIDE DEF W
  <2> QED BY <1>5, LeastIn
<1>7. Least(W) = G(C)
  <2> HIDE DEF W
  <2>1. Least(W) <= G(C) /\ G(C) <= Least(W) /\ Least(W) \in Nat /\ G(C) \in Nat
    BY <1>5, <1>6
  <2> QED BY <2>1
<1> QED BY <1>3, <1>7 DEF G, need

-----------------------------------------------------------------------------
(* The walk makes the best choices: the first assignment, the evictions. *)

\* The next use of t is the first one after line i, or past the end.
LEMMA NextUseIn ==
    ASSUME NEW lines, IsProgram(lines), NEW i \in Nat, NEW t
    PROVE  /\ \/ NextUse(lines, i, t) \in Uses(lines, t) /\ NextUse(lines, i, t) > i
              \/ NextUse(lines, i, t) = Len(lines) + 1
           /\ NextUse(lines, i, t) \in Nat
           /\ \A u \in Uses(lines, t) : u > i => NextUse(lines, i, t) <= u
<1> DEFINE L == {u \in Uses(lines, t) : u > i}
           Choice(j) == \A k \in L : j <= k
<1>1. Len(lines) \in Nat /\ \A u \in Uses(lines, t) : u \in 1..Len(lines)
  BY DEF Uses, IsProgram
<1>2. \E j \in L \cup {Len(lines) + 1} : Choice(j)
  <2>1. CASE L = {}
    BY <2>1
  <2>2. CASE L # {}
    <3>1. L \in SUBSET Nat
      BY <1>1
    <3>2. PICK j \in L : \A k \in L : j <= k
      <4> HIDE DEF L
      <4> QED BY <2>2, <3>1, LeastExists
    <3> QED BY <3>2
  <2> QED BY <2>1, <2>2
<1>3. NextUse(lines, i, t) = CHOOSE j \in L \cup {Len(lines) + 1} : Choice(j)
  BY DEF NextUse
<1>4. NextUse(lines, i, t) \in L \cup {Len(lines) + 1} /\ Choice(NextUse(lines, i, t))
  <2> HIDE DEF L, Choice
  <2> QED BY <1>2, <1>3
<1> QED BY <1>1, <1>4

\* Of two tools, the one with the nearer next use is needed sooner.
LEMMA NearerIsSooner ==
    ASSUME NEW lines, IsProgram(lines), NEW i \in Nat, NEW t, NEW u,
           NextUse(lines, i, u) <= NextUse(lines, i, t)
    PROVE  Sooner(lines, i + 1, u, t)
<1> SUFFICES ASSUME NEW k \in Uses(lines, t), k >= i + 1
             PROVE  \E j \in Uses(lines, u) : i + 1 <= j /\ j <= k
  BY DEF Sooner
<1>1. k \in Nat /\ k <= Len(lines) /\ Len(lines) \in Nat /\ k > i
  BY DEF Uses, IsProgram
<1>2. NextUse(lines, i, t) <= k /\ NextUse(lines, i, t) \in Nat /\ NextUse(lines, i, u) \in Nat
  BY <1>1, NextUseIn
<1>3. NextUse(lines, i, u) <= k
  BY <1>1, <1>2
<1>4. NextUse(lines, i, u) # Len(lines) + 1
  BY <1>1, <1>2, <1>3
<1>5. NextUse(lines, i, u) \in Uses(lines, u) /\ NextUse(lines, i, u) > i
  BY <1>4, NextUseIn
<1> QED BY <1>2, <1>3, <1>5

\* The tools on the heads
Held(heads) == {heads[h] : h \in Heads} \ {None}

\* A tool is held if some head has it.
LEMMA HeldIn ==
    ASSUME NEW heads, NEW t
    PROVE  t \in Held(heads) <=> t # None /\ \E h \in Heads : heads[h] = t
BY DEF Held

\* There are as many as heads at most, and as many if no head is free.
LEMMA HeldSize ==
    ASSUME NEW heads \in [Heads -> Tools \cup {None}],
           \A g, h \in Heads : heads[g] = heads[h] /\ heads[g] # None => g = h,
           NEW need \in SUBSET Tools, Held(heads) \subseteq need
    PROVE  /\ Held(heads) \in Loadable(need)
           /\ (\A h \in Heads : heads[h] # None) => Cardinality(Held(heads)) = NHeads
<1> DEFINE Full == {h \in Heads : heads[h] # None}
           f == [h \in Full |-> heads[h]]
<1>1. IsFiniteSet(Heads) /\ Cardinality(Heads) = NHeads /\ NHeads \in Nat \ {0}
  <2>1. NHeads \in Nat \ {0}
    BY SizeAssumption
  <2>2. IsFiniteSet(0..(NHeads - 1)) /\ Cardinality(0..(NHeads - 1)) = NHeads
    BY <2>1, FS_Interval
  <2> QED BY <2>1, <2>2 DEF Heads
<1>2. Full \in SUBSET Heads
  OBVIOUS
<1>3. IsFiniteSet(Full) /\ Cardinality(Full) <= NHeads
  <2> HIDE DEF Full
  <2> QED BY <1>1, <1>2, FS_Subset
<1>4. f \in Bijection(Full, Held(heads))
  <2>1. f \in [Full -> Held(heads)]
    BY HeldIn
  <2>2. \A g, h \in Full : f[g] = f[h] => g = h
    OBVIOUS
  <2>3. \A t \in Held(heads) : \E h \in Full : f[h] = t
    BY HeldIn
  <2> HIDE DEF f, Full
  <2> QED BY <2>1, <2>2, <2>3, Fun_IsBij
<1>5. ExistsBijection(Full, Held(heads))
  <2> HIDE DEF f, Full
  <2> QED BY <1>4 DEF ExistsBijection
<1>6. IsFiniteSet(Held(heads)) /\ Cardinality(Held(heads)) = Cardinality(Full)
  <2> HIDE DEF Full
  <2> QED BY <1>3, <1>5, FS_Bijection
<1>7. Held(heads) \in Loadable(need)
  <2> HIDE DEF Full
  <2> QED BY <1>3, <1>6 DEF Loadable
<1>8. (\A h \in Heads : heads[h] # None) => Full = Heads
  OBVIOUS
<1> HIDE DEF Full
<1> QED BY <1>1, <1>6, <1>7, <1>8

\* The first use of a tool that is used.
LEMMA FirstUseIn ==
    ASSUME NEW lines, IsProgram(lines), NEW t, Uses(lines, t) # {}
    PROVE  /\ FirstUse(lines, t) \in Uses(lines, t) /\ FirstUse(lines, t) \in Nat
           /\ FirstUse(lines, t) >= 1
           /\ \A u \in Uses(lines, t) : FirstUse(lines, t) <= u
<1>1. Uses(lines, t) \in SUBSET Nat /\ \A u \in Uses(lines, t) : u >= 1
  BY DEF Uses, IsProgram
<1>2. PICK i \in Uses(lines, t) : \A j \in Uses(lines, t) : i <= j
  BY <1>1, LeastExists
<1>3. FirstUse(lines, t) \in Uses(lines, t) /\ \A u \in Uses(lines, t) : FirstUse(lines, t) <= u
  BY <1>2 DEF FirstUse
<1> QED BY <1>1, <1>3

\* The tools that are needed before t
Earlier(lines, tab, t) ==
    {u \in Appearing(lines, tab) : FirstUse(lines, u) < FirstUse(lines, t)}

\* The head FirstHeads gives to t, if there is one
Rank(lines, tab, t) == Cardinality(Earlier(lines, tab, t))

\* The rank orders the tools by their first use.
LEMMA Ranks ==
    ASSUME NEW lines, IsProgram(lines), NEW tab
    PROVE  /\ \A t : IsFiniteSet(Earlier(lines, tab, t)) /\ Rank(lines, tab, t) \in Nat
           /\ \A t, u \in Appearing(lines, tab) :
                /\ FirstUse(lines, t) < FirstUse(lines, u) <=> Rank(lines, tab, t) < Rank(lines, tab, u)
                /\ Rank(lines, tab, t) = Rank(lines, tab, u) => t = u
<1> DEFINE P == Appearing(lines, tab)
           F(t) == FirstUse(lines, t)
           R(t) == Rank(lines, tab, t)
           B(t) == Earlier(lines, tab, t)
<1>1. IsFiniteSet(P)
  <2>1. P \in SUBSET Tools
    BY DEF Appearing
  <2> HIDE DEF P
  <2> QED BY <2>1, ToolsFinite, FS_Subset
<1>2. ASSUME NEW t PROVE IsFiniteSet(B(t)) /\ R(t) \in Nat
  <2>1. B(t) \in SUBSET P
    BY DEF Earlier
  <2>2. IsFiniteSet(B(t))
    <3> HIDE DEF P, B
    <3> QED BY <1>1, <2>1, FS_Subset
  <2>3. Cardinality(B(t)) \in Nat
    <3> HIDE DEF B
    <3> QED BY <2>2, FS_CardinalityType
  <2> QED BY <2>2, <2>3 DEF Rank
<1>3. \A t \in P : F(t) \in Uses(lines, t) /\ F(t) \in Nat
  <2> SUFFICES ASSUME NEW t \in P PROVE F(t) \in Uses(lines, t) /\ F(t) \in Nat
    OBVIOUS
  <2>1. Uses(lines, t) # {}
    BY DEF Appearing
  <2> QED BY <2>1, FirstUseIn
<1>4. \A t, u \in P : F(t) = F(u) => t = u
  <2>1. \A i, t, u : i \in Uses(lines, t) /\ i \in Uses(lines, u) => t = u
    BY DEF Uses
  <2> HIDE DEF F, P
  <2> QED BY <1>3, <2>1
<1>5. ASSUME NEW t \in P, NEW u \in P, F(t) < F(u) PROVE R(t) < R(u)
  <2>1. B(t) \in SUBSET B(u) /\ t \in B(u) /\ t \notin B(t)
    <3>1. \A v \in P : F(v) < F(t) => F(v) < F(u)
      BY <1>3, <1>5
    <3>2. ~(F(t) < F(t))
      BY <1>3
    <3> QED BY <1>5, <3>1, <3>2 DEF Earlier
  <2>2. Cardinality(B(t)) <= Cardinality(B(u)) /\ Cardinality(B(t)) # Cardinality(B(u))
    <3>1. IsFiniteSet(B(u))
      BY <1>2
    <3> HIDE DEF B
    <3> QED BY <2>1, <3>1, FS_Subset
  <2>3. R(t) \in Nat /\ R(u) \in Nat
    BY <1>2
  <2> QED BY <2>2, <2>3 DEF Rank
<1>6. \A t, u \in P : F(t) < F(u) <=> R(t) < R(u)
  <2> SUFFICES ASSUME NEW t \in P, NEW u \in P, R(t) < R(u) PROVE F(t) < F(u)
    BY <1>5
  <2>1. R(t) \in Nat /\ R(u) \in Nat /\ F(t) \in Nat /\ F(u) \in Nat
    BY <1>2, <1>3
  <2>2. F(t) # F(u)
    <3> SUFFICES ASSUME F(t) = F(u) PROVE FALSE
      OBVIOUS
    <3>1. t = u
      BY <1>4
    <3> HIDE DEF R
    <3> QED BY <2>1, <3>1
  <2>3. ~(F(u) < F(t))
    <3> SUFFICES ASSUME F(u) < F(t) PROVE FALSE
      OBVIOUS
    <3>1. R(u) < R(t)
      BY <1>5
    <3> HIDE DEF R
    <3> QED BY <2>1, <3>1
  <2> HIDE DEF F, R
  <2> QED BY <2>1, <2>2, <2>3
<1>7. \A t, u \in P : R(t) = R(u) => t = u
  <2> SUFFICES ASSUME NEW t \in P, NEW u \in P, R(t) = R(u) PROVE t = u
    OBVIOUS
  <2>1. F(t) \in Nat /\ F(u) \in Nat /\ R(t) \in Nat
    BY <1>2, <1>3
  <2>2. ~(F(t) < F(u)) /\ ~(F(u) < F(t))
    <3> HIDE DEF F, R
    <3> QED BY <1>6, <1>7, <2>1
  <2>3. F(t) = F(u)
    <3> HIDE DEF F
    <3> QED BY <2>1, <2>2
  <2> QED BY <1>4, <2>3
<1> HIDE DEF P, F, R, B
<1> QED BY <1>2, <1>6, <1>7 DEF P, F, R, B

\* Head h gets the tool of rank h; a head stays free only if all tools have one.
LEMMA FirstHeadsHold ==
    ASSUME NEW lines, IsProgram(lines), NEW tab
    PROVE  /\ Held(FirstHeads(lines, tab))
                = {t \in Appearing(lines, tab) : Rank(lines, tab, t) < NHeads}
           /\ (\E h \in Heads : FirstHeads(lines, tab)[h] = None) =>
                Appearing(lines, tab) \subseteq Held(FirstHeads(lines, tab))
<1> DEFINE P == Appearing(lines, tab)
           R(t) == Rank(lines, tab, t)
           Of(h) == {t \in P : R(t) = h}
           heads == FirstHeads(lines, tab)
<1>1. heads = [h \in Heads |-> IF Of(h) = {} THEN None ELSE CHOOSE t \in Tools : t \in Of(h)]
  BY DEF FirstHeads, Rank, Earlier
<1>2. /\ P \in SUBSET Tools
      /\ \A t \in P : R(t) \in Nat
      /\ \A t, u \in P : R(t) = R(u) => t = u
  <2>1. P \in SUBSET Tools
    BY DEF Appearing
  <2> QED BY <2>1, Ranks
<1>3. NHeads \in Nat /\ \A h : h \in Heads <=> h \in Nat /\ h < NHeads
  BY ToolsFinite DEF Heads
<1>4. \A t \in P : t \in Tools /\ t # None
  BY <1>2, NotNumbers
<1> HIDE DEF P, R
<1>5. ASSUME NEW h \in Heads, NEW t \in P, R(t) = h PROVE heads[h] = t
  <2>1. Of(h) = {t}
    BY <1>2, <1>5
  <2> HIDE DEF Of, heads
  <2> QED BY <1>1, <1>4, <2>1
<1>6. ASSUME NEW h \in Heads, heads[h] # None
      PROVE  heads[h] \in P /\ R(heads[h]) = h
  <2>1. Of(h) # {}
    <3> HIDE DEF Of, heads
    <3> QED BY <1>1, <1>6
  <2>2. PICK t \in P : R(t) = h
    BY <2>1
  <2> HIDE DEF heads
  <2> QED BY <1>5, <2>2
<1> HIDE DEF heads, Of
<1>7. ASSUME NEW t PROVE t \in Held(heads) <=> t \in P /\ R(t) < NHeads
  <2>1. ASSUME t \in Held(heads) PROVE t \in P /\ R(t) < NHeads
    <3>1. PICK h \in Heads : heads[h] = t /\ t # None
      BY <2>1, HeldIn
    <3> QED BY <1>3, <1>6, <3>1
  <2>2. ASSUME t \in P, R(t) < NHeads PROVE t \in Held(heads)
    <3>1. R(t) \in Heads
      BY <1>2, <1>3, <2>2
    <3>2. heads[R(t)] = t
      BY <1>5, <2>2, <3>1
    <3> QED BY <1>4, <2>2, <3>1, <3>2, HeldIn
  <2> QED BY <2>1, <2>2
<1>8. ASSUME NEW h \in Heads, heads[h] = None PROVE P \subseteq Held(heads)
  <2> DEFINE Above == {R(t) : t \in {u \in P : R(u) > h}}
  <2>1. SUFFICES ASSUME NEW b \in P, R(b) >= NHeads PROVE FALSE
    BY <1>2, <1>3, <1>7
  <2>2. Above \in SUBSET Nat /\ R(b) \in Above
    <3>1. R(b) > h
      BY <1>2, <1>3, <2>1
    <3> QED BY <1>2, <3>1
  <2>3. PICK n \in Above : \A k \in Above : n <= k
    <3> HIDE DEF Above
    <3> QED BY <2>2, LeastExists
  <2>4. PICK t \in P : R(t) = n /\ R(t) > h
    BY <2>3
  <2>5. \A u \in P : R(u) > h => R(t) <= R(u)
    BY <2>3, <2>4
  <2> DEFINE B == Earlier(lines, tab, t)
             T == 0..(h - 1)
             f == [u \in B |-> R(u)]
  <2>6. IsFiniteSet(B) /\ R(t) = Cardinality(B)
    <3>1. IsFiniteSet(B)
      BY Ranks
    <3> QED BY <3>1 DEF R, Rank
  <2>7. ASSUME NEW u \in B PROVE u \in P /\ R(u) \in T
    <3>1. u \in P /\ R(u) < R(t)
      <4>1. u \in P /\ FirstUse(lines, u) < FirstUse(lines, t)
        BY DEF Earlier, P
      <4> QED BY <2>4, <4>1, Ranks DEF P, R
    <3>2. ~(R(u) > h)
      BY <1>2, <2>4, <2>5, <3>1
    <3>3. R(u) # h
      <4>1. R(u) = h => heads[h] = u
        BY <1>5, <3>1
      <4> QED BY <1>4, <1>8, <3>1, <4>1
    <3>4. h \in Nat
      BY <1>3
    <3> QED BY <1>2, <3>1, <3>2, <3>3, <3>4
  <2>8. IsFiniteSet(T) /\ Cardinality(T) = h
    <3>1. h \in Nat /\ 0 \in Int /\ h - 1 \in Int
      BY <1>3
    <3>2. IsFiniteSet(T) /\ Cardinality(T) = IF 0 > h - 1 THEN 0 ELSE (h - 1) - 0 + 1
      BY <3>1, FS_Interval, Zenon
    <3> QED BY <3>1, <3>2
  <2>9. f \in [B -> T] /\ Cardinality(T) < Cardinality(B)
    BY <2>4, <2>6, <2>7, <2>8
  <2>10. PICK u, v \in B : u # v /\ f[u] = f[v]
    <3> HIDE DEF B, T, f
    <3> QED BY <2>6, <2>8, <2>9, FS_PigeonHole
  <2>11. R(u) = R(v) /\ u \in P /\ v \in P
    BY <2>7, <2>10
  <2> QED BY <1>2, <2>10, <2>11
<1>9. Held(heads) = {t \in P : R(t) < NHeads}
  BY <1>7
<1> QED BY <1>8, <1>9 DEF P, R, heads

\* The first assignment is the best one.
LEMMA FirstHeadsBest ==
    ASSUME NEW lines, IsProgram(lines), NEW tab
    PROVE  LET need == Appearing(lines, tab)
               held == Held(FirstHeads(lines, tab))
           IN /\ held \in Loadable(need)
              /\ Left(lines, need, 1, held) = Fewest(lines, tab)
<1> DEFINE need == Appearing(lines, tab)
           heads == FirstHeads(lines, tab)
           C == Held(heads)
           R(t) == Rank(lines, tab, t)
<1>1. need \in SUBSET Tools
  BY DEF Appearing
<1>2. /\ heads \in [Heads -> Tools \cup {None}]
      /\ \A g, h \in Heads : heads[g] = heads[h] /\ heads[g] # None => g = h
  BY FirstHeadsTyped
<1>3. /\ C = {t \in need : R(t) < NHeads}
      /\ (\E h \in Heads : heads[h] = None) => need \subseteq C
  BY FirstHeadsHold
<1>4. C \in Loadable(need) /\ ((\A h \in Heads : heads[h] # None) => Cardinality(C) = NHeads)
  <2>1. C \subseteq need
    BY <1>3
  <2> HIDE DEF heads, need
  <2> QED BY <1>1, <1>2, <2>1, HeldSize
<1>5. Cardinality(C) = NHeads \/ C = need
  <2> HIDE DEF C, heads, need
  <2> QED BY <1>3, <1>4
<1>6. ASSUME NEW a \in C, NEW b \in need \ C PROVE Sooner(lines, 1, a, b)
  <2>1. a \in need /\ b \in need /\ R(a) < NHeads /\ ~(R(b) < NHeads)
    BY <1>3
  <2>2. R(a) \in Nat /\ R(b) \in Nat /\ NHeads \in Nat
    BY Ranks, ToolsFinite
  <2>3. R(a) < R(b)
    BY <2>1, <2>2
  <2>4. FirstUse(lines, a) < FirstUse(lines, b)
    BY <2>1, <2>3, Ranks
  <2>5. Uses(lines, a) # {} /\ Uses(lines, b) # {}
    BY <2>1 DEF Appearing
  <2>6. /\ FirstUse(lines, a) \in Uses(lines, a) /\ FirstUse(lines, a) >= 1
        /\ FirstUse(lines, a) \in Nat /\ FirstUse(lines, b) \in Nat
        /\ \A u \in Uses(lines, b) : FirstUse(lines, b) <= u
    BY <2>5, FirstUseIn
  <2>7. \A u \in Uses(lines, b) : u \in Nat
    BY DEF Uses, IsProgram
  <2> QED BY <2>4, <2>6, <2>7 DEF Sooner
<1>7. \A D \in Loadable(need) : Left(lines, need, 1, C) <= Left(lines, need, 1, D)
  <2> HIDE DEF C, need
  <2> QED BY <1>1, <1>4, <1>5, <1>6, FirstIsBest
<1>8. Fewest(lines, tab) = Left(lines, need, 1, C)
  <2> HIDE DEF C
  <2> QED BY <1>4, <1>7, FewestIs
<1> QED BY <1>4, <1>8

\* What is planned and what is left make up the fewest, at every line.
PlanBest ==
    stage # "idle" =>
      LET need == Appearing(pass.lines, pass.tab)
          held == Held(walk.heads)
      IN /\ IsProgram(pass.lines)
         /\ walk.at \in 1..(Len(pass.lines) + 1)
         /\ stage # "plan" => walk.at = Len(pass.lines) + 1
         /\ held \in Loadable(need)
         /\ (\E h \in Heads : walk.heads[h] = None) => need \subseteq held
         /\ Len(walk.swaps) + Left(pass.lines, need, walk.at, held) = Fewest(pass.lines, pass.tab)

\* A walk begins with the best assignment and no swap.
LEMMA BeginsBest ==
    ASSUME NEW p, Begins(p), IsProgram(p.lines), p.start = FirstHeads(p.lines, p.tab)
    PROVE  PlanBest'
<1>1. /\ pass' = p /\ walk'.at = 1 /\ walk'.heads = FirstHeads(p.lines, p.tab)
      /\ walk'.swaps = <<>> /\ stage' = "plan"
  BY DEF Begins, WalkFrom
<1> DEFINE need == Appearing(p.lines, p.tab)
           heads == FirstHeads(p.lines, p.tab)
<1>2. Held(heads) \in Loadable(need) /\ Left(p.lines, need, 1, Held(heads)) = Fewest(p.lines, p.tab)
  BY FirstHeadsBest
<1>3. (\E h \in Heads : heads[h] = None) => need \subseteq Held(heads)
  BY FirstHeadsHold
<1>4. need \in SUBSET Tools /\ 1 \in 1..(Len(p.lines) + 1)
  BY DEF Appearing, IsProgram
<1>5. Left(p.lines, need, 1, Held(heads)) \in Nat
  BY <1>2, <1>4, LeftTyped
<1>6. Len(walk'.swaps) = 0
  BY <1>1
<1> HIDE DEF need, heads
<1> QED BY <1>1, <1>2, <1>3, <1>4, <1>5, <1>6 DEF PlanBest, need, heads

\* A step that leaves plan and pass alone keeps the sum.
LEMMA KeepsBest ==
    ASSUME PlanBest,
           \/ stage' = "idle"
           \/ /\ stage # "idle" /\ UNCHANGED <<pass, walk>>
              /\ stage' # "plan" => stage # "plan" \/ walk.at = Len(pass.lines) + 1
    PROVE  PlanBest'
BY DEF PlanBest

\* A line adds to the swaps what it takes from those that are left.
LEMMA PlanLineBest ==
    ASSUME Replay, PlanBest, PlanLine
    PROVE  PlanBest'
<1> DEFINE lines == pass.lines
           need == Appearing(lines, pass.tab)
           at == walk.at
           line == lines[at]
           held == Held(walk.heads)
           n == Len(walk.swaps)
           L(i, C) == Left(lines, need, i, C)
           needed == line.op = "T" /\ line.n \in Tools /\ pass.tab[line.n] # None
<1>1. /\ stage = "plan" /\ UNCHANGED <<stage, pass>>
      /\ \/ ~needed /\ walk' = Skip(walk)
         \/ needed /\ walk.headOf[line.n] # None /\ walk' = Stay(walk, line.n)
         \/ /\ needed /\ walk.headOf[line.n] = None
            /\ \E h \in Heads : Evicts(pass, walk, h) /\ walk' = Swap(walk, line.n, h)
      /\ at <= Len(lines)
  BY DEF PlanLine
<1>2. /\ IsProgram(lines) /\ at \in 1..Len(lines) /\ at + 1 \in 1..(Len(lines) + 1)
      /\ at \in 1..(Len(lines) + 1) /\ at \in Nat
      /\ held \in Loadable(need)
      /\ (\E h \in Heads : walk.heads[h] = None) => need \subseteq held
      /\ n + L(at, held) = Fewest(lines, pass.tab)
  BY <1>1 DEF PlanBest, IsProgram
<1>3. need \in SUBSET Tools
  BY DEF Appearing
<1>4. /\ walk.heads \in [Heads -> Tools \cup {None}]
      /\ walk.headOf \in [Tools -> Heads \cup {None}]
      /\ \A h \in Heads, t \in Tools : walk.heads[h] = t <=> walk.headOf[t] = h
      /\ walk.swaps \in Seq(SwapRecord) /\ n \in Nat
  BY <1>1 DEF Replay, IInv, TypeOK, HeadsInverse, SwapsTyped
<1>5. \A C \in Loadable(need) : L(at, C) \in Nat /\ L(at + 1, C) \in Nat
  BY <1>2, <1>3, LeftTyped
<1>6. /\ needed => line.n \in need /\ at \in Uses(lines, line.n)
      /\ \A x \in need : at \in Uses(lines, x) => needed /\ x = line.n
  BY <1>2 DEF Appearing, Uses, IsProgram
<1>7. /\ (\A x \in need : at \notin Uses(lines, x)) => L(at, held) = L(at + 1, held)
      /\ \A x \in held : at \in Uses(lines, x) => L(at, held) = L(at + 1, held)
  <2>1. Row(lines, need, at)[held] = L(at, held) /\ Row(lines, need, at + 1)[held] = L(at + 1, held)
    BY <1>2 DEF Row
  <2>2. (\A x \in need : at \notin Uses(lines, x)) =>
          Row(lines, need, at) = Row(lines, need, at + 1)
    BY <1>2, <1>3, RowServes
  <2>3. ASSUME NEW x \in held, at \in Uses(lines, x)
        PROVE  Row(lines, need, at)[held] = Row(lines, need, at + 1)[held]
    <3>1. x \in need
      BY <1>2, <1>3, LoadableSets
    <3>2. Serves(need, x, Row(lines, need, at), Row(lines, need, at + 1))
      BY <1>2, <1>3, <2>3, <3>1, RowServes
    <3> QED BY <1>2, <2>3, <3>2 DEF Serves
  <2> HIDE DEF lines, need, at, held, L
  <2> QED BY <2>1, <2>2, <2>3
<1>8. ASSUME walk'.at = at + 1, walk'.heads = walk.heads, walk'.swaps = walk.swaps,
             L(at, held) = L(at + 1, held)
      PROVE  PlanBest'
  BY <1>1, <1>2, <1>8 DEF PlanBest
<1>9. CASE ~needed /\ walk' = Skip(walk)
  <2>1. L(at, held) = L(at + 1, held)
    BY <1>6, <1>7, <1>9
  <2>2. walk'.at = at + 1 /\ walk'.heads = walk.heads /\ walk'.swaps = walk.swaps
    BY <1>9 DEF Skip
  <2> QED BY <1>8, <2>1, <2>2
<1>10. CASE needed /\ walk.headOf[line.n] # None /\ walk' = Stay(walk, line.n)
  <2>1. walk.heads[walk.headOf[line.n]] = line.n /\ walk.headOf[line.n] \in Heads /\ line.n # None
    BY <1>4, <1>10, NotNumbers
  <2>2. line.n \in held
    BY <2>1, HeldIn
  <2>3. L(at, held) = L(at + 1, held)
    BY <1>6, <1>7, <1>10, <2>2
  <2>4. walk'.at = at + 1 /\ walk'.heads = walk.heads /\ walk'.swaps = walk.swaps
    BY <1>10 DEF Stay
  <2> QED BY <1>8, <2>3, <2>4
<1>11. ASSUME needed, walk.headOf[line.n] = None, NEW h \in Heads, Evicts(pass, walk, h),
              walk' = Swap(walk, line.n, h)
       PROVE  PlanBest'
  <2> DEFINE x == line.n
             t == walk.heads[h]
             more == (held \ {t}) \cup {x}
  <2>1. x \in Tools /\ x \in need /\ x # None /\ at \in Uses(lines, x) /\ x \notin held
    <3>1. x \in Tools /\ x \in need /\ x # None /\ at \in Uses(lines, x)
      BY <1>6, <1>11, NotNumbers
    <3>2. \A g \in Heads : walk.heads[g] # x
      BY <1>4, <1>11, <3>1, NotNumbers
    <3> QED BY <3>1, <3>2, HeldIn
  <2>2. \A g \in Heads : walk.heads[g] # None
    BY <1>2, <2>1
  <2>3. \A g, k \in Heads : walk.heads[g] = walk.heads[k] /\ walk.heads[g] # None => g = k
    <3> SUFFICES ASSUME NEW g \in Heads, NEW k \in Heads, walk.heads[g] = walk.heads[k],
                        walk.heads[g] # None
                 PROVE  g = k
      OBVIOUS
    <3>1. walk.heads[g] \in Tools
      BY <1>4
    <3> QED BY <1>4, <3>1
  <2>4. Cardinality(held) = NHeads
    <3>1. held \subseteq need
      BY <1>2, <1>3, LoadableSets
    <3> QED BY <1>3, <1>4, <2>2, <2>3, <3>1, HeldSize
  <2>5. t \in held
    BY <2>2, HeldIn
  <2>6. ASSUME NEW u \in held PROVE Sooner(lines, at + 1, u, t)
    <3>1. PICK g \in Heads : walk.heads[g] = u /\ u # None
      BY HeldIn
    <3>2. Due(pass, walk, g) = NextUse(lines, at, u) /\ Due(pass, walk, h) = NextUse(lines, at, t)
      BY <2>2, <3>1 DEF Due
    <3>3. NextUse(lines, at, u) \in Nat /\ NextUse(lines, at, t) \in Nat
      BY <1>2, NextUseIn
    <3>4. Due(pass, walk, h) > Due(pass, walk, g) \/ Due(pass, walk, h) = Due(pass, walk, g)
      BY <1>11 DEF Evicts
    <3>5. NextUse(lines, at, u) <= NextUse(lines, at, t)
      BY <3>2, <3>3, <3>4
    <3> QED BY <1>2, <3>5, NearerIsSooner
  <2>7. L(at, held) = 1 + L(at + 1, more)
    <3> HIDE DEF lines, need, held, t, x, at
    <3> QED BY <1>2, <1>3, <2>1, <2>4, <2>5, <2>6, FurthestIsBest
  <2>8. more \in Loadable(need)
    <3> HIDE DEF need, held, t, x
    <3> QED BY <1>2, <1>3, <2>1, <2>5, LoadableSets
  <2>9. /\ walk'.at = at + 1 /\ walk'.heads = [walk.heads EXCEPT ![h] = x]
        /\ walk'.swaps = Append(walk.swaps, [line |-> at, head |-> h, out |-> t, in |-> x])
    BY <1>11 DEF Swap
  <2>10. \A g \in Heads : walk'.heads[g] = IF g = h THEN x ELSE walk.heads[g]
    BY <1>4, <2>9
  <2>11. Held(walk'.heads) = more
    <3>1. ASSUME NEW u PROVE u \in Held(walk'.heads) <=> u \in more
      <4>1. u \in Held(walk'.heads) <=> u # None /\ \E g \in Heads : walk'.heads[g] = u
        BY HeldIn
      <4>2. u \in held <=> u # None /\ \E g \in Heads : walk.heads[g] = u
        BY HeldIn
      <4> HIDE DEF held, x
      <4> QED BY <2>1, <2>3, <2>10, <4>1, <4>2
    <3> HIDE DEF more
    <3> QED BY <3>1
  <2>12. \A g \in Heads : walk'.heads[g] # None
    BY <2>1, <2>2, <2>10
  <2>13. Len(walk'.swaps) = n + 1
    BY <1>4, <2>9, LenProperties
  <2>14. n + 1 + L(at + 1, more) = Fewest(lines, pass.tab)
    <3> HIDE DEF n, L, more
    <3> QED BY <1>2, <1>4, <1>5, <2>7, <2>8
  <2> HIDE DEF more, x, t, held, n
  <2> QED BY <1>1, <1>2, <2>8, <2>9, <2>11, <2>12, <2>13, <2>14 DEF PlanBest
<1> HIDE DEF needed
<1> QED BY <1>1, <1>9, <1>10, <1>11

-----------------------------------------------------------------------------
(* What the slicer and the passes write are sequences of lines. *)

\* A sequence of sequences is made one by adding one part after the other.
LEMMA FlattenSteps ==
    ASSUME NEW S, NEW ss \in Seq(Seq(S))
    PROVE  \E made : /\ made[0] = <<>> /\ made[Len(ss)] = FlattenSeq(ss)
                     /\ \A i \in 0..Len(ss) : made[i] \in Seq(S)
                     /\ \A i \in 1..Len(ss) : made[i] = made[i - 1] \o ss[i]
<1> DEFINE n == Len(ss)
           E(f, i) == IF i = 1 THEN ss[i] ELSE f[i - 1] \o ss[i]
           flat == CHOOSE f : f = [i \in 1..n |-> E(f, i)]
           Solved(i) == \E f : f = [j \in 1..n |-> f[j]] /\ \A j \in 1..i : f[j] = E(f, j)
           Good == {k \in 1..n : Solved(n + 1 - k)}
           T == {k \in 1..n : flat[n + 1 - k] \in Seq(S)}
<1>1. n \in Nat /\ \A i \in 1..n : ss[i] \in Seq(S)
  OBVIOUS
<1>2. CASE n = 0
  <2> DEFINE made == [i \in 0..0 |-> <<>>]
  <2>1. ss = <<>> /\ FlattenSeq(ss) = <<>>
    BY <1>2 DEF FlattenSeq
  <2>2. made[0] = <<>> /\ \A i \in 0..0 : made[i] \in Seq(S)
    BY EmptySeq
  <2>3. 1..n = {}
    BY <1>2
  <2> HIDE DEF made
  <2> QED BY <1>2, <2>1, <2>2, <2>3
<1>3. CASE n # 0
  <2>1. FlattenSeq(ss) = flat[n]
    BY <1>3 DEF FlattenSeq
  <2> HIDE DEF n
  <2>2. n + 1 - n = 1 /\ n + 1 - 1 = n /\ 1 \in 1..n /\ n \in 1..n
    BY <1>1, <1>3
  <2>3. \A k \in 1..(n - 1) :
          /\ n - k \in 1..(n - 1) /\ n - k \in 1..n /\ (n - k) + 1 \in 1..n /\ k \in 1..n
          /\ n + 1 - (k + 1) = n - k /\ n + 1 - k = (n - k) + 1
          /\ (n - k) + 1 # 1 /\ ((n - k) + 1) - 1 = n - k
    BY <1>1
  <2>4. Solved(1)
    <3> DEFINE f == [j \in 1..n |-> ss[1]]
    <3>1. f = [j \in 1..n |-> f[j]] /\ \A j \in 1..1 : f[j] = E(f, j)
      BY <2>2
    <3> QED BY <3>1
  <2>5. ASSUME NEW i \in 1..(n - 1), Solved(i) PROVE Solved(i + 1)
    <3>1. PICK f : f = [j \in 1..n |-> f[j]] /\ \A j \in 1..i : f[j] = E(f, j)
      BY <2>5
    <3> DEFINE g == [j \in 1..n |-> IF j = i + 1 THEN f[i] \o ss[i + 1] ELSE f[j]]
    <3>2. i \in 1..n /\ i + 1 \in 1..n /\ i + 1 # 1 /\ (i + 1) - 1 = i /\ i # i + 1
      BY <1>1
    <3>3. ASSUME NEW j \in 1..(i + 1) PROVE g[j] = E(g, j)
      <4>1. CASE j = i + 1
        <5>1. g[j] = f[i] \o ss[i + 1] /\ g[j - 1] = f[i]
          BY <3>2, <4>1
        <5> HIDE DEF g
        <5> QED BY <3>2, <4>1, <5>1
      <4>2. CASE j # i + 1
        <5>1. j \in 1..i /\ j \in 1..n /\ j # i + 1
          BY <1>1, <4>2
        <5>2. g[j] = f[j]
          BY <5>1
        <5>3. j # 1 => j - 1 \in 1..n /\ j - 1 # i + 1
          BY <1>1, <5>1
        <5>4. j # 1 => g[j - 1] = f[j - 1]
          BY <5>3
        <5>5. f[j] = E(f, j)
          BY <3>1, <5>1
        <5> HIDE DEF g
        <5> QED BY <5>2, <5>4, <5>5
      <4> QED BY <4>1, <4>2
    <3>4. g = [j \in 1..n |-> g[j]]
      OBVIOUS
    <3> HIDE DEF g, E
    <3> QED BY <3>3, <3>4
  <2> HIDE DEF Solved
  <2>6. n \in Good /\ \A k \in 1..(n - 1) : k + 1 \in Good => k \in Good
    BY <2>2, <2>3, <2>4, <2>5
  <2>7. 1 \in Good
    <3> HIDE DEF Good
    <3>1. 1..n \subseteq Good
      BY <1>1, <2>2, <2>6, Downwards
    <3> QED BY <2>2, <3>1
  <2>8. Solved(n)
    BY <2>2, <2>7
  <2>9. PICK f : f = [j \in 1..n |-> f[j]] /\ \A j \in 1..n : f[j] = E(f, j)
    BY <2>8 DEF Solved
  <2>10. f = [i \in 1..n |-> E(f, i)]
    <3> HIDE DEF E
    <3> QED BY <2>9
  <2>11. flat = [i \in 1..n |-> E(flat, i)]
    <3> HIDE DEF E
    <3> QED BY <2>10
  <2> HIDE DEF flat
  <2>12. ASSUME NEW i \in 1..n PROVE flat[i] = E(flat, i)
    <3> HIDE DEF E
    <3> QED BY <2>11
  <2>13. n \in T
    BY <1>1, <2>2, <2>12
  <2>14. ASSUME NEW k \in 1..(n - 1), k + 1 \in T PROVE k \in T
    <3>1. flat[n - k] \in Seq(S) /\ ss[(n - k) + 1] \in Seq(S)
      BY <1>1, <2>3, <2>14
    <3>2. flat[(n - k) + 1] = flat[n - k] \o ss[(n - k) + 1]
      <4>1. flat[(n - k) + 1] = E(flat, (n - k) + 1)
        BY <2>3, <2>12
      <4> QED BY <2>3, <4>1
    <3>3. flat[(n - k) + 1] \in Seq(S)
      BY <3>1, <3>2, ConcatProperties
    <3> QED BY <2>3, <3>3
  <2>15. ASSUME NEW i \in 1..n PROVE flat[i] \in Seq(S)
    <3> HIDE DEF T
    <3>1. 1..n \subseteq T
      BY <1>1, <2>2, <2>13, <2>14, Downwards
    <3>2. n + 1 - i \in 1..n /\ n + 1 - (n + 1 - i) = i
      BY <1>1
    <3>3. n + 1 - i \in T
      BY <3>1, <3>2
    <3> QED BY <3>2, <3>3 DEF T
  <2> DEFINE made == [i \in 0..n |-> IF i = 0 THEN <<>> ELSE flat[i]]
  <2>16. made[0] = <<>> /\ made[n] = FlattenSeq(ss)
    BY <1>1, <1>3, <2>1
  <2>17. ASSUME NEW i \in 0..n PROVE made[i] \in Seq(S)
    <3>1. i # 0 => i \in 1..n
      OBVIOUS
    <3> QED BY <2>15, <3>1, EmptySeq
  <2>18. ASSUME NEW i \in 1..n PROVE made[i] = made[i - 1] \o ss[i]
    <3>1. made[i] = flat[i] /\ ss[i] \in Seq(S) /\ i - 1 \in 0..n
      BY <1>1
    <3>2. CASE i = 1
      <4>1. made[i - 1] = <<>> /\ flat[i] = ss[i]
        BY <1>1, <2>12, <3>2
      <4>2. <<>> \o ss[i] = ss[i]
        BY <3>1, ConcatEmptySeq
      <4> QED BY <3>1, <4>1, <4>2
    <3>3. CASE i # 1
      <4>1. made[i - 1] = flat[i - 1]
        BY <3>1, <3>3
      <4>2. flat[i] = E(flat, i)
        BY <2>12
      <4> HIDE DEF made
      <4> QED BY <3>1, <3>3, <4>1, <4>2
    <3> QED BY <3>2, <3>3
  <2> HIDE DEF made, flat
  <2> QED BY <2>16, <2>17, <2>18 DEF n
<1> QED BY <1>2, <1>3

\* A sequence of sequences, one after the other, is a sequence.
LEMMA FlattenTyped ==
    ASSUME NEW S, NEW ss \in Seq(Seq(S))
    PROVE  FlattenSeq(ss) \in Seq(S)
<1>1. Len(ss) \in 0..Len(ss)
  OBVIOUS
<1>2. PICK made : /\ made[Len(ss)] = FlattenSeq(ss)
                  /\ \A i \in 0..Len(ss) : made[i] \in Seq(S)
  BY FlattenSteps
<1> QED BY <1>1, <1>2

\* A sequence, of whatever lines
IsSeq(lines) == \E S : lines \in Seq(S)

\* The lines of a sequence are numbered.
LEMMA SeqIsProgram ==
    ASSUME NEW lines, IsSeq(lines)
    PROVE  IsProgram(lines)
BY DEF IsSeq, IsProgram

\* A function on 1..n is a sequence.
LEMMA FunctionIsSeq ==
    ASSUME NEW n \in Nat, NEW f, f = [i \in 1..n |-> f[i]]
    PROVE  IsSeq(f)
<1> DEFINE S == {f[i] : i \in 1..n}
<1>1. f \in [1..n -> S]
  OBVIOUS
<1>2. f \in Seq(S)
  <2> HIDE DEF S
  <2> QED BY <1>1
<1> QED BY <1>2 DEF IsSeq

\* The constructors of the code's lists
LEMMA SmallSeqs ==
    /\ IsSeq(<<>>)
    /\ \A a : IsSeq(<<a>>)
    /\ \A a, b : IsSeq(<<a, b>>)
    /\ \A s, e : IsSeq(s) => IsSeq(Append(s, e))
    /\ \A s, t : IsSeq(s) /\ IsSeq(t) => IsSeq(s \o t)
<1>1. IsSeq(<<>>)
  <2>1. <<>> \in Seq({})
    BY EmptySeq
  <2> QED BY <2>1 DEF IsSeq
<1>2. ASSUME NEW a, NEW b PROVE IsSeq(<<a>>) /\ IsSeq(<<a, b>>)
  <2>1. <<a>> \in Seq({a, b}) /\ <<a, b>> \in Seq({a, b})
    OBVIOUS
  <2>2. (\E S : <<a>> \in Seq(S)) /\ \E S : <<a, b>> \in Seq(S)
    BY <2>1, Zenon
  <2> QED BY <2>2 DEF IsSeq
<1>3. ASSUME NEW s, NEW S, s \in Seq(S), NEW T PROVE s \in Seq(S \cup T) /\ s \in Seq(T \cup S)
  <2>1. s \in [1..Len(s) -> S] /\ Len(s) \in Nat
    BY <1>3
  <2>2. s \in [1..Len(s) -> S \cup T] /\ s \in [1..Len(s) -> T \cup S]
    BY <2>1
  <2> QED BY <2>1, <2>2, SeqDef
<1>4. ASSUME NEW s, NEW e, IsSeq(s) PROVE IsSeq(Append(s, e))
  <2>1. PICK S : s \in Seq(S)
    BY <1>4 DEF IsSeq
  <2>2. s \in Seq(S \cup {e}) /\ e \in S \cup {e}
    BY <1>3, <2>1
  <2>3. Append(s, e) \in Seq(S \cup {e})
    BY <2>2, AppendProperties
  <2> QED BY <2>3 DEF IsSeq
<1>5. ASSUME NEW s, NEW t, IsSeq(s), IsSeq(t) PROVE IsSeq(s \o t)
  <2>1. PICK S : s \in Seq(S)
    BY <1>5 DEF IsSeq
  <2>2. PICK T : t \in Seq(T)
    BY <1>5 DEF IsSeq
  <2>3. s \in Seq(S \cup T) /\ t \in Seq(S \cup T)
    BY <1>3, <2>1, <2>2
  <2>4. s \o t \in Seq(S \cup T)
    BY <2>3, ConcatProperties
  <2> QED BY <2>4 DEF IsSeq
<1> QED BY <1>1, <1>2, <1>4, <1>5

\* Parts that are sequences each have their lines in one set.
LEMMA PartsIn ==
    ASSUME NEW n \in Nat, NEW ss, ss = [i \in 1..n |-> ss[i]], \A i \in 1..n : IsSeq(ss[i])
    PROVE  Len(ss) = n /\ \E S : ss \in Seq(Seq(S))
<1> DEFINE R(i) == {ss[i][j] : j \in DOMAIN ss[i]}
           S == UNION {R(i) : i \in 1..n}
<1>1. ASSUME NEW i \in 1..n PROVE ss[i] \in Seq(S)
  <2>1. PICK T : ss[i] \in Seq(T)
    BY DEF IsSeq
  <2>2. /\ Len(ss[i]) \in Nat /\ DOMAIN ss[i] = 1..Len(ss[i])
        /\ ss[i] = [j \in 1..Len(ss[i]) |-> ss[i][j]]
    BY <2>1
  <2>3. \A j \in 1..Len(ss[i]) : ss[i][j] \in R(i)
    BY <2>2
  <2>4. R(i) \subseteq S
    <3> HIDE DEF R
    <3> QED OBVIOUS
  <2> HIDE DEF R, S
  <2>5. ss[i] \in [1..Len(ss[i]) -> S]
    BY <2>2, <2>3, <2>4
  <2> QED BY <2>2, <2>5, SeqDef
<1>2. ss \in [1..n -> Seq(S)]
  <2> HIDE DEF S
  <2> QED BY <1>1
<1>3. ss \in Seq(Seq(S)) /\ Len(ss) = n
  <2> HIDE DEF S
  <2> QED BY <1>2, SeqDef
<1> HIDE DEF S
<1> QED BY <1>3

\* FlattenTyped, where each part may have lines of its own.
LEMMA FlattenIsSeq ==
    ASSUME NEW n \in Nat, NEW ss, ss = [i \in 1..n |-> ss[i]], \A i \in 1..n : IsSeq(ss[i])
    PROVE  IsSeq(FlattenSeq(ss))
<1>1. PICK S : ss \in Seq(Seq(S))
  BY PartsIn
<1>2. FlattenSeq(ss) \in Seq(S)
  BY <1>1, FlattenTyped
<1> QED BY <1>2 DEF IsSeq

\* So are the slicer's file, ...
LEMMA SlicedIsSeq ==
    ASSUME NEW c \in SlicerPrograms
    PROVE  IsSeq(Sliced(c))
<1>1. PICK n \in 1..MaxChanges : c \in [1..n -> Tools]
  BY DEF SlicerPrograms
<1>2. n \in Nat /\ DOMAIN c = 1..n
  BY <1>1, SizeAssumption
<1> DEFINE ss == [i \in DOMAIN c |->
                    IF (i - 1) % PerLayer = 0 THEN <<Mark((i - 1) \div PerLayer), Change(c[i])>>
                    ELSE <<Change(c[i])>>]
<1>3. ss = [i \in 1..n |-> ss[i]] /\ \A i \in 1..n : IsSeq(ss[i])
  BY <1>2, SmallSeqs
<1>4. IsSeq(FlattenSeq(ss))
  <2> HIDE DEF ss
  <2> QED BY <1>2, <1>3, FlattenIsSeq
<1> QED BY <1>4 DEF Sliced

\* ... one with --optimize, ...
LEMMA AliasedIsSeq ==
    ASSUME NEW lines, IsSeq(lines), NEW h, NEW r, NEW tab
    PROVE  IsSeq(Aliased(lines, h, r, tab))
<1>1. Len(lines) \in Nat /\ DOMAIN lines = 1..Len(lines)
  BY SeqIsProgram DEF IsProgram
<1> DEFINE made == Aliased(lines, h, r, tab)
<1>2. made = [i \in 1..Len(lines) |-> made[i]]
  BY <1>1 DEF Aliased
<1> QED BY <1>1, <1>2, FunctionIsSeq

\* ... one with --layer, ...
LEMMA PreloadedIsSeq ==
    ASSUME NEW lines, IsSeq(lines), NEW tab
    PROVE  IsSeq(Preloaded(lines, tab))
<1>1. Len(lines) \in Nat /\ DOMAIN lines = 1..Len(lines)
  BY SeqIsProgram DEF IsProgram
<1> DEFINE Ends(i) == {j \in DOMAIN lines : j > i /\ lines[j].op = "LAYER"} \cup {Len(lines) + 1}
           Layer(i) == {j \in DOMAIN lines : j > i /\ \A k \in Ends(i) : j < k}
           Needs(i) == {t \in Appearing(lines, tab) : Uses(lines, t) \cap Layer(i) # {}}
           First(i, t) == CHOOSE j \in Uses(lines, t) \cap Layer(i) :
                            \A k \in Uses(lines, t) \cap Layer(i) : j <= k
           Before(i, t) == {u \in Needs(i) : First(i, u) < First(i, t)}
           Loaded(i, h) == Load(h, tab[CHOOSE t \in Needs(i) : Cardinality(Before(i, t)) = h])
           Fresh(i) == [h \in 1..Cardinality(Needs(i)) |->
                          IF \E j \in Layer(i) : lines[j] = Loaded(i, h - 1)
                          THEN <<>> ELSE <<Loaded(i, h - 1)>>]
           ss == [i \in DOMAIN lines |->
                    IF lines[i].op = "LAYER" /\ Cardinality(Needs(i)) <= NHeads
                    THEN <<lines[i]>> \o FlattenSeq(Fresh(i)) ELSE <<lines[i]>>]
<1>2. Preloaded(lines, tab) = FlattenSeq(ss)
  BY DEF Preloaded
<1>3. ASSUME NEW i \in DOMAIN lines PROVE Cardinality(Needs(i)) \in Nat
  <2>1. Needs(i) \in SUBSET Tools
    BY DEF Appearing
  <2> HIDE DEF Needs
  <2> QED BY <2>1, ToolsFinite, FS_Subset, FS_CardinalityType
<1>4. ASSUME NEW i \in DOMAIN lines PROVE IsSeq(FlattenSeq(Fresh(i)))
  <2> DEFINE n == Cardinality(Needs(i))
             f == Fresh(i)
  <2> HIDE DEF Needs, Layer, Loaded
  <2>1. f = [h \in 1..n |-> f[h]] /\ \A h \in 1..n : f[h] = <<>> \/ \E a : f[h] = <<a>>
    OBVIOUS
  <2>2. n \in Nat
    BY <1>3
  <2> HIDE DEF f, n
  <2>3. \A h \in 1..n : IsSeq(f[h])
    BY <2>1, SmallSeqs
  <2>4. IsSeq(FlattenSeq(f))
    BY <2>1, <2>2, <2>3, FlattenIsSeq
  <2> QED BY <2>4 DEF f
<1> HIDE DEF Needs, Fresh
<1>5. ss = [i \in 1..Len(lines) |-> ss[i]]
  BY <1>1
<1>6. ASSUME NEW i \in 1..Len(lines) PROVE IsSeq(ss[i])
  <2>1. IsSeq(<<lines[i]>>) /\ IsSeq(FlattenSeq(Fresh(i)))
    BY <1>1, <1>4, SmallSeqs
  <2>2. IsSeq(<<lines[i]>> \o FlattenSeq(Fresh(i)))
    BY <2>1, SmallSeqs
  <2> QED BY <1>1, <2>1, <2>2
<1>7. IsSeq(FlattenSeq(ss))
  <2> HIDE DEF ss
  <2> QED BY <1>1, <1>5, <1>6, FlattenIsSeq
<1> QED BY <1>2, <1>7

\* ... and what a pass writes.
LEMMA RewrittenIsSeq ==
    ASSUME NEW p, IsSeq(p.lines), NEW w
    PROVE  IsSeq(Rewritten(p, w))
<1>1. Len(p.lines) \in Nat /\ DOMAIN p.lines = 1..Len(p.lines)
  BY SeqIsProgram DEF IsProgram
<1> DEFINE phys == Settled(w)
           Swaps(i) == {k \in DOMAIN w.swaps : w.swaps[k].line = i}
           Before(i) == IF Swaps(i) = {} THEN <<>>
                        ELSE LET s == w.swaps[CHOOSE k \in Swaps(i) : TRUE]
                             IN <<Park(s.head), Load(s.head, p.tab[s.in])>>
           Renamed(line) == IF line.op = "T" /\ line.n \in Tools /\ phys[line.n] # None
                            THEN Change(phys[line.n]) ELSE line
           ss == [i \in DOMAIN p.lines |-> Append(Before(i), Renamed(p.lines[i]))]
<1>2. Rewritten(p, w) = FlattenSeq(ss)
  BY DEF Rewritten
<1>3. ASSUME NEW i PROVE IsSeq(Before(i))
  BY SmallSeqs
<1> HIDE DEF Before, Renamed
<1>4. ss = [i \in 1..Len(p.lines) |-> ss[i]] /\ \A i \in 1..Len(p.lines) : IsSeq(ss[i])
  BY <1>1, <1>3, SmallSeqs
<1>5. IsSeq(FlattenSeq(ss))
  <2> HIDE DEF ss
  <2> QED BY <1>1, <1>4, FlattenIsSeq
<1> QED BY <1>2, <1>5

\* A file, and what a pass makes of it, is a sequence of lines.
FilesAreSeqs == IsSeq(file) /\ (stage # "idle" => IsSeq(pass.lines))

\* What the proof of FewestSwaps carries from step to step
Optimal == Replay /\ FilesAreSeqs /\ PlanBest

\* Only the script and the writing of the G-code make new lines.
LEMMA StepFiles == FilesAreSeqs /\ [Next]_vars => FilesAreSeqs'
<1> SUFFICES ASSUME FilesAreSeqs, [Next]_vars PROVE FilesAreSeqs'
  OBVIOUS
<1>1. IsSeq(file) /\ (stage # "idle" => IsSeq(pass.lines))
  BY DEF FilesAreSeqs
<1>2. ASSUME NEW p, Begins(p), IsSeq(p.lines) PROVE FilesAreSeqs'
  <2>1. file' = file /\ pass' = p
    BY <1>2 DEF Begins
  <2> QED BY <1>1, <1>2, <2>1 DEF FilesAreSeqs
<1>3. ASSUME NEW optimize \in BOOLEAN, NEW layer \in BOOLEAN, NEW fuzzy \in BOOLEAN,
             NEW host \in BOOLEAN, RunScript(optimize, layer, fuzzy, host)
      PROVE  FilesAreSeqs'
  <2> DEFINE known == IF host THEN rack ELSE [s \in Slots |-> None]
             tab == MatchTools(header, known, fuzzy)
             aliased == IF optimize THEN Aliased(file, header, known, tab) ELSE file
             lines == IF layer THEN Preloaded(aliased, tab) ELSE aliased
             p == PassOver("script", lines, known, tab)
  <2>1. Begins(p)
    BY <1>3 DEF RunScript
  <2>2. IsSeq(aliased)
    BY <1>1, AliasedIsSeq
  <2>3. IsSeq(lines)
    <3> HIDE DEF aliased, tab
    <3> QED BY <2>2, PreloadedIsSeq
  <2>4. p.lines = lines
    BY DEF PassOver
  <2> HIDE DEF p, lines
  <2> QED BY <1>2, <2>1, <2>3, <2>4
<1>4. ASSUME Revalidate PROVE FilesAreSeqs'
  <2> DEFINE p == PassOver("web", file, rack, MatchTools(header, rack, FALSE))
  <2>1. Begins(p) /\ p.lines = file
    BY <1>4 DEF Revalidate, PassOver
  <2> HIDE DEF p
  <2> QED BY <1>1, <1>2, <2>1
<1>5. CASE PlanLine \/ Planned \/ StartPrint \/ PrintEnds \/ SwapSeen \/ Rebind
  <2>1. file' = file /\ pass' = pass /\ (stage' # "idle" => stage # "idle")
    BY <1>5 DEF PlanLine, Planned, StartPrint, PrintEnds, SwapSeen, Rebind
  <2> QED BY <1>1, <2>1 DEF FilesAreSeqs
<1>6. CASE WriteGcode
  <2>1. stage # "idle" /\ file' = Rewritten(pass, walk) /\ pass' = pass
    BY <1>6 DEF WriteGcode
  <2>2. IsSeq(Rewritten(pass, walk))
    BY <1>1, <2>1, RewrittenIsSeq
  <2> QED BY <1>1, <2>1, <2>2 DEF FilesAreSeqs
<1>7. CASE WriteSidecar
  BY <1>1, <1>7 DEF FilesAreSeqs, WriteSidecar
<1>8. CASE Die
  BY <1>1, <1>8, SmallSeqs DEF FilesAreSeqs, Die
<1>9. CASE UNCHANGED vars
  BY <1>1, <1>9 DEF FilesAreSeqs, vars
<1> QED BY <1>3, <1>4, <1>5, <1>6, <1>7, <1>8, <1>9 DEF Next

\* Every step keeps planned and left together the fewest.
LEMMA StepOptimal == Optimal /\ [Next]_vars => Optimal'
<1> SUFFICES ASSUME Optimal, [Next]_vars PROVE PlanBest'
  BY StepReplay, StepFiles DEF Optimal
<1>1. Replay /\ PlanBest /\ FilesAreSeqs'
  BY StepFiles DEF Optimal
<1>2. ASSUME NEW p, Begins(p), p.start = FirstHeads(p.lines, p.tab) PROVE PlanBest'
  <2>1. pass' = p /\ stage' = "plan"
    BY <1>2 DEF Begins
  <2>2. IsProgram(p.lines)
    BY <1>1, <2>1, SeqIsProgram DEF FilesAreSeqs
  <2> QED BY <1>2, <2>2, BeginsBest
<1>3. CASE Revalidate \/ \E optimize, layer, fuzzy, host \in BOOLEAN : RunScript(optimize, layer, fuzzy, host)
  <2>1. ASSUME NEW by, NEW lines, NEW known, NEW tab
        PROVE  LET p == PassOver(by, lines, known, tab)
               IN p.start = FirstHeads(p.lines, p.tab)
    BY DEF PassOver
  <2>2. ASSUME NEW by, NEW lines, NEW known, NEW tab, Begins(PassOver(by, lines, known, tab))
        PROVE  PlanBest'
    BY <1>2, <2>1, <2>2
  <2> QED BY <1>3, <2>2 DEF Revalidate, RunScript
<1>4. CASE PlanLine
  BY <1>1, <1>4, PlanLineBest
<1>5. CASE Planned
  <2>1. /\ stage = "plan" /\ UNCHANGED <<pass, walk>>
        /\ walk.at > Len(pass.lines)
    BY <1>5 DEF Planned
  <2>2. walk.at = Len(pass.lines) + 1
    BY <1>1, <2>1 DEF PlanBest, IsProgram
  <2> QED BY <1>1, <2>1, <2>2, KeepsBest
<1>6. CASE WriteGcode \/ WriteSidecar \/ Die
  BY <1>1, <1>6, KeepsBest DEF WriteGcode, WriteSidecar, Die
<1>7. CASE StartPrint \/ PrintEnds \/ SwapSeen \/ Rebind
  BY <1>1, <1>7, KeepsBest DEF StartPrint, PrintEnds, SwapSeen, Rebind
<1>8. CASE UNCHANGED vars
  BY <1>1, <1>8 DEF vars, PlanBest
<1> QED BY <1>3, <1>4, <1>5, <1>6, <1>7, <1>8 DEF Next

\* For every file, every binding and any number of heads and tools, the plan has
\* the fewest swaps of all plans, whichever first assignment they begin with.
THEOREM FewestCorrect == Spec => []FewestSwaps
<1>1. Init => Optimal
  <2> SUFFICES ASSUME Init PROVE Optimal
    OBVIOUS
  <2>1. stage = "idle" /\ Replay
    BY InitInv DEF Init, Replay, SwapsTyped, SwapsReplay
  <2>2. PICK c \in SlicerPrograms : file = Sliced(c)
    BY DEF Init
  <2> QED BY <2>1, <2>2, SlicedIsSeq DEF Optimal, FilesAreSeqs, PlanBest
<1>2. Optimal => FewestSwaps
  <2> SUFFICES ASSUME Optimal, stage = "gcode"
               PROVE  Len(walk.swaps) = Fewest(pass.lines, pass.tab)
    BY DEF FewestSwaps
  <2> DEFINE need == Appearing(pass.lines, pass.tab)
             held == Held(walk.heads)
  <2>1. /\ IsProgram(pass.lines) /\ walk.at = Len(pass.lines) + 1 /\ held \in Loadable(need)
        /\ Len(walk.swaps) + Left(pass.lines, need, walk.at, held) = Fewest(pass.lines, pass.tab)
    BY DEF Optimal, PlanBest
  <2>2. Left(pass.lines, need, Len(pass.lines) + 1, held) = 0
    <3> HIDE DEF need, held
    <3> QED BY <2>1, SwapsLeftEnds
  <2>3. Len(walk.swaps) \in Nat
    <3>1. walk.swaps \in Seq(SwapRecord)
      BY DEF Optimal, Replay, SwapsTyped
    <3> QED BY <3>1, LenProperties
  <2> QED BY <2>1, <2>2, <2>3
<1> QED BY <1>1, <1>2, StepOptimal, PTL DEF Spec

-----------------------------------------------------------------------------
(* What a file prints.  First, line by line: the recursion, and what a line    *)
(* that is added does.                                                         *)

\* Induction from the first line of a file to the last, like Downwards
LEMMA Upwards ==
    ASSUME NEW m \in Nat, NEW S, 0 \in S,
           \A i \in 0..(m - 1) : i \in S => i + 1 \in S
    PROVE  0..m \subseteq S
<1> DEFINE Out == {k \in 0..m : k \notin S}
<1>1. SUFFICES ASSUME Out # {} PROVE FALSE
  OBVIOUS
<1>2. PICK k \in Out : \A n \in Out : k <= n
  <2>1. Out \in SUBSET Nat
    OBVIOUS
  <2> HIDE DEF Out
  <2> QED BY <1>1, <2>1, LeastExists
<1>3. k \in Nat /\ k <= m /\ k \notin S /\ k # 0
  OBVIOUS
<1>4. k - 1 \notin Out /\ k - 1 \in 0..m
  <2>1. k - 1 \in 0..m /\ ~(k <= k - 1)
    BY <1>3
  <2> HIDE DEF Out
  <2> QED BY <1>2, <2>1
<1>5. k - 1 \in S /\ k - 1 \in 0..(m - 1) /\ (k - 1) + 1 = k
  BY <1>3, <1>4
<1> QED BY <1>3, <1>5

\* The recursion of Printing has a solution.
LEMMA PrintingSolves ==
    ASSUME NEW lines, IsProgram(lines), NEW start
    PROVE  /\ Printing(lines, start)[0] = [at |-> start, out |-> <<>>]
           /\ \A i \in 1..Len(lines) :
                Printing(lines, start)[i] = Obey(Printing(lines, start)[i - 1], lines[i])
<1> DEFINE m == Len(lines)
           E(g, i) == IF i = 0 THEN [at |-> start, out |-> <<>>] ELSE Obey(g[i - 1], lines[i])
           Solved(i) == \E g : g = [j \in 0..m |-> g[j]] /\ \A j \in 0..i : g[j] = E(g, j)
           S == {i \in 0..m : Solved(i)}
<1>1. m \in Nat
  BY DEF IsProgram
<1> HIDE DEF m
<1>2. 0 \in S
  <2> DEFINE g == [j \in 0..m |-> [at |-> start, out |-> <<>>]]
  <2>1. g = [j \in 0..m |-> g[j]] /\ \A j \in 0..0 : g[j] = E(g, j)
    BY <1>1
  <2>2. Solved(0)
    <3> HIDE DEF g
    <3> QED BY <2>1
  <2> HIDE DEF Solved
  <2> QED BY <1>1, <2>2
<1>3. ASSUME NEW i \in 0..(m - 1), i \in S PROVE i + 1 \in S
  <2>1. PICK g : g = [j \in 0..m |-> g[j]] /\ \A j \in 0..i : g[j] = E(g, j)
    BY <1>3
  <2> DEFINE h == [j \in 0..m |-> IF j = i + 1 THEN E(g, i + 1) ELSE g[j]]
  <2>2. i \in 0..m /\ i + 1 \in 0..m /\ i + 1 # 0 /\ (i + 1) - 1 = i /\ i # i + 1
    BY <1>1
  <2>3. ASSUME NEW j \in 0..(i + 1) PROVE h[j] = E(h, j)
    <3>1. CASE j = i + 1
      <4>1. h[j] = E(g, i + 1) /\ h[j - 1] = g[i]
        BY <2>2, <3>1
      <4> HIDE DEF h
      <4> QED BY <2>2, <3>1, <4>1
    <3>2. CASE j # i + 1
      <4>1. j \in 0..i /\ j \in 0..m /\ j # i + 1
        BY <1>1, <3>2
      <4>2. h[j] = g[j]
        BY <4>1
      <4>3. j # 0 => j - 1 \in 0..m /\ j - 1 # i + 1
        BY <1>1, <4>1
      <4>4. j # 0 => h[j - 1] = g[j - 1]
        BY <4>3
      <4>5. g[j] = E(g, j)
        BY <2>1, <4>1
      <4> HIDE DEF h
      <4> QED BY <4>2, <4>4, <4>5
    <3> QED BY <3>1, <3>2
  <2>4. h = [j \in 0..m |-> h[j]]
    OBVIOUS
  <2>5. Solved(i + 1)
    <3> HIDE DEF h, E
    <3> QED BY <2>3, <2>4
  <2> QED BY <2>2, <2>5
<1>4. m \in S
  <2> HIDE DEF S
  <2>1. 0..m \subseteq S
    BY <1>1, <1>2, <1>3, Upwards
  <2> QED BY <1>1, <2>1
<1>5. PICK g : g = [j \in 0..m |-> g[j]] /\ \A j \in 0..m : g[j] = E(g, j)
  BY <1>4
<1>6. g = [j \in 0..m |-> E(g, j)]
  <2> HIDE DEF E
  <2> QED BY <1>5
<1> DEFINE s == Printing(lines, start)
<1>7. s = CHOOSE f : f = [j \in 0..m |-> E(f, j)]
  BY DEF Printing, m
<1>8. s = [j \in 0..m |-> E(s, j)]
  <2> HIDE DEF E, s
  <2> QED BY <1>6, <1>7
<1>9. ASSUME NEW j \in 0..m PROVE s[j] = E(s, j)
  <2> HIDE DEF E, s
  <2> QED BY <1>8
<1> HIDE DEF s
<1>10. s[0] = [at |-> start, out |-> <<>>]
  <2>1. 0 \in 0..m
    BY <1>1
  <2> QED BY <1>9, <2>1
<1>11. ASSUME NEW i \in 1..m PROVE s[i] = Obey(s[i - 1], lines[i])
  <2>1. i \in 0..m /\ i # 0
    BY <1>1
  <2> QED BY <1>9, <2>1
<1> QED BY <1>10, <1>11 DEF s, m

\* What has been printed depends on the lines so far.
LEMMA PrintingPrefix ==
    ASSUME NEW lines, IsProgram(lines), NEW other, IsProgram(other), NEW start,
           NEW m \in Nat, m <= Len(lines), m <= Len(other),
           \A i \in 1..m : lines[i] = other[i]
    PROVE  Printing(lines, start)[m] = Printing(other, start)[m]
<1> DEFINE s == Printing(lines, start)
           t == Printing(other, start)
           S == {i \in 0..m : s[i] = t[i]}
<1>1. /\ s[0] = t[0]
      /\ \A i \in 1..m : s[i] = Obey(s[i - 1], lines[i]) /\ t[i] = Obey(t[i - 1], other[i])
  <2>1. /\ s[0] = [at |-> start, out |-> <<>>]
        /\ \A i \in 1..Len(lines) : s[i] = Obey(s[i - 1], lines[i])
    BY PrintingSolves, Zenon
  <2>2. /\ t[0] = [at |-> start, out |-> <<>>]
        /\ \A i \in 1..Len(other) : t[i] = Obey(t[i - 1], other[i])
    BY PrintingSolves, Zenon
  <2>3. \A i \in 1..m : i \in 1..Len(lines) /\ i \in 1..Len(other)
    BY DEF IsProgram
  <2> HIDE DEF s, t
  <2> QED BY <2>1, <2>2, <2>3
<1> HIDE DEF s, t
<1>2. 0 \in S
  BY <1>1
<1>3. ASSUME NEW i \in 0..(m - 1), i \in S PROVE i + 1 \in S
  <2>1. i + 1 \in 1..m /\ (i + 1) - 1 = i /\ i + 1 \in 0..m
    OBVIOUS
  <2>2. s[i + 1] = Obey(s[i], lines[i + 1]) /\ t[i + 1] = Obey(t[i], other[i + 1])
    BY <1>1, <2>1
  <2> QED BY <1>3, <2>1, <2>2
<1>4. m \in S
  <2> HIDE DEF S
  <2>1. 0..m \subseteq S
    BY <1>2, <1>3, Upwards
  <2> QED BY <2>1
<1> QED BY <1>4 DEF s, t

\* One more line
LEMMA PrintingAppend ==
    ASSUME NEW S, NEW lines \in Seq(S), NEW l \in S, NEW start
    PROVE  LET more == Append(lines, l)
           IN Printing(more, start)[Len(more)]
                = Obey(Printing(lines, start)[Len(lines)], l)
<1> DEFINE more == Append(lines, l)
           n == Len(lines)
<1>1. /\ n \in Nat /\ Len(more) = n + 1 /\ more[n + 1] = l /\ \A i \in 1..n : more[i] = lines[i]
      /\ IsProgram(lines) /\ IsProgram(more)
  BY DEF IsProgram
<1> HIDE DEF more, n
<1>2. /\ Printing(more, start)[n] = Printing(lines, start)[n]
  BY <1>1, PrintingPrefix DEF n
<1>3. Printing(more, start)[n + 1] = Obey(Printing(more, start)[n], l)
  <2>1. n + 1 \in 1..Len(more) /\ (n + 1) - 1 = n
    BY <1>1
  <2>2. \A i \in 1..Len(more) : Printing(more, start)[i] = Obey(Printing(more, start)[i - 1], more[i])
    BY <1>1, PrintingSolves, Zenon
  <2> QED BY <1>1, <2>1, <2>2
<1> QED BY <1>1, <1>2, <1>3 DEF more, n

-----------------------------------------------------------------------------
(* The slicer's changes: every file a pass reads before any was rewritten has  *)
(* them all, in their order, each to a tool of the same filament.              *)

\* The tool changes among the first i lines, and how many they are
Changes(lines, i) == {j \in 1..i : lines[j].op = "T"}
Nth(lines, i) == Cardinality(Changes(lines, i))

\* The changes of a file are the slicer's, each to a tool it uses with the
\* filament of the one it was sliced for.
SameChanges(lines) ==
    /\ Nth(lines, Len(lines)) = Len(sliced)
    /\ \A i \in DOMAIN lines : lines[i].op = "T" =>
         /\ lines[i].n \in Range(sliced)
         /\ header[lines[i].n] = header[sliced[Nth(lines, i)]]

\* A file that has not been rewritten for any spool
Plain(lines) ==
    /\ IsSeq(lines)
    /\ SameChanges(lines)

\* Of the lines a pass makes of l, none but l changes the tool.
Carries(s, l) ==
    \E j \in DOMAIN s :
      s[j] = l /\ \A k \in DOMAIN s : k # j => s[k].op # "T"

\* One line more is one change more, or none.
LEMMA NthSteps ==
    ASSUME NEW lines
    PROVE  /\ Nth(lines, 0) = 0
           /\ \A i \in Nat : IsFiniteSet(Changes(lines, i)) /\ Nth(lines, i) \in Nat
           /\ \A i \in Nat \ {0} : Nth(lines, i) =
                IF lines[i].op = "T" THEN Nth(lines, i - 1) + 1 ELSE Nth(lines, i - 1)
<1>1. Nth(lines, 0) = 0
  <2>1. Changes(lines, 0) = {}
    BY DEF Changes
  <2> QED BY <2>1, FS_EmptySet DEF Nth
<1>2. ASSUME NEW i \in Nat PROVE IsFiniteSet(Changes(lines, i)) /\ Nth(lines, i) \in Nat
  <2>1. IsFiniteSet(1..i)
    BY FS_Interval
  <2>2. Changes(lines, i) \in SUBSET (1..i)
    BY DEF Changes
  <2> QED BY <2>1, <2>2, FS_Subset, FS_CardinalityType DEF Nth
<1>3. ASSUME NEW i \in Nat \ {0}
      PROVE  Nth(lines, i) = IF lines[i].op = "T" THEN Nth(lines, i - 1) + 1 ELSE Nth(lines, i - 1)
  <2>1. i - 1 \in Nat /\ 1..i = 1..(i - 1) \cup {i} /\ i \notin 1..(i - 1)
    OBVIOUS
  <2>2. CASE lines[i].op = "T"
    <3>1. Changes(lines, i) = Changes(lines, i - 1) \cup {i} /\ i \notin Changes(lines, i - 1)
      BY <2>1, <2>2 DEF Changes
    <3>2. Cardinality(Changes(lines, i - 1) \cup {i}) = Cardinality(Changes(lines, i - 1)) + 1
      BY <1>2, <2>1, <3>1, FS_AddElement
    <3> QED BY <2>2, <3>1, <3>2 DEF Nth
  <2>3. CASE lines[i].op # "T"
    <3>1. Changes(lines, i) = Changes(lines, i - 1)
      BY <2>1, <2>3 DEF Changes
    <3> QED BY <2>3, <3>1 DEF Nth
  <2> QED BY <2>2, <2>3
<1> QED BY <1>1, <1>2, <1>3

\* The number of a change is one of those the file has.
LEMMA NthIn ==
    ASSUME NEW lines, IsProgram(lines), NEW i \in 1..Len(lines), lines[i].op = "T"
    PROVE  Nth(lines, i) \in 1..Nth(lines, Len(lines))
<1>1. i \in Nat \ {0} /\ i - 1 \in Nat /\ Len(lines) \in Nat
  BY DEF IsProgram
<1>2. Nth(lines, i) = Nth(lines, i - 1) + 1 /\ Nth(lines, i - 1) \in Nat
  BY <1>1, NthSteps
<1>3. Changes(lines, i) \in SUBSET Changes(lines, Len(lines))
  BY <1>1 DEF Changes
<1>4. Nth(lines, i) <= Nth(lines, Len(lines)) /\ Nth(lines, Len(lines)) \in Nat
  BY <1>1, <1>3, NthSteps, FS_Subset DEF Nth
<1> QED BY <1>2, <1>4

\* The number depends on the lines so far.
LEMMA NthPrefix ==
    ASSUME NEW lines, NEW other, NEW m \in Nat, \A i \in 1..m : lines[i].op = other[i].op
    PROVE  Nth(lines, m) = Nth(other, m)
<1>1. Changes(lines, m) = Changes(other, m)
  BY DEF Changes
<1> QED BY <1>1 DEF Nth

\* A line carried into a file that is being made: one part more.
LEMMA CarriedNth ==
    ASSUME NEW S, NEW a \in Seq(S), NEW b \in Seq(S), NEW l, Carries(b, l)
    PROVE  /\ Nth(a \o b, Len(a \o b))
                = IF l.op = "T" THEN Nth(a, Len(a)) + 1 ELSE Nth(a, Len(a))
           /\ \A i \in 1..Len(a) : Nth(a \o b, i) = Nth(a, i)
           /\ \A i \in (Len(a) + 1)..Len(a \o b) :
                (a \o b)[i].op = "T" => (a \o b)[i] = l /\ Nth(a \o b, i) = Nth(a, Len(a)) + 1
<1> DEFINE c == a \o b
           n == Len(a)
           m == Len(b)
<1>1. /\ n \in Nat /\ m \in Nat /\ Len(c) = n + m
      /\ \A i \in 1..n : c[i] = a[i]
      /\ \A i \in 1..m : c[n + i] = b[i]
      /\ DOMAIN b = 1..m
  BY ConcatProperties, LenProperties
<1>2. PICK j \in 1..m : b[j] = l /\ \A k \in 1..m : k # j => b[k].op # "T"
  BY <1>1 DEF Carries
<1> HIDE DEF c, n, m
<1>3. /\ c[n + j] = l /\ n + j \in 1..(n + m)
      /\ \A i \in (n + 1)..(n + m) : i # n + j => c[i].op # "T"
  <2>1. ASSUME NEW i \in (n + 1)..(n + m), i # n + j PROVE c[i].op # "T"
    <3>1. i - n \in 1..m /\ i - n # j /\ n + (i - n) = i
      BY <1>1, <2>1
    <3> QED BY <1>1, <1>2, <3>1
  <2> QED BY <1>1, <1>2, <2>1
<1>4. \A i \in 1..n : Nth(c, i) = Nth(a, i)
  <2> SUFFICES ASSUME NEW i \in 1..n PROVE Nth(c, i) = Nth(a, i)
    OBVIOUS
  <2>1. i \in Nat /\ \A k \in 1..i : c[k].op = a[k].op
    BY <1>1
  <2> QED BY <2>1, NthPrefix
<1>5. Nth(c, n) = Nth(a, n)
  BY <1>1, NthPrefix
<1>6. ASSUME NEW i \in (n + j)..(n + m)
      PROVE  Nth(c, i) = IF l.op = "T" THEN Nth(a, n) + 1 ELSE Nth(a, n)
  <2>1. IsFiniteSet(Changes(c, n))
    BY <1>1, NthSteps
  <2>4. ASSUME NEW k PROVE k \in Changes(c, i) <=> k \in Changes(c, n) \/ (k = n + j /\ l.op = "T")
    <3>1. k \in Changes(c, i) <=> k \in 1..i /\ c[k].op = "T"
      BY DEF Changes
    <3>2. k \in Changes(c, n) <=> k \in 1..n /\ c[k].op = "T"
      BY DEF Changes
    <3>3. k \in 1..i => k \in 1..n \/ k \in (n + 1)..(n + m)
      BY <1>1
    <3>4. n + j \in 1..i /\ (k \in 1..n => k \in 1..i /\ k # n + j)
      BY <1>1
    <3> QED BY <1>3, <3>1, <3>2, <3>3, <3>4
  <2>2. CASE l.op = "T"
    <3>1. Changes(c, i) = Changes(c, n) \cup {n + j}
      BY <2>2, <2>4
    <3>2. n + j \notin Changes(c, n)
      BY <1>1 DEF Changes
    <3>3. Cardinality(Changes(c, n) \cup {n + j}) = Cardinality(Changes(c, n)) + 1
      BY <2>1, <3>2, FS_AddElement
    <3> QED BY <1>5, <2>2, <3>1, <3>3 DEF Nth
  <2>3. CASE l.op # "T"
    <3>1. Changes(c, i) = Changes(c, n)
      BY <2>3, <2>4
    <3> QED BY <1>5, <2>3, <3>1 DEF Nth
  <2> QED BY <2>2, <2>3
<1>7. Nth(c, n + m) = IF l.op = "T" THEN Nth(a, n) + 1 ELSE Nth(a, n)
  BY <1>1, <1>6
<1>8. \A i \in (n + 1)..(n + m) :
        c[i].op = "T" => c[i] = l /\ Nth(c, i) = Nth(a, n) + 1
  <2> SUFFICES ASSUME NEW i \in (n + 1)..(n + m), c[i].op = "T"
               PROVE  c[i] = l /\ Nth(c, i) = Nth(a, n) + 1
    OBVIOUS
  <2>1. i = n + j /\ i \in (n + j)..(n + m)
    BY <1>1, <1>3
  <2> QED BY <1>3, <1>6, <2>1
<1> QED BY <1>1, <1>4, <1>7, <1>8 DEF c, n

\* A file that carries every line of a plain one is plain.
LEMMA PiecesPlain ==
    ASSUME sliced \in Seq(Tools),
           NEW lines, Plain(lines), NEW ss, ss = [i \in 1..Len(lines) |-> ss[i]],
           \A i \in 1..Len(lines) : IsSeq(ss[i]) /\ Carries(ss[i], lines[i])
    PROVE  Plain(FlattenSeq(ss))
<1> DEFINE n == Len(lines)
<1>1. /\ n \in Nat /\ IsProgram(lines) /\ DOMAIN lines = 1..n
      /\ Nth(lines, n) = Len(sliced)
      /\ \A i \in 1..n : lines[i].op = "T" =>
           lines[i].n \in Range(sliced) /\ header[lines[i].n] = header[sliced[Nth(lines, i)]]
  BY SeqIsProgram DEF Plain, SameChanges, IsProgram
<1>2. PICK S : ss \in Seq(Seq(S))
  BY <1>1, PartsIn
<1>3. Len(ss) = n /\ \A i \in 1..n : ss[i] \in Seq(S)
  BY <1>1, <1>2, PartsIn
<1>4. PICK made : /\ made[0] = <<>> /\ made[n] = FlattenSeq(ss)
                  /\ \A i \in 0..n : made[i] \in Seq(S)
                  /\ \A i \in 1..n : made[i] = made[i - 1] \o ss[i]
  <2>1. \E made : /\ made[0] = <<>> /\ made[Len(ss)] = FlattenSeq(ss)
                  /\ \A i \in 0..Len(ss) : made[i] \in Seq(S)
                  /\ \A i \in 1..Len(ss) : made[i] = made[i - 1] \o ss[i]
    BY <1>2, FlattenSteps, Zenon
  <2> QED BY <1>3, <2>1
<1> DEFINE Good(i) ==
             /\ Nth(made[i], Len(made[i])) = Nth(lines, i)
             /\ \A j \in 1..Len(made[i]) :
                  made[i][j].op = "T" =>
                       /\ made[i][j].n \in Range(sliced)
                       /\ header[made[i][j].n] = header[sliced[Nth(made[i], j)]]
           G == {i \in 0..n : Good(i)}
<1> HIDE DEF n
<1>5. 0 \in G
  <2>1. Len(made[0]) = 0
    BY <1>4
  <2>2. Nth(made[0], 0) = 0 /\ Nth(lines, 0) = 0
    BY NthSteps
  <2>3. 0 \in 0..n /\ 1..0 = {}
    BY <1>1
  <2> QED BY <2>1, <2>2, <2>3
<1>6. ASSUME NEW i \in 0..(n - 1), i \in G PROVE i + 1 \in G
  <2> DEFINE a == made[i]
             b == ss[i + 1]
             c == a \o b
             l == lines[i + 1]
  <2>1. /\ i + 1 \in 1..n /\ i + 1 \in 0..n /\ i \in 0..n /\ (i + 1) - 1 = i /\ i + 1 \in Nat \ {0}
    BY <1>1
  <2>2. a \in Seq(S) /\ b \in Seq(S) /\ Carries(b, l) /\ made[i + 1] = c
    BY <1>3, <1>4, <2>1 DEF n
  <2>3. Good(i)
    BY <1>6
  <2> HIDE DEF a, b, l
  <2>4. /\ Len(a) \in Nat /\ Len(c) \in Nat /\ \A j \in 1..Len(a) : c[j] = a[j]
    BY <2>2, ConcatProperties, LenProperties
  <2>5. /\ Nth(c, Len(c)) = IF l.op = "T" THEN Nth(a, Len(a)) + 1 ELSE Nth(a, Len(a))
        /\ \A j \in 1..Len(a) : Nth(c, j) = Nth(a, j)
        /\ \A j \in (Len(a) + 1)..Len(c) :
             c[j].op = "T" => c[j] = l /\ Nth(c, j) = Nth(a, Len(a)) + 1
    BY <2>2, CarriedNth
  <2>6. Nth(lines, i + 1) = IF l.op = "T" THEN Nth(lines, i) + 1 ELSE Nth(lines, i)
    BY <2>1, NthSteps DEF l
  <2>7. l.op = "T" => l.n \in Range(sliced) /\ header[l.n] = header[sliced[Nth(lines, i + 1)]]
    BY <1>1, <2>1 DEF l
  <2>8. /\ Nth(a, Len(a)) = Nth(lines, i)
        /\ \A j \in 1..Len(a) :
             a[j].op = "T" => /\ a[j].n \in Range(sliced)
                              /\ header[a[j].n] = header[sliced[Nth(a, j)]]
    BY <2>3 DEF a
  <2> HIDE DEF c
  <2>9. ASSUME NEW j \in 1..Len(c)
        PROVE  c[j].op = "T" => /\ c[j].n \in Range(sliced)
                                /\ header[c[j].n] = header[sliced[Nth(c, j)]]
    <3>1. CASE j \in 1..Len(a)
      BY <2>4, <2>5, <2>8, <3>1
    <3>2. CASE j \notin 1..Len(a)
      <4>1. j \in (Len(a) + 1)..Len(c)
        BY <2>4, <3>2
      <4> QED BY <2>5, <2>6, <2>7, <2>8, <4>1
    <3> QED BY <3>1, <3>2
  <2>10. Nth(c, Len(c)) = Nth(lines, i + 1)
    BY <2>5, <2>6, <2>8
  <2>11. Good(i + 1)
    BY <2>2, <2>9, <2>10
  <2> QED BY <2>1, <2>11
<1>7. Good(n)
  <2> HIDE DEF Good
  <2>1. 0..n \subseteq G
    <3> HIDE DEF G
    <3> QED BY <1>1, <1>5, <1>6, Upwards
  <2> QED BY <1>1, <2>1
<1> DEFINE out == FlattenSeq(ss)
<1>8. out \in Seq(S) /\ DOMAIN out = 1..Len(out)
  <2>1. out \in Seq(S)
    BY <1>2, FlattenTyped
  <2> HIDE DEF out
  <2> QED BY <2>1
<1>9. /\ Nth(out, Len(out)) = Len(sliced)
      /\ \A j \in 1..Len(out) :
                  out[j].op = "T" =>
                       /\ out[j].n \in Range(sliced)
                       /\ header[out[j].n] = header[sliced[Nth(out, j)]]
  BY <1>1, <1>4, <1>7
<1> HIDE DEF out
<1>10. IsSeq(out)
  BY <1>8 DEF IsSeq
<1>11. SameChanges(out)
  BY <1>8, <1>9 DEF SameChanges
<1>12. Plain(out)
  BY <1>8, <1>9, <1>10, <1>11 DEF Plain
<1> QED BY <1>12 DEF out

\* What the slicer wrote is plain, ...
LEMMA SlicedPlain ==
    ASSUME sliced \in SlicerPrograms
    PROVE  Plain(Sliced(sliced))
<1>1. PICK n \in 1..MaxChanges : sliced \in [1..n -> Tools]
  BY DEF SlicerPrograms
<1>2. n \in Nat /\ DOMAIN sliced = 1..n /\ sliced \in Seq(Tools) /\ Len(sliced) = n
  <2>1. n \in Nat
    BY SizeAssumption
  <2> QED BY <1>1, <2>1
<1> DEFINE lines == [i \in 1..n |-> Change(sliced[i])]
           ss == [i \in DOMAIN sliced |->
                    IF (i - 1) % PerLayer = 0 THEN <<Mark((i - 1) \div PerLayer), Change(sliced[i])>>
                    ELSE <<Change(sliced[i])>>]
<1>3. /\ DOMAIN lines = 1..n /\ Len(lines) = n /\ IsSeq(lines)
      /\ \A i \in 1..n : lines[i] = Change(sliced[i])
  <2>1. IsSeq(lines)
    BY <1>2, FunctionIsSeq
  <2> QED BY <1>2, <2>1
<1> HIDE DEF lines
<1>4. ASSUME NEW i \in 0..n PROVE Nth(lines, i) = i
  <2>1. Changes(lines, i) = 1..i
    BY <1>2, <1>3 DEF Changes, Change
  <2> QED BY <1>2, <2>1, FS_Interval DEF Nth
<1>5. Plain(lines)
  <2>1. SameChanges(lines)
    <3>1. Nth(lines, Len(lines)) = Len(sliced)
      BY <1>2, <1>3, <1>4
    <3>2. ASSUME NEW i \in 1..n
          PROVE  lines[i].n = sliced[i] /\ Nth(lines, i) = i /\ sliced[i] \in Range(sliced)
      BY <1>2, <1>3, <1>4 DEF Change, Range
    <3> QED BY <1>3, <3>1, <3>2 DEF SameChanges
  <2> QED BY <1>3, <2>1 DEF Plain
<1>6. ss = [i \in 1..n |-> ss[i]]
  BY <1>2
<1>7. ASSUME NEW i \in 1..n PROVE IsSeq(ss[i]) /\ Carries(ss[i], lines[i])
  <2>1. \/ ss[i] = <<Change(sliced[i])>>
        \/ ss[i] = <<Mark((i - 1) \div PerLayer), Change(sliced[i])>>
    BY <1>2
  <2> HIDE DEF ss
  <2>2. IsSeq(ss[i])
    BY <2>1, SmallSeqs
  <2>3. CASE ss[i] = <<Change(sliced[i])>>
    <3>1. DOMAIN ss[i] = {1} /\ ss[i][1] = lines[i]
      BY <1>3, <2>3
    <3> QED BY <2>2, <3>1 DEF Carries
  <2>4. CASE ss[i] = <<Mark((i - 1) \div PerLayer), Change(sliced[i])>>
    <3>1. DOMAIN ss[i] = {1, 2} /\ ss[i][2] = lines[i] /\ ss[i][1].op = "LAYER"
      BY <1>3, <2>4 DEF Mark
    <3> QED BY <2>2, <3>1 DEF Carries
  <2> QED BY <2>1, <2>3, <2>4
<1> HIDE DEF ss
<1>8. Plain(FlattenSeq(ss))
  BY <1>2, <1>3, <1>5, <1>6, <1>7, PiecesPlain
<1> QED BY <1>8 DEF Sliced, ss

\* ... a change to the first tool of the same filament leaves it plain, ...
LEMMA AliasedPlain ==
    ASSUME sliced \in Seq(Tools), NEW lines, Plain(lines), NEW r, NEW tab
    PROVE  Plain(Aliased(lines, header, r, tab))
<1> DEFINE Found(t) == tab[t] # None \/ Exact(header, r, t) # {}
           Alike(t) == {u \in Tools : header[u] = header[t] /\ Uses(lines, u) # {}}
           First(t) == CHOOSE u \in Alike(t) :
                         \A v \in Alike(t) : FirstUse(lines, u) <= FirstUse(lines, v)
           new == Aliased(lines, header, r, tab)
           n == Len(lines)
<1>1. /\ n \in Nat /\ IsProgram(lines) /\ DOMAIN lines = 1..n
      /\ Nth(lines, n) = Len(sliced)
      /\ \A i \in 1..n : lines[i].op = "T" =>
           lines[i].n \in Range(sliced) /\ header[lines[i].n] = header[sliced[Nth(lines, i)]]
  BY SeqIsProgram DEF Plain, SameChanges, IsProgram
<1>2. Range(sliced) \subseteq Tools
  BY DEF Range
<1>3. new = [i \in 1..n |-> IF lines[i].op = "T" /\ Found(lines[i].n)
                            THEN Change(First(lines[i].n)) ELSE lines[i]]
  BY <1>1 DEF Aliased
<1>4. ASSUME NEW i \in 1..n, lines[i].op = "T" PROVE First(lines[i].n) \in Alike(lines[i].n)
  <2> DEFINE t == lines[i].n
             A == Alike(t)
             U == {FirstUse(lines, u) : u \in A}
  <2>1. t \in A
    BY <1>1, <1>2, <1>4 DEF Uses
  <2>2. U \in SUBSET Nat /\ U # {}
    BY <1>1, <2>1, FirstUseIn
  <2>3. PICK m \in U : \A k \in U : m <= k
    <3> HIDE DEF U
    <3> QED BY <2>2, LeastExists
  <2>4. \E u \in A : \A v \in A : FirstUse(lines, u) <= FirstUse(lines, v)
    <3>1. PICK u \in A : m = FirstUse(lines, u)
      OBVIOUS
    <3>2. \A v \in A : FirstUse(lines, v) \in U
      OBVIOUS
    <3> HIDE DEF A
    <3> QED BY <2>3, <3>1, <3>2
  <2> HIDE DEF A
  <2>5. (CHOOSE u \in A : \A v \in A : FirstUse(lines, u) <= FirstUse(lines, v)) \in A
    BY <2>4
  <2> QED BY <2>5, Zenon DEF A
<1>5. ASSUME NEW i \in 1..n
      PROVE  /\ new[i].op = lines[i].op
             /\ lines[i].op = "T" =>
                  new[i].n \in Range(sliced) /\ header[new[i].n] = header[lines[i].n]
  <2>1. CASE lines[i].op = "T" /\ Found(lines[i].n)
    <3> DEFINE u == First(lines[i].n)
    <3>1. u \in Tools /\ header[u] = header[lines[i].n] /\ Uses(lines, u) # {}
      BY <1>4, <2>1
    <3>2. new[i] = Change(u)
      BY <1>3, <2>1
    <3> HIDE DEF u
    <3>3. PICK j \in 1..n : lines[j].op = "T" /\ lines[j].n = u
      BY <1>1, <3>1 DEF Uses
    <3> QED BY <1>1, <2>1, <3>1, <3>2, <3>3 DEF Change
  <2>2. CASE ~(lines[i].op = "T" /\ Found(lines[i].n))
    <3>1. new[i] = lines[i]
      BY <1>3, <2>2
    <3> QED BY <1>1, <3>1
  <2> QED BY <2>1, <2>2
<1>6. DOMAIN new = 1..n /\ IsSeq(new) /\ Len(new) = n
  <2>1. IsSeq(new)
    BY AliasedIsSeq DEF Plain
  <2>2. DOMAIN new = 1..n
    BY <1>3
  <2> HIDE DEF new
  <2> QED BY <1>1, <2>1, <2>2 DEF IsSeq
<1> HIDE DEF new
<1>7. ASSUME NEW i \in 0..n PROVE Nth(new, i) = Nth(lines, i)
  <2>1. i \in Nat /\ \A j \in 1..i : new[j].op = lines[j].op
    BY <1>1, <1>5
  <2> QED BY <2>1, NthPrefix
<1>8. Nth(new, n) = Len(sliced)
  BY <1>1, <1>7
<1>9. ASSUME NEW i \in 1..n
      PROVE  new[i].op = "T" => new[i].n \in Range(sliced)
                                /\ header[new[i].n] = header[sliced[Nth(new, i)]]
  <2>1. Nth(new, i) = Nth(lines, i)
    BY <1>7
  <2> QED BY <1>1, <1>5, <2>1
<1>10. Plain(new)
  BY <1>6, <1>8, <1>9 DEF Plain, SameChanges
<1> QED BY <1>10 DEF new

\* ... so do loads after the marks, ...
LEMMA PreloadedPlain ==
    ASSUME sliced \in Seq(Tools), NEW lines, Plain(lines), NEW tab
    PROVE  Plain(Preloaded(lines, tab))
<1>1. Len(lines) \in Nat /\ DOMAIN lines = 1..Len(lines)
  BY SeqIsProgram DEF IsProgram, Plain
<1> DEFINE Ends(i) == {j \in DOMAIN lines : j > i /\ lines[j].op = "LAYER"} \cup {Len(lines) + 1}
           Layer(i) == {j \in DOMAIN lines : j > i /\ \A k \in Ends(i) : j < k}
           Needs(i) == {t \in Appearing(lines, tab) : Uses(lines, t) \cap Layer(i) # {}}
           First(i, t) == CHOOSE j \in Uses(lines, t) \cap Layer(i) :
                            \A k \in Uses(lines, t) \cap Layer(i) : j <= k
           Before(i, t) == {u \in Needs(i) : First(i, u) < First(i, t)}
           Loaded(i, h) == Load(h, tab[CHOOSE t \in Needs(i) : Cardinality(Before(i, t)) = h])
           Fresh(i) == [h \in 1..Cardinality(Needs(i)) |->
                          IF \E j \in Layer(i) : lines[j] = Loaded(i, h - 1)
                          THEN <<>> ELSE <<Loaded(i, h - 1)>>]
           ss == [i \in DOMAIN lines |->
                    IF lines[i].op = "LAYER" /\ Cardinality(Needs(i)) <= NHeads
                    THEN <<lines[i]>> \o FlattenSeq(Fresh(i)) ELSE <<lines[i]>>]
<1>2. Preloaded(lines, tab) = FlattenSeq(ss)
  BY DEF Preloaded
<1>3. ASSUME NEW i \in DOMAIN lines PROVE Cardinality(Needs(i)) \in Nat
  <2>1. Needs(i) \in SUBSET Tools
    BY DEF Appearing
  <2> HIDE DEF Needs
  <2> QED BY <2>1, ToolsFinite, FS_Subset, FS_CardinalityType
<1>4. ASSUME NEW i \in DOMAIN lines
      PROVE  \E S : FlattenSeq(Fresh(i)) \in Seq(S) /\ \A l \in S : l.op = "ACE_LOAD_HEAD"
  <2> DEFINE n == Cardinality(Needs(i))
             f == Fresh(i)
             S == {Loaded(i, h - 1) : h \in 1..n}
  <2> HIDE DEF Needs, Layer, Before
  <2>0. \A h : Loaded(i, h).op = "ACE_LOAD_HEAD"
    BY DEF Load
  <2> HIDE DEF Loaded
  <2>1. \A l \in S : l.op = "ACE_LOAD_HEAD"
    BY <2>0
  <2>2. DOMAIN f = 1..n /\ \A h \in 1..n : f[h] \in Seq(S)
    <3> SUFFICES ASSUME NEW h \in 1..n PROVE f[h] \in Seq(S)
      OBVIOUS
    <3>1. f[h] = <<>> \/ f[h] = <<Loaded(i, h - 1)>>
      OBVIOUS
    <3>2. Loaded(i, h - 1) \in S
      OBVIOUS
    <3>3. <<>> \in Seq(S) /\ \A l \in S : <<l>> \in Seq(S)
      <4> HIDE DEF S
      <4> QED OBVIOUS
    <3> HIDE DEF f, S, Loaded
    <3>4. CASE f[h] = <<>>
      BY <3>3, <3>4
    <3>5. CASE f[h] = <<Loaded(i, h - 1)>>
      <4>1. <<Loaded(i, h - 1)>> \in Seq(S)
        BY <3>2, <3>3
      <4> QED BY <3>5, <4>1
    <3> QED BY <3>1, <3>4, <3>5
  <2>3. f = [h \in 1..n |-> f[h]]
    OBVIOUS
  <2>4. n \in Nat
    BY <1>3
  <2> HIDE DEF f, n, S
  <2>5. f \in Seq(Seq(S))
    <3>1. f \in [1..n -> Seq(S)]
      BY <2>2, <2>3
    <3> HIDE DEF f
    <3> QED BY <2>4, <3>1
  <2>6. FlattenSeq(f) \in Seq(S)
    BY <2>5, FlattenTyped
  <2> QED BY <2>1, <2>6 DEF f
<1> HIDE DEF Needs, Fresh
<1>5. ss = [i \in 1..Len(lines) |-> ss[i]]
  BY <1>1
<1>6. ASSUME NEW i \in 1..Len(lines) PROVE IsSeq(ss[i]) /\ Carries(ss[i], lines[i])
  <2> DEFINE l == lines[i]
             one == <<l>>
  <2>1. PICK S : FlattenSeq(Fresh(i)) \in Seq(S) /\ \A e \in S : e.op = "ACE_LOAD_HEAD"
    BY <1>1, <1>4
  <2> DEFINE loads == FlattenSeq(Fresh(i))
  <2>2. ss[i] = one \o loads \/ ss[i] = one
    BY <1>1
  <2> HIDE DEF ss, loads
  <2>3. IsSeq(one) /\ DOMAIN one = {1} /\ one[1] = l
    BY SmallSeqs
  <2>4. IsSeq(one \o loads)
    BY <2>1, <2>3, SmallSeqs DEF IsSeq, loads
  <2>5. one \in Seq({l} \cup S) /\ loads \in Seq({l} \cup S) /\ Len(one) = 1
    BY <2>1 DEF loads
  <2>6. /\ (one \o loads)[1] = l /\ 1 \in DOMAIN (one \o loads)
        /\ \A k \in DOMAIN (one \o loads) : k # 1 => (one \o loads)[k].op = "ACE_LOAD_HEAD"
    <3>1. /\ Len(loads) \in Nat /\ Len(one \o loads) = 1 + Len(loads)
          /\ DOMAIN (one \o loads) = 1..(1 + Len(loads))
          /\ \A k \in 1..1 : (one \o loads)[k] = one[k]
          /\ \A k \in 1..Len(loads) : (one \o loads)[1 + k] = loads[k]
      <4> DEFINE U == {l} \cup S
      <4> HIDE DEF one, U
      <4>1. one \in Seq(U) /\ loads \in Seq(U) /\ Len(one) = 1
        BY <2>5 DEF U
      <4>2. one \o loads \in Seq(U) /\ Len(one \o loads) = Len(one) + Len(loads)
            /\ \A k \in 1..(Len(one) + Len(loads)) : (one \o loads)[k] =
                 IF k <= Len(one) THEN one[k] ELSE loads[k - Len(one)]
        BY <4>1, ConcatProperties, Zenon
      <4>3. Len(loads) \in Nat /\ DOMAIN (one \o loads) = 1..Len(one \o loads)
        BY <4>1, <4>2, LenProperties
      <4>4. \A k \in 1..Len(loads) : 1 + k \in 1..(1 + Len(loads)) /\ ~(1 + k <= 1) /\ (1 + k) - 1 = k
        BY <4>3
      <4>5. 1 \in 1..(1 + Len(loads)) /\ \A k \in 1..1 : k = 1
        BY <4>3
      <4> QED BY <4>1, <4>2, <4>3, <4>4, <4>5
    <3>2. ASSUME NEW k \in 1..(1 + Len(loads)), k # 1
          PROVE  (one \o loads)[k].op = "ACE_LOAD_HEAD"
      <4>1. k - 1 \in 1..Len(loads) /\ 1 + (k - 1) = k
        BY <3>1, <3>2
      <4>2. (one \o loads)[k] = loads[k - 1]
        BY <3>1, <4>1
      <4>3. loads[k - 1] \in S
        BY <2>1, <4>1 DEF loads
      <4> QED BY <2>1, <4>2, <4>3
    <3> QED BY <2>3, <3>1, <3>2
  <2>7. Carries(one \o loads, l)
    <3> HIDE DEF one
    <3> QED BY <2>6 DEF Carries
  <2>8. Carries(one, l)
    BY <2>3 DEF Carries
  <2> HIDE DEF one
  <2> QED BY <2>2, <2>3, <2>4, <2>7, <2>8
<1>7. Plain(FlattenSeq(ss))
  <2> HIDE DEF ss
  <2> QED BY <1>5, <1>6, PiecesPlain
<1> QED BY <1>2, <1>7

\* ... and so does a pass that resolves no tool.
LEMMA UnresolvedPlain ==
    ASSUME sliced \in Seq(Tools), NEW p, Plain(p.lines), NEW w, w.swaps = <<>>,
           \A t \in Tools : w.phys[t] = None /\ w.headOf[t] = None
    PROVE  Plain(Rewritten(p, w))
<1>1. Len(p.lines) \in Nat /\ DOMAIN p.lines = 1..Len(p.lines)
  BY SeqIsProgram DEF IsProgram, Plain
<1> DEFINE phys == Settled(w)
           Swaps(i) == {k \in DOMAIN w.swaps : w.swaps[k].line = i}
           Before(i) == IF Swaps(i) = {} THEN <<>>
                        ELSE LET s == w.swaps[CHOOSE k \in Swaps(i) : TRUE]
                             IN <<Park(s.head), Load(s.head, p.tab[s.in])>>
           Renamed(line) == IF line.op = "T" /\ line.n \in Tools /\ phys[line.n] # None
                            THEN Change(phys[line.n]) ELSE line
           ss == [i \in DOMAIN p.lines |-> Append(Before(i), Renamed(p.lines[i]))]
<1>2. Rewritten(p, w) = FlattenSeq(ss)
  BY DEF Rewritten
<1>3. \A i : Before(i) = <<>>
  <2>1. DOMAIN w.swaps = {}
    OBVIOUS
  <2> QED BY <2>1
<1>4. \A t \in Tools : phys[t] = None
  BY DEF Settled
<1>5. \A l : Renamed(l) = l
  BY <1>4
<1> HIDE DEF Before, Renamed
<1>6. ss = [i \in 1..Len(p.lines) |-> ss[i]]
  BY <1>1
<1>7. ASSUME NEW i \in 1..Len(p.lines) PROVE IsSeq(ss[i]) /\ Carries(ss[i], p.lines[i])
  <2>1. ss[i] = <<p.lines[i]>>
    <3>1. ss[i] = Append(Before(i), Renamed(p.lines[i]))
      BY <1>1
    <3>2. Before(i) = <<>> /\ Renamed(p.lines[i]) = p.lines[i]
      BY <1>3, <1>5, Zenon
    <3> HIDE DEF ss
    <3> QED BY <3>1, <3>2
  <2> HIDE DEF ss
  <2>2. DOMAIN ss[i] = {1} /\ ss[i][1] = p.lines[i]
    BY <2>1
  <2> QED BY <2>1, <2>2, SmallSeqs DEF Carries
<1>8. Plain(FlattenSeq(ss))
  <2> HIDE DEF ss
  <2> QED BY <1>6, <1>7, PiecesPlain
<1> QED BY <1>2, <1>8

\* Tools of one filament are matched with one slot.
LEMMA MatchAlike ==
    ASSUME NEW h, NEW r, NEW fuzzy, NEW t \in Tools, NEW u \in Tools, h[t] = h[u]
    PROVE  MatchTools(h, r, fuzzy)[t] = MatchTools(h, r, fuzzy)[u]
<1>1. Exact(h, r, t) = Exact(h, r, u)
  BY DEF Exact
<1>2. SameMaterial(h, r, t) = SameMaterial(h, r, u)
  BY DEF SameMaterial
<1>3. Tiers(h, r, t) = Tiers(h, r, u)
  BY <1>2 DEF Tiers
<1>4. \A S : Nearest(h, r, t, S) = Nearest(h, r, u, S)
  BY DEF Nearest
<1>5. FuzzyResolve(h, r, t) = FuzzyResolve(h, r, u)
  BY <1>3, <1>4 DEF FuzzyResolve
<1> QED BY <1>1, <1>5 DEF MatchTools

-----------------------------------------------------------------------------
(* What a walk has behind it. *)

\* The plan of a pass, as the sidecar keeps it
PlanOf(p, w) == [tab |-> p.tab, start |-> p.start, swaps |-> w.swaps]

\* The plan gives tool t head h: it begins on it, or a swap brings it there.
Given(sc, t, h) ==
    sc.start[h] = t \/ \E k \in DOMAIN sc.swaps : sc.swaps[k].in = t /\ sc.swaps[k].head = h

\* The tool that a head has once the swaps are made has been given it.
LEMMA HeldIsPlanned ==
    ASSUME NEW sc, sc.swaps \in Seq(SwapRecord), NEW k \in 0..Len(sc.swaps), NEW g \in Heads,
           NEW t, HeadsAfter(sc.start, sc.swaps, k)[g] = t
    PROVE  Given(sc, t, g)
<1> DEFINE I == {j \in 1..k : sc.swaps[j].head = g}
<1>1. HeadsAfter(sc.start, sc.swaps, k)[g] = IF I = {} THEN sc.start[g] ELSE sc.swaps[Max(I)].in
  BY DEF HeadsAfter
<1>2. CASE I = {}
  BY <1>1, <1>2 DEF Given
<1>3. CASE I # {}
  <2>1. I \in SUBSET (1..k) /\ k \in Nat
    BY LenProperties
  <2>2. Max(I) \in I
    <3> HIDE DEF I
    <3> QED BY <1>3, <2>1, GreatestIn
  <2>3. Max(I) \in DOMAIN sc.swaps /\ sc.swaps[Max(I)].head = g
    BY <2>1, <2>2, LenProperties
  <2> HIDE DEF I
  <2>4. sc.swaps[Max(I)].in = t
    BY <1>1, <1>3
  <2> QED BY <2>3, <2>4 DEF Given
<1> QED BY <1>2, <1>3

\* What a plan has been resolved for: it speaks of tools that have a spool.
Resolves(p, w) ==
    /\ \A h \in Heads : p.start[h] # None => p.tab[p.start[h]] # None
    /\ \A h \in Heads : w.heads[h] # None => p.tab[w.heads[h]] # None
    /\ \A t \in Tools : w.phys[t] # None => p.tab[t] # None
    /\ \A k \in DOMAIN w.swaps : p.tab[w.swaps[k].in] # None

\* The head the walk notes for a tool is one the plan gives it, and each resolved
\* tool of a change behind the walk has one noted.
Reaches(p, w) ==
    /\ \A t \in Tools : w.phys[t] # None => w.phys[t] \in Heads /\ Given(PlanOf(p, w), t, w.phys[t])
    /\ \A i \in 1..(w.at - 1) :
         p.lines[i].op = "T" /\ p.lines[i].n \in Tools /\ p.tab[p.lines[i].n] # None =>
           w.phys[p.lines[i].n] # None

WalkInv == stage # "idle" => Resolves(pass, walk) /\ Reaches(pass, walk)

\* A walk begins with nothing behind it.
LEMMA BeginsWalk ==
    ASSUME NEW p, Begins(p), IsProgram(p.lines), p.start = FirstHeads(p.lines, p.tab)
    PROVE  WalkInv'
<1>1. /\ pass' = p /\ walk'.at = 1 /\ walk'.heads = p.start /\ walk'.swaps = <<>>
      /\ walk'.phys = [t \in Tools |-> None]
  BY DEF Begins, WalkFrom
<1>2. ASSUME NEW h \in Heads, p.start[h] # None PROVE p.tab[p.start[h]] # None
  <2>1. p.start[h] \in Held(p.start)
    BY <1>2 DEF Held
  <2>2. p.start[h] \in Appearing(p.lines, p.tab)
    BY <2>1, FirstHeadsHold
  <2> QED BY <2>2 DEF Appearing
<1>3. DOMAIN <<>> = {} /\ 1..(1 - 1) = {}
  OBVIOUS
<1>4. Resolves(p, walk')
  BY <1>1, <1>2, <1>3 DEF Resolves
<1>5. Reaches(p, walk')
  BY <1>1, <1>3 DEF Reaches
<1> QED BY <1>1, <1>4, <1>5 DEF WalkInv

\* Each line of the walk keeps both.
LEMMA PlanLineWalk ==
    ASSUME Replay, WalkInv, PlanLine, walk.at \in Nat \ {0}
    PROVE  WalkInv'
<1> DEFINE at == walk.at
           line == pass.lines[at]
           needed == line.op = "T" /\ line.n \in Tools /\ pass.tab[line.n] # None
           n == Len(walk.swaps)
<1>1. /\ stage = "plan" /\ UNCHANGED <<stage, pass>>
      /\ \/ ~needed /\ walk' = Skip(walk)
         \/ needed /\ walk.headOf[line.n] # None /\ walk' = Stay(walk, line.n)
         \/ needed /\ \E h \in Heads : walk' = Swap(walk, line.n, h)
  BY DEF PlanLine
<1>2. /\ walk.heads \in [Heads -> Tools \cup {None}]
      /\ walk.headOf \in [Tools -> Heads \cup {None}]
      /\ walk.phys \in [Tools -> Heads \cup {None}]
      /\ \A h \in Heads, t \in Tools : walk.heads[h] = t <=> walk.headOf[t] = h
      /\ walk.swaps \in Seq(SwapRecord)
      /\ walk.heads = HeadsAfter(pass.start, walk.swaps, n)
  BY <1>1 DEF Replay, IInv, TypeOK, HeadsInverse, SwapsTyped, SwapsReplay
<1>3. n \in Nat /\ DOMAIN walk.swaps = 1..n
  BY <1>2, LenProperties
<1>4. Resolves(pass, walk) /\ Reaches(pass, walk)
  BY <1>1 DEF WalkInv
<1> HIDE DEF line, n
<1>5. /\ at \in Nat /\ (at + 1) - 1 = at /\ \A i \in 1..at : i \in 1..(at - 1) \/ i = at
  OBVIOUS
<1>6. CASE ~needed /\ walk' = Skip(walk)
  <2>1. /\ walk'.at = at + 1 /\ walk'.heads = walk.heads /\ walk'.swaps = walk.swaps
        /\ walk'.phys = walk.phys
    BY <1>6 DEF Skip
  <2>2. Resolves(pass, walk')
    BY <1>4, <2>1 DEF Resolves
  <2>3. PlanOf(pass, walk') = PlanOf(pass, walk)
    BY <2>1 DEF PlanOf
  <2>4. Reaches(pass, walk')
    BY <1>4, <1>5, <1>6, <2>1, <2>3 DEF Reaches, line
  <2> QED BY <1>1, <2>2, <2>4 DEF WalkInv
<1>7. CASE needed /\ walk.headOf[line.n] # None /\ walk' = Stay(walk, line.n)
  <2> DEFINE t == line.n
             h == walk.headOf[t]
  <2>1. /\ walk'.at = at + 1 /\ walk'.heads = walk.heads /\ walk'.swaps = walk.swaps
        /\ walk'.phys = [walk.phys EXCEPT ![t] = h]
    BY <1>7 DEF Stay
  <2>2. t \in Tools /\ h \in Heads /\ walk.heads[h] = t /\ h # None /\ pass.tab[t] # None
    BY <1>2, <1>7
  <2> HIDE DEF t, h
  <2>3. PlanOf(pass, walk') = PlanOf(pass, walk)
    BY <2>1 DEF PlanOf
  <2>4. Given(PlanOf(pass, walk), t, h)
    <3> DEFINE sc == PlanOf(pass, walk)
    <3>1. sc.swaps = walk.swaps /\ sc.start = pass.start /\ n \in 0..Len(sc.swaps)
      BY <1>3 DEF PlanOf, n
    <3> HIDE DEF sc
    <3>2. HeadsAfter(sc.start, sc.swaps, n)[h] = t
      BY <1>2, <2>2, <3>1
    <3>3. sc.swaps \in Seq(SwapRecord)
      BY <1>2, <3>1
    <3>4. Given(sc, t, h)
      BY <2>2, <3>1, <3>2, <3>3, HeldIsPlanned
    <3> QED BY <3>4 DEF sc
  <2>5. Resolves(pass, walk')
    BY <1>2, <1>4, <2>1, <2>2 DEF Resolves
  <2>7. \A u \in Tools : walk'.phys[u] # None =>
          walk'.phys[u] \in Heads /\ Given(PlanOf(pass, walk'), u, walk'.phys[u])
    BY <1>2, <1>4, <2>1, <2>2, <2>3, <2>4 DEF Reaches
  <2>8. ASSUME NEW i \in 1..at, pass.lines[i].op = "T", pass.lines[i].n \in Tools,
               pass.tab[pass.lines[i].n] # None
        PROVE  walk'.phys[pass.lines[i].n] # None
    <3>1. CASE i = at
      BY <1>2, <2>1, <2>2, <3>1 DEF t, line
    <3>2. CASE i # at
      BY <1>2, <1>4, <1>5, <2>1, <2>2, <2>8, <3>2 DEF Reaches
    <3> QED BY <3>1, <3>2
  <2>9. Reaches(pass, walk')
    BY <1>4, <1>5, <2>1, <2>7, <2>8 DEF Reaches
  <2> QED BY <1>1, <2>5, <2>9 DEF WalkInv
<1>8. ASSUME needed, NEW h \in Heads, walk' = Swap(walk, line.n, h)
      PROVE  WalkInv'
  <2> DEFINE t == line.n
             e == [line |-> at, head |-> h, out |-> walk.heads[h], in |-> t]
             swaps == walk'.swaps
  <2>1. /\ walk'.at = at + 1 /\ walk'.heads = [walk.heads EXCEPT ![h] = t]
        /\ walk'.phys = [walk.phys EXCEPT ![t] = h] /\ swaps = Append(walk.swaps, e)
    BY <1>8 DEF Swap
  <2>2. t \in Tools /\ h # None /\ pass.tab[t] # None
    BY <1>8, NotNumbers
  <2>3. e \in SwapRecord /\ e.line = at /\ e.head = h /\ e.in = t
    BY <1>2, <1>5, <2>2 DEF SwapRecord
  <2> HIDE DEF e, t, swaps
  <2>4. /\ swaps \in Seq(SwapRecord) /\ Len(swaps) = n + 1 /\ DOMAIN swaps = 1..(n + 1)
        /\ \A j \in 1..n : swaps[j] = walk.swaps[j]
        /\ swaps[n + 1] = e
    BY <1>2, <1>3, <2>1, <2>3, AppendProperties, LenProperties DEF n
  <2>7. \A j \in 1..(n + 1) : j \in 1..n \/ j = n + 1
    BY <1>3
  <2>8. Resolves(pass, walk')
    <3>1. \A k \in DOMAIN swaps : pass.tab[swaps[k].in] # None
      BY <1>3, <1>4, <2>2, <2>3, <2>4, <2>7 DEF Resolves
    <3>2. \A g \in Heads : walk'.heads[g] # None => pass.tab[walk'.heads[g]] # None
      BY <1>2, <1>4, <2>1, <2>2 DEF Resolves
    <3>3. \A u \in Tools : walk'.phys[u] # None => pass.tab[u] # None
      BY <1>2, <1>4, <2>1, <2>2 DEF Resolves
    <3> QED BY <1>4, <3>1, <3>2, <3>3 DEF Resolves, swaps
  <2>9. ASSUME NEW u \in Tools, NEW g, Given(PlanOf(pass, walk), u, g)
        PROVE  Given(PlanOf(pass, walk'), u, g)
    <3>1. CASE pass.start[g] = u
      BY <3>1 DEF Given, PlanOf
    <3>2. CASE \E k \in DOMAIN walk.swaps : walk.swaps[k].in = u /\ walk.swaps[k].head = g
      <4>1. PICK k \in 1..n : walk.swaps[k].in = u /\ walk.swaps[k].head = g
        BY <1>3, <3>2
      <4>2. k \in DOMAIN swaps /\ swaps[k].in = u /\ swaps[k].head = g
        BY <1>3, <2>4, <4>1
      <4> QED BY <4>2 DEF Given, PlanOf, swaps
    <3> QED BY <2>9, <3>1, <3>2 DEF Given, PlanOf
  <2>10. Given(PlanOf(pass, walk'), t, h)
    <3>1. n + 1 \in DOMAIN swaps /\ swaps[n + 1].in = t /\ swaps[n + 1].head = h
      BY <1>3, <2>3, <2>4
    <3> QED BY <3>1 DEF Given, PlanOf, swaps
  <2>11. ASSUME NEW u \in Tools, walk'.phys[u] # None
         PROVE  walk'.phys[u] \in Heads /\ Given(PlanOf(pass, walk'), u, walk'.phys[u])
    <3>1. CASE u = t
      BY <1>2, <2>1, <2>2, <2>10, <3>1
    <3>2. CASE u # t
      <4>1. walk'.phys[u] = walk.phys[u]
        BY <1>2, <2>1, <3>2
      <4>2. walk.phys[u] \in Heads /\ Given(PlanOf(pass, walk), u, walk.phys[u])
        BY <1>4, <2>11, <4>1 DEF Reaches
      <4> QED BY <2>9, <4>1, <4>2
    <3> QED BY <3>1, <3>2
  <2>12. ASSUME NEW i \in 1..at, pass.lines[i].op = "T", pass.lines[i].n \in Tools,
                pass.tab[pass.lines[i].n] # None
         PROVE  walk'.phys[pass.lines[i].n] # None
    <3>1. CASE i = at
      BY <1>2, <2>1, <2>2, <3>1 DEF t, line
    <3>2. CASE i # at
      BY <1>2, <1>4, <1>5, <2>1, <2>2, <2>12, <3>2 DEF Reaches
    <3> QED BY <3>1, <3>2
  <2>14. Reaches(pass, walk')
    BY <1>5, <2>1, <2>11, <2>12 DEF Reaches
  <2> QED BY <1>1, <2>8, <2>14 DEF WalkInv
<1> HIDE DEF needed
<1> QED BY <1>1, <1>6, <1>7, <1>8

-----------------------------------------------------------------------------
(* The rewritten file, line by line beside the plan: the heads keep what they  *)
(* begin with.                                                                 *)

\* A file prints each change of the slicer with the spool the plan names for its
\* tool, if it leaves the tools of that spool on the head they begin on.
PrintsOwn(f, sc) ==
    LET printed == Printed(f, Setup(sc))
    IN \A i \in DOMAIN sliced :
         sc.tab[sliced[i]] # None /\ Unmoved(sc, sc.tab[sliced[i]]) =>
           Len(printed) = Len(sliced) /\ printed[i] = sc.tab[sliced[i]]

\* What is in the heads, and has been printed with
IsState(s) == s = [at |-> s.at, out |-> s.out]

\* Each head that begins with a tool has the spool of that tool in it.
Loads(s, p) ==
    /\ s.at = [h \in Heads |-> s.at[h]]
    /\ \A h \in Heads : p.start[h] # None => s.at[h] = p.tab[p.start[h]]

\* The two commands of a swap
Swapped(s, p, e) == Obey(Obey(s, Park(e.head)), Load(e.head, p.tab[e.in]))

\* No line empties a head or loads another spool into one that has one.
LEMMA KeepsLoads ==
    ASSUME NEW p, NEW w, Resolves(p, w), NEW s, IsState(s), Loads(s, p), NEW l
    PROVE  /\ Loads(Obey(s, l), p) /\ IsState(Obey(s, l))
           /\ l.op # "T" => Obey(s, l).out = s.out
<1> DEFINE new == Obey(s, l)
<1>1. CASE l.op = "ACE_LOAD_HEAD"
  <2>1. new = [s EXCEPT !.at[l.n] = IF @ = None THEN l.src ELSE @]
    BY <1>1 DEF Obey
  <2> HIDE DEF new
  <2>2. new = [at |-> [s.at EXCEPT ![l.n] = IF @ = None THEN l.src ELSE @], out |-> s.out]
    BY <2>1 DEF IsState
  <2>3. s.at = [h \in Heads |-> s.at[h]]
    BY DEF Loads
  <2>4. new.at = [h \in Heads |-> new.at[h]]
    BY <2>2, <2>3
  <2>5. ASSUME NEW h \in Heads, p.start[h] # None
        PROVE  new.at[h] = p.tab[p.start[h]]
    <3>1. p.tab[p.start[h]] # None
      BY <2>5 DEF Resolves
    <3>2. s.at[h] = p.tab[p.start[h]]
      BY <2>5 DEF Loads
    <3> QED BY <2>2, <2>3, <3>1, <3>2
  <2> QED BY <2>2, <2>4, <2>5 DEF Loads, IsState, new
<1>2. CASE l.op = "T"
  <2> DEFINE x == IF l.n \in Heads THEN s.at[l.n] ELSE None
  <2>1. new = [s EXCEPT !.out = Append(@, x)]
    BY <1>2 DEF Obey
  <2> HIDE DEF new, x
  <2>2. new = [at |-> s.at, out |-> Append(s.out, x)]
    BY <2>1 DEF IsState
  <2> QED BY <1>2, <2>2 DEF Loads, IsState, new
<1>3. CASE l.op \notin {"T", "ACE_LOAD_HEAD"}
  <2>1. new = s
    BY <1>3 DEF Obey
  <2> QED BY <2>1
<1> QED BY <1>1, <1>2, <1>3

\* A change prints with what is in its head.
LEMMA ChangePrints ==
    ASSUME NEW s, IsState(s), NEW l, l.op = "T"
    PROVE  \E x : /\ Obey(s, l) = [at |-> s.at, out |-> Append(s.out, x)]
                  /\ l.n \in Heads => x = s.at[l.n]
<1> DEFINE x == IF l.n \in Heads THEN s.at[l.n] ELSE None
<1>1. Obey(s, l) = [s EXCEPT !.out = Append(@, x)]
  BY DEF Obey
<1>2. l.n \in Heads => x = s.at[l.n]
  OBVIOUS
<1> HIDE DEF x
<1>3. Obey(s, l) = [at |-> s.at, out |-> Append(s.out, x)]
  BY <1>1 DEF IsState
<1> QED BY <1>2, <1>3

\* One entry more
LEMMA OneMore ==
    ASSUME NEW m \in Nat, NEW f, f = [j \in 1..m |-> f[j]], NEW x
    PROVE  LET g == Append(f, x)
           IN /\ g = [j \in 1..(m + 1) |-> g[j]]
              /\ g[m + 1] = x /\ \A j \in 1..m : g[j] = f[j]
<1> DEFINE U == {f[j] : j \in 1..m} \cup {x}
           g == Append(f, x)
<1>1. \A j \in 1..m : f[j] \in U
  OBVIOUS
<1>2. x \in U
  OBVIOUS
<1> HIDE DEF U
<1>3. f \in [1..m -> U] /\ DOMAIN f = 1..m
  BY <1>1
<1>4. f \in Seq(U) /\ Len(f) = m
  BY <1>3
<1>5. /\ g \in Seq(U) /\ Len(g) = m + 1 /\ g[m + 1] = x
      /\ \A j \in 1..m : g[j] = f[j]
  BY <1>2, <1>4, AppendProperties
<1> HIDE DEF g
<1>6. g = [j \in 1..(m + 1) |-> g[j]]
  BY <1>5, LenProperties
<1> QED BY <1>5, <1>6 DEF g

\* The printer after the lines up to i of a file: it has printed the slicer's
\* changes among them, each as the plan says if nothing moves its spool.
Follows(s, i, p, w) ==
    /\ IsState(s) /\ Loads(s, p)
    /\ s.out = [j \in 1..Nth(p.lines, i) |-> s.out[j]]
    /\ \A j \in 1..Nth(p.lines, i) :
         p.tab[sliced[j]] # None /\ Unmoved(PlanOf(p, w), p.tab[sliced[j]]) =>
           s.out[j] = p.tab[sliced[j]]

\* What the rewriting of a file needs to print as planned
Sound(p, w) ==
    /\ sliced \in Seq(Tools)
    /\ Plain(p.lines)
    /\ Resolves(p, w) /\ Reaches(p, w)
    /\ w.at = Len(p.lines) + 1
    /\ \A t, u \in Tools : header[t] = header[u] => p.tab[t] = p.tab[u]

\* The first head of a printing is loaded as the plan begins.
LEMMA FollowsFirst ==
    ASSUME NEW p, NEW w, Sound(p, w), NEW s,
           s = [at |-> Setup(PlanOf(p, w)), out |-> <<>>]
    PROVE  Follows(s, 0, p, w)
<1>1. s.at = [h \in Heads |-> IF p.start[h] = None THEN None ELSE p.tab[p.start[h]]] /\ s.out = <<>>
  BY DEF Setup, PlanOf
<1>2. Loads(s, p)
  BY <1>1 DEF Loads
<1>3. Nth(p.lines, 0) = 0 /\ 1..0 = {}
  BY NthSteps
<1>4. s.out = [j \in 1..0 |-> s.out[j]]
  BY <1>1
<1>5. IsState(s)
  BY DEF IsState
<1> QED BY <1>2, <1>3, <1>4, <1>5 DEF Follows

\* The two commands of a swap change nothing of it.
LEMMA FollowsSwap ==
    ASSUME NEW p, NEW w, Sound(p, w), NEW i, NEW s, Follows(s, i, p, w), NEW e
    PROVE  Follows(Swapped(s, p, e), i, p, w)
<1> DEFINE x == Park(e.head)
           y == Load(e.head, p.tab[e.in])
           mid == Obey(s, x)
           new == Obey(mid, y)
<1>1. Resolves(p, w) /\ IsState(s) /\ Loads(s, p)
  BY DEF Sound, Follows
<1>2. x.op # "T" /\ y.op # "T"
  BY DEF Park, Load
<1> HIDE DEF x, y
<1>3. Loads(mid, p) /\ IsState(mid) /\ mid.out = s.out
  BY <1>1, <1>2, KeepsLoads
<1> HIDE DEF mid
<1>4. Loads(new, p) /\ IsState(new) /\ new.out = s.out
  BY <1>1, <1>2, <1>3, KeepsLoads
<1>5. new = Swapped(s, p, e)
  BY DEF Swapped, mid, x, y
<1> HIDE DEF new
<1> QED BY <1>4, <1>5 DEF Follows

\* The line itself: a change is renamed to a head that the plan gives its tool,
\* and if nothing moves the spool that is the head the tool begins on.
LEMMA FollowsLine ==
    ASSUME NEW p, NEW w, Sound(p, w), NEW i \in 0..(Len(p.lines) - 1), NEW s, Follows(s, i, p, w)
    PROVE  LET line == p.lines[i + 1]
               phys == Settled(w)
               renamed == IF line.op = "T" /\ line.n \in Tools /\ phys[line.n] # None
                          THEN Change(phys[line.n]) ELSE line
           IN Follows(Obey(s, renamed), i + 1, p, w)
<1> DEFINE n == Len(p.lines)
           line == p.lines[i + 1]
           phys == Settled(w)
           renamed == IF line.op = "T" /\ line.n \in Tools /\ phys[line.n] # None
                      THEN Change(phys[line.n]) ELSE line
           new == Obey(s, renamed)
           m == Nth(p.lines, i)
           sc == PlanOf(p, w)
           Own(j) == p.tab[sliced[j]]
           Stays(j) == Own(j) # None /\ Unmoved(sc, Own(j))
<1>1. IsProgram(p.lines) /\ n \in Nat /\ DOMAIN p.lines = 1..n
  BY SeqIsProgram DEF Sound, Plain, IsProgram
<1>2. i + 1 \in 1..n /\ i + 1 \in Nat \ {0} /\ (i + 1) - 1 = i /\ i \in Nat
      /\ i + 1 \in 1..(w.at - 1)
  BY <1>1 DEF Sound
<1>3. /\ m \in Nat
      /\ Nth(p.lines, i + 1) = IF line.op = "T" THEN m + 1 ELSE m
  <2>1. \A j \in Nat \ {0} : Nth(p.lines, j) =
          IF p.lines[j].op = "T" THEN Nth(p.lines, j - 1) + 1 ELSE Nth(p.lines, j - 1)
    BY NthSteps, Zenon
  <2>2. Nth(p.lines, i) \in Nat
    BY <1>2, NthSteps
  <2> QED BY <1>2, <2>1, <2>2
<1>4. /\ line.op = "T" => /\ line.n \in Range(sliced)
                          /\ header[line.n] = header[sliced[Nth(p.lines, i + 1)]]
      /\ Nth(p.lines, n) = Len(sliced)
  BY <1>1, <1>2 DEF Sound, Plain, SameChanges
<1>5. /\ Resolves(p, w) /\ IsState(s) /\ Loads(s, p)
      /\ s.out = [j \in 1..m |-> s.out[j]] /\ \A j \in 1..m : Stays(j) => s.out[j] = Own(j)
  BY DEF Sound, Follows
<1>6. CASE line.op = "T"
  <2> DEFINE t == line.n
  <2>1. t \in Tools
    <3>1. t \in Range(sliced)
      BY <1>4, <1>6
    <3> QED BY <3>1 DEF Sound, Range
  <2>2. renamed.op = "T" /\ (phys[t] # None => renamed.n = phys[t])
    BY <1>6, <2>1 DEF Change
  <2>3. p.tab[t] = Own(m + 1)
    <3> HIDE DEF line
    <3>1. Nth(p.lines, i + 1) \in 1..Nth(p.lines, n)
      BY <1>1, <1>2, <1>6, NthIn DEF line
    <3>2. m + 1 \in 1..Len(sliced) /\ header[t] = header[sliced[m + 1]]
      <4> HIDE DEF m
      <4> QED BY <1>3, <1>4, <1>6, <3>1
    <3>3. sliced[m + 1] \in Tools
      BY <3>2 DEF Sound
    <3> QED BY <2>1, <3>2, <3>3 DEF Sound
  <2>4. ASSUME Stays(m + 1) PROVE renamed.n \in Heads /\ p.start[renamed.n] # None /\ s.at[renamed.n] = Own(m + 1)
    <3> DEFINE g == w.phys[t]
    <3>1. p.tab[t] # None /\ Unmoved(sc, p.tab[t])
      BY <2>3, <2>4
    <3>2. g # None
      BY <1>2, <1>6, <2>1, <3>1 DEF Sound, Reaches
    <3>3. g \in Heads /\ Given(sc, t, g)
      BY <2>1, <3>2 DEF Sound, Reaches
    <3>4. renamed.n = g
      BY <2>1, <2>2, <3>2 DEF Settled
    <3>5. sc.start = p.start /\ sc.swaps = w.swaps /\ sc.tab = p.tab
      BY DEF PlanOf
    <3> HIDE DEF g, sc, t, renamed
    <3>6. p.start[g] = t
      BY <3>1, <3>3, <3>5 DEF Given, Unmoved
    <3>7. s.at[g] = p.tab[t]
      BY <1>5, <2>1, <3>3, <3>6, NotNumbers DEF Loads
    <3> QED BY <2>1, <2>3, <3>3, <3>4, <3>6, <3>7, NotNumbers
  <2> HIDE DEF t, renamed, m, line
  <2>5. PICK x : /\ new = [at |-> s.at, out |-> Append(s.out, x)]
                 /\ renamed.n \in Heads => x = s.at[renamed.n]
    BY <1>5, <2>2, ChangePrints
  <2> DEFINE g == new.out
  <2> HIDE DEF new, Own, Stays
  <2>6. g = Append(s.out, x) /\ new.at = s.at /\ IsState(new)
    BY <2>5 DEF IsState
  <2>7. /\ g = [j \in 1..(m + 1) |-> g[j]]
        /\ g[m + 1] = x /\ \A j \in 1..m : g[j] = s.out[j]
    <3> DEFINE f == s.out
    <3>1. f = [j \in 1..m |-> f[j]]
      BY <1>5
    <3> HIDE DEF f, g
    <3> QED BY <1>3, <2>6, <3>1, OneMore DEF f
  <2> HIDE DEF g
  <2>8. ASSUME NEW j \in 1..(m + 1), Stays(j) PROVE g[j] = Own(j)
    <3>1. CASE j = m + 1
      BY <2>4, <2>5, <2>7, <2>8, <3>1
    <3>2. CASE j # m + 1
      <4>1. j \in 1..m
        BY <1>3, <3>2
      <4> QED BY <1>5, <2>7, <2>8, <4>1
    <3> QED BY <3>1, <3>2
  <2>9. Loads(new, p)
    BY <1>5, <2>6 DEF Loads
  <2>10. Nth(p.lines, i + 1) = m + 1
    BY <1>3, <1>6
  <2>11. Follows(new, i + 1, p, w)
    BY <2>6, <2>7, <2>8, <2>9, <2>10 DEF Follows, g, Own, Stays, sc
  <2> QED BY <2>11 DEF new, renamed, line
<1>7. CASE line.op # "T"
  <2>1. renamed = line
    BY <1>7
  <2> HIDE DEF renamed
  <2>2. Loads(new, p) /\ IsState(new) /\ new.out = s.out
    BY <1>5, <1>7, <2>1, KeepsLoads
  <2>3. Nth(p.lines, i + 1) = m
    BY <1>3, <1>7
  <2> HIDE DEF new
  <2>4. Follows(new, i + 1, p, w)
    BY <1>5, <2>2, <2>3 DEF Follows
  <2> QED BY <2>4 DEF new, renamed
<1> QED BY <1>6, <1>7

\* What is in the heads, and has been printed with, at the end of a file
AtEnd(lines, start) == Printing(lines, start)[Len(lines)]

LEMMA AppendToTwo ==
    ASSUME NEW x, NEW y, NEW z
    PROVE  Append(<<x, y>>, z) = <<x, y, z>>
<1> DEFINE s == <<x, y>>
           t == <<x, y, z>>
           U == {x, y, z}
<1>1. /\ s \in Seq(U) /\ Len(s) = 2 /\ s[1] = x /\ s[2] = y
      /\ t \in Seq(U) /\ Len(t) = 3 /\ t[1] = x /\ t[2] = y /\ t[3] = z /\ z \in U
  OBVIOUS
<1> HIDE DEF s, t, U
<1>2. /\ Append(s, z) \in Seq(U) /\ Len(Append(s, z)) = Len(s) + 1
      /\ \A i \in 1..Len(s) : Append(s, z)[i] = s[i]
      /\ Append(s, z)[Len(s) + 1] = z
  <2>1. s \in Seq(U) /\ z \in U
    BY <1>1
  <2> QED BY <2>1, AppendProperties
<1>3. Len(Append(s, z)) = 3 /\ \A i \in 1..3 : Append(s, z)[i] = t[i]
  BY <1>1, <1>2
<1>4. Append(s, z) = t
  BY <1>1, <1>2, <1>3, SeqEqual
<1> QED BY <1>4 DEF s, t

\* The lines of a part that is added are obeyed one after the other.
LEMMA AtEndSwapped ==
    ASSUME NEW S, NEW a \in Seq(S), NEW start, NEW p, NEW e, NEW r,
           <<Park(e.head), Load(e.head, p.tab[e.in]), r>> \in Seq(S)
    PROVE  AtEnd(a \o <<Park(e.head), Load(e.head, p.tab[e.in]), r>>, start)
             = Obey(Swapped(AtEnd(a, start), p, e), r)
<1> DEFINE x == Park(e.head)
           y == Load(e.head, p.tab[e.in])
           b == <<x, y, r>>
<1>1. x \in S /\ y \in S /\ r \in S
  <2>1. b \in Seq(S) /\ Len(b) = 3 /\ b[1] = x /\ b[2] = y /\ b[3] = r
    OBVIOUS
  <2> HIDE DEF b, x, y
  <2>2. b \in [1..3 -> S]
    BY <2>1, LenProperties
  <2>3. 1 \in 1..3 /\ 2 \in 1..3 /\ 3 \in 1..3
    OBVIOUS
  <2> QED BY <2>1, <2>2, <2>3
<1> DEFINE a1 == Append(a, x)
           a2 == Append(a1, y)
           a3 == Append(a2, r)
<1> HIDE DEF x, y
<1>2. a1 \in Seq(S) /\ a2 \in Seq(S)
  BY <1>1
<1>3. a \o b = a3
  BY <1>1
<1>4. AtEnd(a1, start) = Obey(AtEnd(a, start), x)
  BY <1>1, PrintingAppend DEF AtEnd
<1> HIDE DEF a1
<1>5. AtEnd(a2, start) = Obey(AtEnd(a1, start), y)
  BY <1>1, <1>2, PrintingAppend DEF AtEnd
<1> HIDE DEF a2
<1>6. AtEnd(a3, start) = Obey(AtEnd(a2, start), r)
  BY <1>1, <1>2, PrintingAppend DEF AtEnd
<1> HIDE DEF a3
<1> QED BY <1>3, <1>4, <1>5, <1>6 DEF Swapped, x, y

\* A file that is rewritten for a sound plan prints the slicer's changes, each
\* with the spool of its tool if nothing moves it.
LEMMA RewritePrints ==
    ASSUME NEW p, NEW w, Sound(p, w)
    PROVE  PrintsOwn(Rewritten(p, w), PlanOf(p, w))
<1> DEFINE n == Len(p.lines)
           start == Setup(PlanOf(p, w))
           phys == Settled(w)
           Swaps(i) == {k \in DOMAIN w.swaps : w.swaps[k].line = i}
           Before(i) == IF Swaps(i) = {} THEN <<>>
                        ELSE LET s == w.swaps[CHOOSE k \in Swaps(i) : TRUE]
                             IN <<Park(s.head), Load(s.head, p.tab[s.in])>>
           Renamed(line) == IF line.op = "T" /\ line.n \in Tools /\ phys[line.n] # None
                            THEN Change(phys[line.n]) ELSE line
           ss == [i \in DOMAIN p.lines |-> Append(Before(i), Renamed(p.lines[i]))]
<1>1. n \in Nat /\ DOMAIN p.lines = 1..n /\ Nth(p.lines, n) = Len(sliced)
  BY SeqIsProgram DEF Sound, Plain, SameChanges, IsProgram
<1>2. Rewritten(p, w) = FlattenSeq(ss)
  BY DEF Rewritten
<1>3. ASSUME NEW i PROVE IsSeq(Before(i))
  BY SmallSeqs
<1> HIDE DEF Before, Renamed
<1>4. ss = [i \in 1..n |-> ss[i]] /\ \A i \in 1..n : ss[i] = Append(Before(i), Renamed(p.lines[i]))
  BY <1>1
<1>5. \A i \in 1..n : IsSeq(ss[i])
  <2> HIDE DEF ss
  <2> QED BY <1>3, <1>4, SmallSeqs
<1> HIDE DEF ss
<1>6. Len(ss) = n /\ \E S : ss \in Seq(Seq(S))
  BY <1>1, <1>4, <1>5, PartsIn
<1>7. PICK S : ss \in Seq(Seq(S))
  BY <1>6
<1>8. PICK made : /\ made[0] = <<>> /\ made[n] = FlattenSeq(ss)
                  /\ \A i \in 0..n : made[i] \in Seq(S)
                  /\ \A i \in 1..n : made[i] = made[i - 1] \o ss[i]
  <2>1. \E made : /\ made[0] = <<>> /\ made[Len(ss)] = FlattenSeq(ss)
                  /\ \A i \in 0..Len(ss) : made[i] \in Seq(S)
                  /\ \A i \in 1..Len(ss) : made[i] = made[i - 1] \o ss[i]
    BY <1>7, FlattenSteps, Zenon
  <2> QED BY <1>6, <2>1
<1> DEFINE G == {i \in 0..n : Follows(AtEnd(made[i], start), i, p, w)}
<1>9. 0 \in G
  <2>1. IsProgram(<<>>) /\ Len(<<>>) = 0
    BY DEF IsProgram
  <2>2. Printing(<<>>, start)[0] = [at |-> start, out |-> <<>>]
    BY <2>1, PrintingSolves, Zenon
  <2>3. AtEnd(made[0], start) = [at |-> start, out |-> <<>>]
    BY <1>8, <2>1, <2>2 DEF AtEnd
  <2>4. Follows(AtEnd(made[0], start), 0, p, w)
    BY <2>3, FollowsFirst
  <2> QED BY <1>1, <2>4
<1>10. ASSUME NEW i \in 0..(n - 1), i \in G PROVE i + 1 \in G
  <2> DEFINE a == made[i]
             s == AtEnd(a, start)
             line == p.lines[i + 1]
             r == Renamed(line)
  <2>1. i + 1 \in 1..n /\ i + 1 \in 0..n /\ i \in 0..n /\ (i + 1) - 1 = i
    BY <1>1
  <2>2. /\ a \in Seq(S) /\ ss[i + 1] \in Seq(S) /\ made[i + 1] = a \o ss[i + 1]
        /\ ss[i + 1] = Append(Before(i + 1), r)
    <3>1. ss[i + 1] \in Seq(S)
      BY <1>6, <1>7, <2>1
    <3>2. a \in Seq(S) /\ made[i + 1] = made[(i + 1) - 1] \o ss[i + 1]
      BY <1>8, <2>1
    <3>3. ss[i + 1] = Append(Before(i + 1), Renamed(p.lines[i + 1]))
      BY <1>4, <2>1
    <3> QED BY <2>1, <3>1, <3>2, <3>3
  <2>3. Follows(s, i, p, w)
    BY <1>10
  <2>5. ASSUME NEW mid, Follows(mid, i, p, w)
        PROVE  Follows(Obey(mid, r), i + 1, p, w)
    BY <2>5, FollowsLine DEF Renamed
  <2> HIDE DEF r, s
  <2>7. CASE Swaps(i + 1) = {}
    <3>1. Before(i + 1) = <<>>
      BY <2>7 DEF Before
    <3>2. ss[i + 1] = <<r>> /\ r \in S
      <4>1. Append(<<>>, r) = <<r>>
        OBVIOUS
      <4>2. ss[i + 1] = <<r>>
        BY <2>2, <3>1, <4>1
      <4>3. <<r>> \in Seq(S) /\ Len(<<r>>) = 1 /\ <<r>>[1] = r
        BY <2>2, <4>2
      <4>4. <<r>>[1] \in S
        BY <4>3
      <4> QED BY <4>2, <4>3, <4>4
    <3>3. made[i + 1] = Append(a, r)
      <4> HIDE DEF a
      <4> QED BY <2>2, <3>2
    <3>4. AtEnd(Append(a, r), start) = Obey(AtEnd(a, start), r)
      <4> HIDE DEF a, start
      <4> QED BY <2>2, <3>2, PrintingAppend DEF AtEnd
    <3>5. Follows(Obey(s, r), i + 1, p, w)
      BY <2>3, <2>5
    <3> QED BY <2>1, <3>3, <3>4, <3>5 DEF s
  <2>8. CASE Swaps(i + 1) # {}
    <3> DEFINE j == CHOOSE k \in Swaps(i + 1) : TRUE
               e == w.swaps[j]
    <3>2. Before(i + 1) = <<Park(e.head), Load(e.head, p.tab[e.in])>>
      BY <2>8 DEF Before
    <3> HIDE DEF Swaps, j
    <3>3. ss[i + 1] = <<Park(e.head), Load(e.head, p.tab[e.in]), r>>
      <4> HIDE DEF e
      <4> QED BY <2>2, <3>2, AppendToTwo
    <3>4. AtEnd(made[i + 1], start) = Obey(Swapped(s, p, e), r)
      <4> HIDE DEF a, e, start
      <4>1. <<Park(e.head), Load(e.head, p.tab[e.in]), r>> \in Seq(S)
        BY <2>2, <3>3
      <4>2. AtEnd(a \o <<Park(e.head), Load(e.head, p.tab[e.in]), r>>, start)
              = Obey(Swapped(AtEnd(a, start), p, e), r)
        BY <2>2, <4>1, AtEndSwapped
      <4> QED BY <2>2, <3>3, <4>2 DEF s
    <3>5. Follows(Obey(Swapped(s, p, e), r), i + 1, p, w)
      <4>1. Follows(Swapped(s, p, e), i, p, w)
        BY <2>3, FollowsSwap
      <4> QED BY <2>5, <4>1
    <3> QED BY <2>1, <3>4, <3>5
  <2> QED BY <2>7, <2>8
<1>11. Follows(AtEnd(made[n], start), n, p, w)
  <2>1. 0..n \subseteq G
    <3> HIDE DEF G
    <3> QED BY <1>1, <1>9, <1>10, Upwards
  <2> QED BY <1>1, <2>1
<1>12. Printed(Rewritten(p, w), start) = AtEnd(made[n], start).out
  BY <1>2, <1>8 DEF Printed, AtEnd
<1> DEFINE printed == Printed(Rewritten(p, w), start)
           sc == PlanOf(p, w)
<1>13. /\ printed = [j \in 1..Len(sliced) |-> printed[j]]
       /\ \A j \in 1..Len(sliced) :
            p.tab[sliced[j]] # None /\ Unmoved(sc, p.tab[sliced[j]]) => printed[j] = p.tab[sliced[j]]
  <2> HIDE DEF start, sc
  <2> QED BY <1>1, <1>11, <1>12 DEF Follows, sc
<1>14. DOMAIN sliced = 1..Len(sliced) /\ Len(sliced) \in Nat /\ sc.tab = p.tab
  BY LenProperties DEF Sound, PlanOf
<1> HIDE DEF printed, sc
<1>15. Len(printed) = Len(sliced)
  BY <1>13, <1>14
<1>16. \A j \in DOMAIN sliced :
         sc.tab[sliced[j]] # None /\ Unmoved(sc, sc.tab[sliced[j]]) =>
           Len(printed) = Len(sliced) /\ printed[j] = sc.tab[sliced[j]]
  BY <1>13, <1>14, <1>15
<1> QED BY <1>16 DEF PrintsOwn, printed, sc, start

-----------------------------------------------------------------------------
(* The invariant. *)

\* A pass has matched its tools with its rack, fuzzily or not.
MatchInv ==
    stage # "idle" => \E fuzzy \in BOOLEAN : pass.tab = MatchTools(header, pass.rack, fuzzy)

\* Until a pass that resolved a tool has written it, the file is plain, and so
\* is what a pass will write.
PlainInv ==
    ~torn /\ rewrites = 0 =>
      Plain(file) /\ (stage \in {"plan", "gcode"} => Plain(pass.lines))

\* A file that was rewritten once prints as the pass under way planned, before
\* the sidecar is written, or else as the sidecar says.
PrintInv ==
    ~torn /\ rewrites = 1 =>
      /\ stage = "sidecar" => PrintsOwn(file, PlanOf(pass, walk))
      /\ stage # "sidecar" /\ sidecar # None => PrintsOwn(file, sidecar)

\* What the proof of OneRewritePrintsOwn carries from step to step
OwnInv == Optimal /\ sliced \in SlicerPrograms /\ MatchInv /\ WalkInv /\ PlainInv /\ PrintInv

LEMMA SlicedIsSeqOfTools ==
    ASSUME sliced \in SlicerPrograms
    PROVE  sliced \in Seq(Tools) /\ Range(sliced) # {} /\ Range(sliced) \subseteq Tools
<1>1. PICK n \in 1..MaxChanges : sliced \in [1..n -> Tools]
  BY DEF SlicerPrograms
<1>2. n \in Nat /\ 1 \in 1..n /\ DOMAIN sliced = 1..n
  BY <1>1, SizeAssumption
<1> QED BY <1>1, <1>2 DEF Range

\* A pass that begins over a plain file
LEMMA BeginsOwn ==
    ASSUME OwnInv, NEW p, Begins(p), IsProgram(p.lines), p.start = FirstHeads(p.lines, p.tab),
           NEW fuzzy \in BOOLEAN, p.tab = MatchTools(header, p.rack, fuzzy),
           ~torn /\ rewrites = 0 => Plain(p.lines)
    PROVE  MatchInv' /\ WalkInv' /\ PlainInv' /\ PrintInv'
<1>1. /\ stage = "idle" /\ stage' = "plan" /\ pass' = p
      /\ UNCHANGED <<header, sliced, file, sidecar, rewrites, torn>>
  BY DEF Begins
<1>2. MatchInv'
  BY <1>1 DEF MatchInv
<1>3. WalkInv'
  BY BeginsWalk
<1>4. PlainInv'
  <2>1. ~torn /\ rewrites = 0 => Plain(file) /\ Plain(p.lines)
    BY DEF OwnInv, PlainInv
  <2> QED BY <1>1, <2>1 DEF PlainInv, Plain, SameChanges
<1>5. PrintInv'
  <2>1. ~torn /\ rewrites = 1 /\ sidecar # None => PrintsOwn(file, sidecar)
    BY <1>1 DEF OwnInv, PrintInv
  <2> QED BY <1>1, <2>1 DEF PrintInv, PrintsOwn
<1> QED BY <1>2, <1>3, <1>4, <1>5

\* The G-code is written: as it was if nothing is resolved, or as planned.
LEMMA WriteOwn ==
    ASSUME OwnInv, WriteGcode
    PROVE  PlainInv' /\ PrintInv'
<1> DEFINE resolved == \E t \in Tools : pass.tab[t] # None
           new == Rewritten(pass, walk)
<1>1. /\ stage = "gcode" /\ stage' = "sidecar" /\ file' = new
      /\ rewrites' = IF resolved THEN rewrites + 1 ELSE rewrites
      /\ UNCHANGED <<header, sliced, sidecar, pass, walk, torn>>
  BY DEF WriteGcode
<1>2. rewrites \in Nat
  BY DEF OwnInv, Optimal, Replay, IInv, TypeOK
<1>3. /\ pass.tab \in [Tools -> Slots \cup {None}]
      /\ pass.start \in [Heads -> Tools \cup {None}]
      /\ walk.headOf \in [Tools -> Heads \cup {None}]
      /\ \A h \in Heads, t \in Tools : walk.heads[h] = t <=> walk.headOf[t] = h
      /\ walk.swaps \in Seq(SwapRecord)
      /\ walk.at = Len(pass.lines) + 1
  BY <1>1 DEF OwnInv, Optimal, Replay, IInv, TypeOK, HeadsInverse, SwapsTyped, PlanBest
<1>4. Resolves(pass, walk) /\ Reaches(pass, walk)
  BY <1>1 DEF OwnInv, WalkInv
<1>5. sliced \in Seq(Tools) /\ Range(sliced) # {} /\ Range(sliced) \subseteq Tools
  BY SlicedIsSeqOfTools DEF OwnInv
<1>6. ~torn /\ rewrites = 0 => Plain(pass.lines)
  BY <1>1 DEF OwnInv, PlainInv
<1> HIDE DEF new
<1>7. PlainInv'
  <2>1. ASSUME ~torn, rewrites = 0, ~resolved PROVE Plain(new)
    <3>1. \A t \in Tools : walk.phys[t] = None /\ walk.headOf[t] = None
      <4> SUFFICES ASSUME NEW t \in Tools PROVE walk.phys[t] = None /\ walk.headOf[t] = None
        OBVIOUS
      <4>1. pass.tab[t] = None
        BY <2>1
      <4>2. walk.phys[t] = None
        BY <1>4, <4>1 DEF Resolves
      <4>3. ASSUME walk.headOf[t] # None PROVE FALSE
        <5>1. walk.headOf[t] \in Heads /\ walk.heads[walk.headOf[t]] = t /\ t # None
          BY <1>3, <4>3, NotNumbers
        <5> QED BY <1>4, <4>1, <5>1 DEF Resolves
      <4> QED BY <4>2, <4>3
    <3>2. walk.swaps = <<>>
      <4>1. ASSUME NEW k \in DOMAIN walk.swaps PROVE FALSE
        <5>1. walk.swaps[k] \in SwapRecord
          BY <1>3
        <5>2. walk.swaps[k].in \in Tools
          BY <5>1 DEF SwapRecord
        <5> QED BY <1>4, <2>1, <5>2 DEF Resolves
      <4>2. DOMAIN walk.swaps = 1..Len(walk.swaps) /\ Len(walk.swaps) \in Nat
        BY <1>3, LenProperties
      <4>3. Len(walk.swaps) = 0
        <5>1. Len(walk.swaps) # 0 => 1 \in 1..Len(walk.swaps)
          BY <4>2
        <5> QED BY <4>1, <4>2, <5>1
      <4> QED BY <1>3, <4>3, EmptySeq
    <3>3. Plain(pass.lines)
      BY <1>6, <2>1
    <3> QED BY <1>5, <3>1, <3>2, <3>3, UnresolvedPlain DEF new
  <2>2. ~torn /\ rewrites' = 0 => Plain(new)
    BY <1>1, <1>2, <2>1
  <2> QED BY <1>1, <2>2 DEF PlainInv, Plain, SameChanges
<1>8. PrintInv'
  <2> DEFINE sc == PlanOf(pass, walk)
  <2>1. sc.tab = pass.tab
    BY DEF PlanOf
  <2>2. ASSUME ~torn, rewrites' = 1, resolved PROVE PrintsOwn(new, sc)
    <3>2. rewrites = 0
      BY <1>1, <1>2, <2>2
    <3>3. Plain(pass.lines)
      BY <1>6, <2>2, <3>2
    <3>4. \A t, u \in Tools : header[t] = header[u] => pass.tab[t] = pass.tab[u]
      <4>1. PICK fuzzy \in BOOLEAN : pass.tab = MatchTools(header, pass.rack, fuzzy)
        BY <1>1 DEF OwnInv, MatchInv
      <4> QED BY <4>1, MatchAlike
    <3>6. Sound(pass, walk)
      BY <1>3, <1>4, <1>5, <3>3, <3>4 DEF Sound
    <3> QED BY <3>6, RewritePrints DEF new
  <2>3. ASSUME ~resolved PROVE PrintsOwn(new, sc)
    <3>1. ASSUME NEW i \in DOMAIN sliced PROVE sc.tab[sliced[i]] = None
      <4>1. sliced[i] \in Tools
        BY <1>5
      <4> QED BY <2>1, <2>3, <4>1
    <3> HIDE DEF sc
    <3> QED BY <3>1 DEF PrintsOwn
  <2>4. PlanOf(pass', walk') = sc
    BY <1>1
  <2>5. ~torn /\ rewrites' = 1 => PrintsOwn(new, sc)
    <3> HIDE DEF sc, resolved
    <3> QED BY <2>2, <2>3
  <2> HIDE DEF sc
  <2> QED BY <1>1, <2>4, <2>5 DEF PrintInv, PrintsOwn
<1> QED BY <1>7, <1>8

\* The sidecar says what was planned.
LEMMA SidecarOwn ==
    ASSUME OwnInv, WriteSidecar
    PROVE  PlainInv' /\ PrintInv'
<1>1. /\ stage = "sidecar" /\ stage' = "idle"
      /\ sidecar' = [status |-> Status(pass), rack |-> pass.rack, tab |-> pass.tab,
                     start |-> pass.start, swaps |-> walk.swaps]
      /\ UNCHANGED <<header, sliced, file, rewrites, torn>>
  BY DEF WriteSidecar
<1>2. PlainInv'
  <2>1. ~torn /\ rewrites = 0 => Plain(file)
    BY DEF OwnInv, PlainInv
  <2> QED BY <1>1, <2>1 DEF PlainInv, Plain, SameChanges
<1>3. PrintInv'
  <2> DEFINE sc == sidecar'
             pl == PlanOf(pass, walk)
  <2>1. ~torn /\ rewrites = 1 => PrintsOwn(file, pl)
    BY <1>1 DEF OwnInv, PrintInv
  <2>2. sc.tab = pl.tab /\ sc.start = pl.start /\ sc.swaps = pl.swaps
    BY <1>1 DEF PlanOf
  <2> HIDE DEF sc, pl
  <2>3. Setup(sc) = Setup(pl) /\ \A t : Unmoved(sc, t) <=> Unmoved(pl, t)
    BY <2>2 DEF Setup, Unmoved
  <2>4. ~torn /\ rewrites = 1 => PrintsOwn(file, sc)
    BY <2>1, <2>2, <2>3 DEF PrintsOwn
  <2> QED BY <1>1, <2>4 DEF PrintInv, PrintsOwn, sc
<1> QED BY <1>2, <1>3

LEMMA SlicedStays ==
    ASSUME [Next]_vars
    PROVE  sliced' = sliced
BY DEF Next, vars, RunScript, Revalidate, Begins, PlanLine, Planned, WriteGcode,
       WriteSidecar, Die, StartPrint, PrintEnds, SwapSeen, Rebind

LEMMA StepOwn == OwnInv /\ [Next]_vars => OwnInv'
<1> SUFFICES ASSUME OwnInv, [Next]_vars
             PROVE  MatchInv' /\ WalkInv' /\ PlainInv' /\ PrintInv'
  BY StepOptimal, SlicedStays DEF OwnInv
<1>1. /\ Optimal /\ Optimal' /\ sliced \in SlicerPrograms
      /\ MatchInv /\ WalkInv /\ PlainInv /\ PrintInv
  BY StepOptimal DEF OwnInv
<1>2. ASSUME NEW p, Begins(p), p.start = FirstHeads(p.lines, p.tab),
             NEW fuzzy \in BOOLEAN, p.tab = MatchTools(header, p.rack, fuzzy),
             ~torn /\ rewrites = 0 => Plain(p.lines)
      PROVE  MatchInv' /\ WalkInv' /\ PlainInv' /\ PrintInv'
  <2>1. pass' = p /\ stage' = "plan"
    BY <1>2 DEF Begins
  <2>2. IsProgram(p.lines)
    BY <1>1, <2>1, SeqIsProgram DEF Optimal, FilesAreSeqs
  <2> QED BY <1>2, <2>2, BeginsOwn
<1>3. ASSUME NEW optimize \in BOOLEAN, NEW layer \in BOOLEAN, NEW fuzzy \in BOOLEAN,
             NEW host \in BOOLEAN, RunScript(optimize, layer, fuzzy, host)
      PROVE  MatchInv' /\ WalkInv' /\ PlainInv' /\ PrintInv'
  <2> DEFINE known == IF host THEN rack ELSE [s \in Slots |-> None]
             tab == MatchTools(header, known, fuzzy)
             aliased == IF optimize THEN Aliased(file, header, known, tab) ELSE file
             lines == IF layer THEN Preloaded(aliased, tab) ELSE aliased
             p == PassOver("script", lines, known, tab)
  <2>1. Begins(p)
    BY <1>3 DEF RunScript
  <2>2. sliced \in Seq(Tools)
    BY <1>1, SlicedIsSeqOfTools
  <2>3. ASSUME ~torn, rewrites = 0 PROVE Plain(lines)
    <3>1. Plain(file)
      BY <1>1, <2>3 DEF PlainInv
    <3>2. Plain(aliased)
      BY <2>2, <3>1, AliasedPlain
    <3> HIDE DEF aliased, tab
    <3> QED BY <2>2, <3>2, PreloadedPlain
  <2> HIDE DEF lines, known
  <2>4. p.lines = lines /\ p.rack = known /\ p.tab = tab /\ p.start = FirstHeads(lines, tab)
    BY DEF PassOver
  <2> HIDE DEF p
  <2> QED BY <1>2, <2>1, <2>3, <2>4
<1>4. CASE Revalidate
  <2> DEFINE p == PassOver("web", file, rack, MatchTools(header, rack, FALSE))
  <2>1. Begins(p)
    BY <1>4 DEF Revalidate
  <2>2. /\ p.lines = file /\ p.rack = rack /\ p.tab = MatchTools(header, rack, FALSE)
        /\ p.start = FirstHeads(file, p.tab)
    BY DEF PassOver
  <2>3. ~torn /\ rewrites = 0 => Plain(file)
    BY <1>1 DEF PlainInv
  <2> HIDE DEF p
  <2> QED BY <1>2, <2>1, <2>2, <2>3
<1>5. CASE PlanLine
  <2>1. stage = "plan" /\ UNCHANGED <<stage, pass, header, sliced, file, sidecar, rewrites, torn>>
    BY <1>5 DEF PlanLine
  <2>2. WalkInv'
    <3>1. Replay /\ walk.at \in Nat \ {0}
      BY <1>1, <2>1 DEF Optimal, PlanBest
    <3> QED BY <1>1, <1>5, <3>1, PlanLineWalk
  <2>3. MatchInv'
    BY <1>1, <2>1 DEF MatchInv
  <2>4. PlainInv'
    BY <1>1, <2>1 DEF PlainInv, Plain, SameChanges
  <2>5. PrintInv'
    BY <1>1, <2>1 DEF PrintInv, PrintsOwn
  <2> QED BY <2>2, <2>3, <2>4, <2>5
<1>6. CASE Planned \/ StartPrint \/ PrintEnds \/ SwapSeen \/ Rebind \/ UNCHANGED vars
  <2>1. /\ UNCHANGED <<pass, walk, header, sliced, file, sidecar, rewrites, torn>>
        /\ stage' = stage \/ (stage = "plan" /\ stage' = "gcode")
    BY <1>6 DEF Planned, StartPrint, PrintEnds, SwapSeen, Rebind, vars
  <2>2. MatchInv' /\ WalkInv'
    BY <1>1, <2>1 DEF MatchInv, WalkInv
  <2>3. PlainInv'
    BY <1>1, <2>1 DEF PlainInv, Plain, SameChanges
  <2>4. PrintInv'
    BY <1>1, <2>1 DEF PrintInv, PrintsOwn
  <2> QED BY <2>2, <2>3, <2>4
<1>7. CASE WriteGcode
  <2>1. MatchInv' /\ WalkInv'
    BY <1>1, <1>7 DEF WriteGcode, MatchInv, WalkInv
  <2> QED BY <1>7, <2>1, WriteOwn
<1>8. CASE WriteSidecar
  <2>1. MatchInv' /\ WalkInv'
    BY <1>8 DEF WriteSidecar, MatchInv, WalkInv
  <2> QED BY <1>8, <2>1, SidecarOwn
<1>9. CASE Die
  <2>1. /\ stage # "idle" /\ stage' = "idle"
        /\ \/ file' = file /\ torn' = (torn \/ stage = "sidecar")
           \/ torn' = TRUE
        /\ UNCHANGED <<header, sliced, sidecar, rewrites>>
    BY <1>9 DEF Die
  <2>2. MatchInv' /\ WalkInv'
    BY <2>1 DEF MatchInv, WalkInv
  <2>3. ~torn' => ~torn /\ file' = file /\ stage # "sidecar"
    <3>1. torn \in BOOLEAN
      BY <1>1 DEF Optimal, Replay, IInv, TypeOK
    <3>2. CASE torn' = TRUE
      BY <3>2
    <3>3. CASE file' = file /\ torn' = (torn \/ stage = "sidecar")
      <4>1. CASE torn \/ stage = "sidecar"
        BY <3>3, <4>1
      <4>2. CASE ~(torn \/ stage = "sidecar")
        BY <3>3, <4>2
      <4> QED BY <4>1, <4>2
    <3> QED BY <2>1, <3>2, <3>3
  <2>4. PlainInv'
    <3>1. ~torn' /\ rewrites = 0 => Plain(file) /\ file' = file
      BY <1>1, <2>3 DEF PlainInv
    <3> QED BY <2>1, <3>1 DEF PlainInv, Plain, SameChanges
  <2>5. PrintInv'
    <3>1. ~torn' /\ rewrites = 1 /\ sidecar # None => PrintsOwn(file, sidecar) /\ file' = file
      BY <1>1, <2>3 DEF PrintInv
    <3> QED BY <2>1, <3>1 DEF PrintInv, PrintsOwn
  <2> QED BY <2>2, <2>4, <2>5
<1> QED BY <1>3, <1>4, <1>5, <1>6, <1>7, <1>8, <1>9 DEF Next

\* For every file, every binding and any number of heads and tools, a file that
\* was rewritten once prints a change of the slicer with the spool that the
\* sidecar names for its tool, whenever the plan leaves the tools of that spool on
\* the head they begin on.
THEOREM OwnCorrect == Spec => []OneRewritePrintsOwn
<1>1. Init => OwnInv
  <2> SUFFICES ASSUME Init PROVE OwnInv
    OBVIOUS
  <2>1. /\ stage = "idle" /\ sidecar = None /\ rewrites = 0
        /\ sliced \in SlicerPrograms /\ file = Sliced(sliced)
    BY DEF Init
  <2>2. Optimal
    <3>1. Replay
      BY <2>1, InitInv DEF Replay, SwapsTyped, SwapsReplay
    <3> QED BY <2>1, <3>1, SlicedIsSeq DEF Optimal, FilesAreSeqs, PlanBest
  <2>3. Plain(file)
    BY <2>1, SlicedPlain
  <2>4. PrintInv /\ PlainInv /\ MatchInv /\ WalkInv
    BY <2>1, <2>3 DEF PrintInv, PlainInv, MatchInv, WalkInv
  <2> QED BY <2>1, <2>2, <2>4 DEF OwnInv
<1>2. OwnInv => OneRewritePrintsOwn
  <2> SUFFICES ASSUME OwnInv, sidecar # None, stage = "idle", rewrites = 1, ~torn
               PROVE  OneRewritePrintsOwn
    BY DEF OneRewritePrintsOwn
  <2>1. PrintsOwn(file, sidecar)
    BY DEF OwnInv, PrintInv
  <2> QED BY <2>1 DEF PrintsOwn, OneRewritePrintsOwn
<1> QED BY <1>1, <1>2, StepOwn, PTL DEF Spec
=============================================================================
