----------------------------- MODULE PrintQueue -----------------------------
(***************************************************************************)
(* From the slicer's G-code to a print.  The postprocessor (on the         *)
(* slicer's computer) and the print queue of the web console ("revalidate")*)
(* make the same pass over a file: match the slicer's tools with the bound *)
(* spools, plan which head prints which tool and where spools are swapped, *)
(* rewrite the tool changes, write the sidecar that lets it be printed.    *)
(*                                                                         *)
(* A pass is cut where it can be cut by the death of its process; the plan *)
(* walks the file line by line.  A line is a tool change, a layer mark or  *)
(* one of the two commands a pass inserts.  Colours lie on a line, so that *)
(* distance and names are arithmetic; spool, ACE and slot are one slot.    *)
(***************************************************************************)
EXTENDS Integers, FiniteSets, Sequences, SequencesExt

CONSTANTS
  NHeads,       \* physical heads (4 in the code)
  NTools,       \* tools in the slicer's header
  NSlots,       \* slots of all ACEs, in the order of (ace, slot)
  Headers,      \* what the slicer may say of its tools: Tool -> Filament
  Racks,        \* which spools may be bound: Slot -> Filament or None
  MaxChanges,   \* bound: tool changes of a file
  PerLayer,     \* tool changes of a layer
  MaxDistance,  \* --fuzzy-color DIST
  MaxRebinds,   \* bound: changes of the bindings
  MaxRewrites,  \* bound: passes that rewrite the file; each can make it longer
  None

Heads == 0..(NHeads - 1)
Tools == 0..(NTools - 1)
Slots == 0..(NSlots - 1)

ASSUME SizeAssumption ==
  NHeads \in Nat \ {0} /\ NTools \in Nat \ {0} /\ NSlots \in Nat /\ MaxChanges \in Nat
ASSUME NoneAssumption == None \notin Int
ASSUME BindingAssumption ==
  /\ \A h \in Headers, t \in Tools : h[t].col \in Nat
  /\ \A r \in Racks, s \in Slots : r[s] # None => r[s].col \in Nat

VARIABLES
  header,    \* filament_type, filament_colour of each tool, in the file
  sliced,    \* history: the tools the slicer changes to, in order
  rack,      \* spool_cache: the bindings, as GET /api/slots shows them
  file,      \* the lines of the G-code
  sidecar,   \* <file>.multiace.json, or None
  stage,     \* where the pass under way stands, "idle" if there is none
  pass,      \* what it works on, or None
  walk,      \* how far the plan is, or None
  swapping,  \* swap_in_progress
  job,       \* the file is being printed
  rebinds,   \* number of changes of the bindings so far
  rewrites,  \* history: passes that resolved a tool and wrote the file
  torn       \* history: a pass died after it began to write

vars == <<header, sliced, rack, file, sidecar, stage, pass, walk, swapping, job, rebinds, rewrites, torn>>

Change(t) == [op |-> "T", n |-> t, src |-> None]
Mark(i)   == [op |-> "LAYER", n |-> i, src |-> None]
Park(h)   == [op |-> "ACE_PARK_HEAD", n |-> h, src |-> None]
Load(h, s) == [op |-> "ACE_LOAD_HEAD", n |-> h, src |-> s]
-----------------------------------------------------------------------------
(* match_tools: the slot of each tool. *)

Gap(c, d) == IF c < d THEN d - c ELSE c - d   \* color_distance
Name(c)  == c \div 2                          \* approx_color_name
Canon(c) == c \div 4                          \* _canonical_color_name

Exact(h, r, t) == {s \in Slots : r[s] = h[t]}

SameMaterial(h, r, t) == {s \in Slots : r[s] # None /\ r[s].mat = h[t].mat}

\* The tiers of _fuzzy_resolve, the best one first.
Tiers(h, r, t) ==
  LET c == h[t].col
      same == SameMaterial(h, r, t)
  IN <<{s \in same : Name(r[s].col) = Name(c)},
       {s \in same : Canon(r[s].col) = Canon(c)},
       {s \in same : Gap(c, r[s].col) <= MaxDistance}>>

Nearest(h, r, t, S) ==
  CHOOSE s \in S : \A o \in S : LET d == Gap(h[t].col, r[s].col)
                                    e == Gap(h[t].col, r[o].col)
                                IN d < e \/ (d = e /\ s <= o)

FuzzyResolve(h, r, t) ==
  LET tiers == Tiers(h, r, t)
      hit == {i \in DOMAIN tiers : tiers[i] # {}}
  IN IF hit = {} THEN None
     ELSE Nearest(h, r, t, tiers[CHOOSE i \in hit : \A j \in hit : i <= j])

\* Of several exact matches the first is taken.
MatchTools_TakesFirst(h, r, fuzzy) ==
  [t \in Tools |-> IF Exact(h, r, t) # {} THEN CHOOSE s \in Exact(h, r, t) : \A o \in Exact(h, r, t) : s <= o
                   ELSE IF fuzzy THEN FuzzyResolve(h, r, t) ELSE None]

MatchTools(h, r, fuzzy) ==
  [t \in Tools |-> IF Cardinality(Exact(h, r, t)) = 1 THEN CHOOSE s \in Slots : s \in Exact(h, r, t)
                  ELSE IF fuzzy /\ Exact(h, r, t) = {} THEN FuzzyResolve(h, r, t)
                  ELSE None]

-----------------------------------------------------------------------------
(* plan_swaps *)

Uses(lines, t) == {i \in DOMAIN lines : lines[i].op = "T" /\ lines[i].n = t}
FirstUse(lines, t) == CHOOSE i \in Uses(lines, t) : \A j \in Uses(lines, t) : i <= j

\* The line after i at which t is next needed; past the end if it is not.
NextUse(lines, i, t) ==
  CHOOSE j \in {u \in Uses(lines, t) : u > i} \cup {Len(lines) + 1} :
    \A k \in {u \in Uses(lines, t) : u > i} : j <= k

Appearing(lines, tab) == {t \in Tools : Uses(lines, t) # {} /\ tab[t] # None}

\* The first NHeads tools that appear get heads 0, 1, ... in that order.
FirstHeads(lines, tab) ==
  LET Rank(t) == Cardinality({u \in Appearing(lines, tab) : FirstUse(lines, u) < FirstUse(lines, t)})
      Holds(h) == {t \in Appearing(lines, tab) : Rank(t) = h}
  IN [h \in Heads |-> IF Holds(h) = {} THEN None ELSE CHOOSE t \in Tools : t \in Holds(h)]

Inverted(heads) ==
  [t \in Tools |-> IF \E h \in Heads : heads[h] = t THEN CHOOSE h \in Heads : heads[h] = t ELSE None]

\* A pass: who makes it, what it read and matched, the first assignment.
PassOver(by, lines, known, tab) ==
  [by |-> by, lines |-> lines, rack |-> known, tab |-> tab, start |-> FirstHeads(lines, tab)]

\* heads and headOf are head_to_tool and tool_to_head, phys is physical_head
\* before line at.
WalkFrom(heads) ==
  [at |-> 1, heads |-> heads, headOf |-> Inverted(heads), phys |-> [t \in Tools |-> None], swaps |-> <<>>]

\* When the tool of a head is needed again; a head that is free, or whose tool
\* is not needed, counts as needed after the end.
Due(p, w, h) == IF w.heads[h] = None THEN Len(p.lines) + 1 ELSE NextUse(p.lines, w.at, w.heads[h])

\* The furthest next use alone: one that is not needed has use -1, the nearest.
Evicts_IdleLast(p, w, h) ==
  LET Use(g) == IF Due(p, w, g) > Len(p.lines) THEN -1 ELSE Due(p, w, g)
  IN \A g \in Heads : Use(h) > Use(g) \/ (Use(h) = Use(g) /\ h <= g)

\* The head to evict: due last, the lowest index of those.
Evicts(p, w, h) ==
  \A g \in Heads : Due(p, w, h) > Due(p, w, g) \/ (Due(p, w, h) = Due(p, w, g) /\ h <= g)

Skip(w) == [at |-> w.at + 1, heads |-> w.heads, headOf |-> w.headOf, phys |-> w.phys, swaps |-> w.swaps]

Stay(w, t) ==
  [at |-> w.at + 1, heads |-> w.heads, headOf |-> w.headOf, swaps |-> w.swaps,
   phys |-> [w.phys EXCEPT ![t] = w.headOf[t]]]

\* The tool that leaves the head keeps it in the other map.
Swap_KeepsMap(w, t, h) ==
  [at |-> w.at + 1,
   heads |-> [w.heads EXCEPT ![h] = t],
   headOf |-> [w.headOf EXCEPT ![t] = h],
   phys |-> [w.phys EXCEPT ![t] = h],
   swaps |-> Append(w.swaps, [line |-> w.at, head |-> h, out |-> w.heads[h], in |-> t])]

\* The tool that leaves is read after the map has changed.
Swap_ReadsLate(w, t, h) ==
  [at |-> w.at + 1,
   heads |-> [w.heads EXCEPT ![h] = t],
   headOf |-> [u \in Tools |-> IF u = t THEN h ELSE IF u = w.heads[h] THEN None ELSE w.headOf[u]],
   phys |-> [w.phys EXCEPT ![t] = h],
   swaps |-> Append(w.swaps, [line |-> w.at, head |-> h, out |-> t, in |-> t])]

Swap(w, t, h) ==
  [at |-> w.at + 1,
   heads |-> [w.heads EXCEPT ![h] = t],
   headOf |-> [u \in Tools |-> IF u = t THEN h ELSE IF u = w.heads[h] THEN None ELSE w.headOf[u]],
   phys |-> [w.phys EXCEPT ![t] = h],
   swaps |-> Append(w.swaps, [line |-> w.at, head |-> h, out |-> w.heads[h], in |-> t])]

\* After the walk: a head that was never used but has a tool.
Settled(w) == [t \in Tools |-> IF w.phys[t] # None THEN w.phys[t] ELSE w.headOf[t]]

-----------------------------------------------------------------------------
(* rewrite_gcode, optimize_aliases, prelayer_reload *)

\* The head is the one the tool is on when the walk ends, if it still is on one.
Rewritten_HeadAtEnd(p, w) ==
  LET phys == w.headOf
      Swaps(i) == {k \in DOMAIN w.swaps : w.swaps[k].line = i}
      Before(i) == IF Swaps(i) = {} THEN <<>>
                   ELSE LET s == w.swaps[CHOOSE k \in Swaps(i) : TRUE]
                        IN <<Park(s.head), Load(s.head, p.tab[s.in])>>
      Renamed(line) == IF line.op = "T" /\ line.n \in Tools /\ phys[line.n] # None
                       THEN Change(phys[line.n]) ELSE line
  IN FlattenSeq([i \in DOMAIN p.lines |-> Append(Before(i), Renamed(p.lines[i]))])

\* A change to t with the two commands of a swap before it.  The head is the
\* one t has after the whole walk; a tool without a head keeps its number.
Rewritten(p, w) ==
  LET phys == Settled(w)
      Swaps(i) == {k \in DOMAIN w.swaps : w.swaps[k].line = i}
      Before(i) == IF Swaps(i) = {} THEN <<>>
                   ELSE LET s == w.swaps[CHOOSE k \in Swaps(i) : TRUE]
                        IN <<Park(s.head), Load(s.head, p.tab[s.in])>>
      Renamed(line) == IF line.op = "T" /\ line.n \in Tools /\ phys[line.n] # None
                       THEN Change(phys[line.n]) ELSE line
  IN FlattenSeq([i \in DOMAIN p.lines |-> Append(Before(i), Renamed(p.lines[i]))])

\* --optimize: a change to t becomes one to the first tool of its filament.
Aliased(lines, h, r, tab) ==
  LET Known(t) == tab[t] # None \/ Exact(h, r, t) # {}
      Alike(t) == {u \in Tools : h[u] = h[t] /\ Uses(lines, u) # {}}
      First(t) == CHOOSE u \in Alike(t) :
                    \A v \in Alike(t) : FirstUse(lines, u) <= FirstUse(lines, v)
  IN [i \in DOMAIN lines |->
        IF lines[i].op = "T" /\ Known(lines[i].n) THEN Change(First(lines[i].n)) ELSE lines[i]]

\* --layer: loads for the tools of a layer after its mark, heads 0, 1, ... in
\* the order of their first use, those that are not there yet; a layer with more
\* tools than heads is skipped.
Preloaded(lines, tab) ==
  LET Ends(i) == {j \in DOMAIN lines : j > i /\ lines[j].op = "LAYER"} \cup {Len(lines) + 1}
      Layer(i) == {j \in DOMAIN lines : j > i /\ \A k \in Ends(i) : j < k}
      Needs(i) == {t \in Appearing(lines, tab) : Uses(lines, t) \cap Layer(i) # {}}
      First(i, t) == CHOOSE j \in Uses(lines, t) \cap Layer(i) :
                       \A k \in Uses(lines, t) \cap Layer(i) : j <= k
      Before(i, t) == {u \in Needs(i) : First(i, u) < First(i, t)}
      Loaded(i, h) == Load(h, tab[CHOOSE t \in Needs(i) : Cardinality(Before(i, t)) = h])
      Fresh(i) == [h \in 1..Cardinality(Needs(i)) |->
                     IF \E j \in Layer(i) : lines[j] = Loaded(i, h - 1) THEN <<>> ELSE <<Loaded(i, h - 1)>>]
  IN FlattenSeq([i \in DOMAIN lines |->
       IF lines[i].op = "LAYER" /\ Cardinality(Needs(i)) <= NHeads
       THEN <<lines[i]>> \o FlattenSeq(Fresh(i)) ELSE <<lines[i]>>])

-----------------------------------------------------------------------------
(* The slicer writes a change only where the tool changes, and a mark before
   every PerLayer-th one. *)
SlicerPrograms ==
  UNION {{c \in [1..n -> Tools] : \A i \in 1..(n - 1) : c[i] # c[i + 1]} : n \in 1..MaxChanges}

Sliced(changes) ==
  FlattenSeq([i \in DOMAIN changes |->
    IF (i - 1) % PerLayer = 0 THEN <<Mark((i - 1) \div PerLayer), Change(changes[i])>>
    ELSE <<Change(changes[i])>>])

Init ==
  /\ header \in Headers /\ rack \in Racks
  /\ \E c \in SlicerPrograms : sliced = c /\ file = Sliced(c)
  /\ sidecar = None
  /\ stage = "idle" /\ pass = None /\ walk = None
  /\ swapping = FALSE /\ job = FALSE
  /\ rebinds = 0 /\ rewrites = 0 /\ torn = FALSE

Begins(p) ==
  /\ stage = "idle" /\ stage' = "plan"
  /\ pass' = p /\ walk' = WalkFrom(p.start)
  /\ UNCHANGED <<header, sliced, rack, file, sidecar, swapping, job, rebinds, rewrites, torn>>

\* main: the slicer runs the script once.  Without a host, or when the query
\* fails, no spool is known.
RunScript(optimize, layer, fuzzy, host) ==
  LET known == IF host THEN rack ELSE [s \in Slots |-> None]
      tab == MatchTools(header, known, fuzzy)
      aliased == IF optimize THEN Aliased(file, header, known, tab) ELSE file
      lines == IF layer THEN Preloaded(aliased, tab) ELSE aliased
  IN sidecar = None /\ ~torn /\ Begins(PassOver("script", lines, known, tab))

\* POST /api/print_queue/<file>/revalidate
Revalidate ==
  /\ sidecar # None /\ ~swapping /\ rewrites < MaxRewrites
  /\ Begins(PassOver("web", file, rack, MatchTools(header, rack, FALSE)))

\* One line of plan_swaps: no resolved tool; a tool that is on a head; a tool
\* that takes the head of another one.
PlanLine ==
  /\ stage = "plan" /\ walk.at <= Len(pass.lines)
  /\ LET line == pass.lines[walk.at]
         needed == line.op = "T" /\ line.n \in Tools /\ pass.tab[line.n] # None
     IN \/ ~needed /\ walk' = Skip(walk)
        \/ needed /\ walk.headOf[line.n] # None /\ walk' = Stay(walk, line.n)
        \/ /\ needed /\ walk.headOf[line.n] = None
           /\ \E h \in Heads : Evicts(pass, walk, h) /\ walk' = Swap(walk, line.n, h)
  /\ UNCHANGED <<header, sliced, rack, file, sidecar, stage, pass, swapping, job, rebinds, rewrites, torn>>

Planned ==
  /\ stage = "plan" /\ walk.at > Len(pass.lines)
  /\ stage' = "gcode"
  /\ UNCHANGED <<header, sliced, rack, file, sidecar, pass, walk, swapping, job, rebinds, rewrites, torn>>

WriteGcode ==
  /\ stage = "gcode" /\ stage' = "sidecar"
  /\ file' = Rewritten(pass, walk)
  /\ rewrites' = IF \E t \in Tools : pass.tab[t] # None THEN rewrites + 1 ELSE rewrites
  /\ UNCHANGED <<header, sliced, rack, sidecar, pass, walk, swapping, job, rebinds, torn>>

Status(p) ==
  IF p.by = "script" THEN "ok"
  ELSE IF \A t \in Tools : p.tab[t] # None THEN "ready" ELSE "pending"

WriteSidecar ==
  /\ stage = "sidecar" /\ stage' = "idle" /\ pass' = None /\ walk' = None
  /\ sidecar' = [status |-> Status(pass), rack |-> pass.rack, tab |-> pass.tab,
                 start |-> pass.start, swaps |-> walk.swaps]
  /\ UNCHANGED <<header, sliced, rack, file, swapping, job, rebinds, rewrites, torn>>

\* The process dies.  The G-code is written in place: it may be lost.
Die ==
  /\ stage # "idle" /\ stage' = "idle" /\ pass' = None /\ walk' = None
  /\ \/ file' = file /\ torn' = (torn \/ stage = "sidecar")
     \/ stage = "gcode" /\ file' = <<>> /\ torn' = TRUE
  /\ UNCHANGED <<header, sliced, rack, sidecar, swapping, job, rebinds, rewrites>>

\* POST /api/print_queue/<file>/print.  Moonraker refuses while one is printed.
StartPrint ==
  /\ stage = "idle" /\ sidecar # None /\ ~swapping
  /\ sidecar.status = "ready"
  /\ ~job /\ job' = TRUE
  /\ UNCHANGED <<header, sliced, rack, file, sidecar, stage, pass, walk, swapping, rebinds, rewrites, torn>>

PrintEnds ==
  /\ stage = "idle" /\ job /\ job' = FALSE
  /\ UNCHANGED <<header, sliced, rack, file, sidecar, stage, pass, walk, swapping, rebinds, rewrites, torn>>

\* The state log tells of a swap, or of its end.  Like a change of the bindings
\* it comes between two requests: the handlers do not await in a pass.
SwapSeen ==
  /\ stage = "idle" /\ swapping' = ~swapping
  /\ UNCHANGED <<header, sliced, rack, file, sidecar, stage, pass, walk, job, rebinds, rewrites, torn>>

Rebind ==
  /\ stage = "idle" /\ rebinds < MaxRebinds
  /\ rack' \in Racks \ {rack} /\ rebinds' = rebinds + 1
  /\ UNCHANGED <<header, sliced, file, sidecar, stage, pass, walk, swapping, job, rewrites, torn>>

Next ==
  \/ \E optimize, layer, fuzzy, host \in BOOLEAN : RunScript(optimize, layer, fuzzy, host)
  \/ Revalidate \/ PlanLine \/ Planned \/ WriteGcode \/ WriteSidecar \/ Die
  \/ StartPrint \/ PrintEnds \/ SwapSeen \/ Rebind

Spec == Init /\ [][Next]_vars

-----------------------------------------------------------------------------
\* Every variable keeps its shape, and plan and sidecar speak of heads, tools
\* and slots that exist.
TypeOK ==
  /\ header \in Headers /\ rack \in Racks
  /\ swapping \in BOOLEAN /\ job \in BOOLEAN /\ torn \in BOOLEAN
  /\ rewrites \in Nat /\ rebinds \in Nat
  /\ stage \in {"idle", "plan", "gcode", "sidecar"}
  /\ stage # "idle" =>
       /\ pass.by \in {"script", "web"}
       /\ pass.tab \in [Tools -> Slots \cup {None}]
       /\ pass.start \in [Heads -> Tools \cup {None}]
       /\ walk.heads \in [Heads -> Tools \cup {None}]
       /\ walk.headOf \in [Tools -> Heads \cup {None}]
       /\ walk.phys \in [Tools -> Heads \cup {None}]
  /\ sidecar # None =>
       /\ sidecar.status \in {"ok", "ready", "pending"}
       /\ sidecar.tab \in [Tools -> Slots \cup {None}]
       /\ sidecar.start \in [Heads -> Tools \cup {None}]

\* A tool is on one head and a head has one tool, in both of the maps that
\* plan_swaps keeps: what it evicts from one of them leaves the other.
HeadsInverse ==
  stage # "idle" => \A h \in Heads, t \in Tools : walk.heads[h] = t <=> walk.headOf[t] = h

\* What the heads hold once the first k swaps are made: the tool of the last
\* swap of the head.
HeadsAfter(start, swaps, k) ==
  LET Into(h) == {j \in 1..k : swaps[j].head = h}
  IN [h \in Heads |-> IF Into(h) = {} THEN start[h] ELSE swaps[Max(Into(h))].in]

\* The swaps planned so far, made in order from the first assignment, lead to
\* the heads of the walk, and each takes out the tool that is in: the "from" and
\* "to" of the sidecar are true.
SwapsReplay ==
  stage # "idle" =>
    /\ walk.heads = HeadsAfter(pass.start, walk.swaps, Len(walk.swaps))
    /\ \A k \in DOMAIN walk.swaps :
         HeadsAfter(pass.start, walk.swaps, k - 1)[walk.swaps[k].head] = walk.swaps[k].out

\* A file can be printed only if the pass that wrote its sidecar found, for every
\* tool of the header, one spool of its type and colour and no second one: a
\* guess by colour, or a choice between two, never reaches the printer.
ReadyIsExact ==
  sidecar # None /\ sidecar.status = "ready" =>
    \A t \in Tools : Exact(header, sidecar.rack, t) = {sidecar.tab[t]}

\* What may be on the heads together
Loadable(tools) == {C \in SUBSET tools : Cardinality(C) <= NHeads}

Least(S) == CHOOSE n \in S : \A m \in S : n <= m

\* The fewest swaps from a line on, for the tools that may be on heads when it
\* is reached, from those that are needed after it.
From(line, need, later) ==
  [C \in Loadable(need) |->
     IF ~(line.op = "T" /\ line.n \in need \ C) THEN later[C]
     ELSE IF Cardinality(C) < NHeads THEN 1 + later[C \cup {line.n}]
     ELSE 1 + Least({later[(C \ {t}) \cup {line.n}] : t \in C})]

\* The fewest swaps from each line on: the reference, which tries every choice.
SwapsLeft(lines, need) ==
  LET left[i \in 1..(Len(lines) + 1)] ==
        IF i > Len(lines) THEN [C \in Loadable(need) |-> 0]
        ELSE From(lines[i], need, left[i + 1])
  IN left

Fewest(lines, tab) ==
  LET first == SwapsLeft(lines, Appearing(lines, tab))[1]
  IN Least({first[C] : C \in Loadable(Appearing(lines, tab))})

\* "Plans the minimum set of ... ACE_LOAD_HEAD calls": no plan for the file,
\* from any first assignment, has fewer swaps.
FewestSwaps ==
  stage = "gcode" => Len(walk.swaps) = Fewest(pass.lines, pass.tab)

\* What a line does.  A head is loaded only when it is empty (cmd_ACE_LOAD_HEAD).
\* Nothing registers ACE_PARK_HEAD: Klipper says that it does not know the command
\* and goes on, the head stays as it is, and the load of the swap is skipped.
Obey(s, l) ==
  CASE l.op = "T" -> [s EXCEPT !.out = Append(@, IF l.n \in Heads THEN s.at[l.n] ELSE None)]
    [] l.op = "ACE_LOAD_HEAD" -> [s EXCEPT !.at[l.n] = IF @ = None THEN l.src ELSE @]
    [] OTHER -> s

\* What is in the heads, and has been printed with, after each line
Printing(lines, start) ==
  LET s[i \in 0..Len(lines)] ==
        IF i = 0 THEN [at |-> start, out |-> <<>>] ELSE Obey(s[i - 1], lines[i])
  IN s

\* What each tool change of a file prints with
Printed(lines, start) == Printing(lines, start)[Len(lines)].out

Setup(sc) == [h \in Heads |-> IF sc.start[h] = None THEN None ELSE sc.tab[sc.start[h]]]

\* The plan brings the tools of slot s only onto the head that they begin on.
Unmoved(sc, s) ==
  \A k \in DOMAIN sc.swaps :
    sc.tab[sc.swaps[k].in] = s => sc.start[sc.swaps[k].head] = sc.swaps[k].in

\* A file that was rewritten once prints a change of the slicer with the spool the
\* sidecar names for its tool, aliases and early loads included, whenever the plan
\* leaves the tool of that spool on the head it begins on, whatever it swaps onto
\* that head in between.  Of a tool that the plan brings in, nothing is asked: its
\* swap does not take place, and it prints with what the head began with.
OneRewritePrintsOwn ==
  sidecar # None /\ stage = "idle" /\ rewrites = 1 /\ ~torn =>
    LET printed == Printed(file, Setup(sidecar))
        Own(t) == sidecar.tab[t]
    IN \A i \in DOMAIN sliced :
         Own(sliced[i]) # None /\ Unmoved(sidecar, Own(sliced[i]))
           => Len(printed) = Len(sliced) /\ printed[i] = Own(sliced[i])
=============================================================================
