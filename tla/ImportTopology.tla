---------------------------- MODULE ImportTopology ----------------------------
(***************************************************************************)
(* tools/import_topology.py: the map of meshcore-optimizer becomes a       *)
(* topology file of the simulator.  Repeaters are read and given names of  *)
(* their own, directed measurements are merged into links, unmeasured      *)
(* pairs get an estimated link while both ends are below their caps, and   *)
(* telephones ("companions") are placed beside some repeaters.             *)
(*                                                                         *)
(* A name is a sequence: the text the file gives, then the suffixes added  *)
(* to tell it from the names before it.  A position is a point of a line.  *)
(* The estimate of a missing link is the fitted curve plus a normal draw,  *)
(* so any level of Estimates is possible.                                  *)
(***************************************************************************)
EXTENDS Integers, Sequences, FiniteSets, FiniteSetsExt

CONSTANTS
    Keys,            \* key prefixes of the map: numbers, sorted() is <
    Place,           \* Place[p]: where p stands
    Texts,           \* the names the map may give, sanitised
    Measurements,    \* the directed edges the map may hold
    MaxRead,         \* bound: edges read
    Estimates,       \* levels the propagation model may draw
    Rank,            \* _SOURCE_RANK
    ReversePenalty,  \* _REVERSE_SNR_PENALTY
    MaxGap,          \* --max-gap-km
    DefaultGap,      \* _MAX_GAP_KM, the range when no distance was measured
    MaxGood,         \* --max-good-links
    MaxEdges,        \* _MAX_EDGES_PER_NODE
    SnrFloor,        \* _SNR_FLOOR
    Companions,      \* --companions
    CompanionNames,  \* _COMPANION_NAMES
    CompanionSnr, CompanionFloor, HalfPenalty, MaxHeard

ASSUME ImportAssumption ==
    /\ Keys \subseteq Nat /\ IsFiniteSet(Keys) /\ Place \in [Keys -> Int]
    /\ Rank \in [DOMAIN Rank -> Int]
    /\ Measurements \subseteq [from : Nat, to : Nat, source : DOMAIN Rank, snr : Int]
    /\ Estimates \subseteq Int /\ ReversePenalty \in Nat \ {0}
    /\ MaxGood \in Nat /\ MaxEdges \in Nat
    /\ {SnrFloor, CompanionSnr, CompanionFloor, HalfPenalty} \subseteq Int
    /\ Companions \in Nat /\ MaxHeard \in Nat
    /\ CompanionNames \in Seq(STRING)
    /\ \A i, j \in DOMAIN CompanionNames : CompanionNames[i] = CompanionNames[j] => i = j

VARIABLES
    iStep,           \* the part of import_topology that runs
    listed,          \* prefixes read
    named,           \* nodes: prefix -> name, the nodes kept
    raw,             \* raw_edges, as far as they were read
    links,           \* merged_edges
    gaps,            \* pairs the gap filler has still to look at
    total, good,     \* total_count and good_count
    hosts            \* the repeaters that got a companion, in order

ivars == <<iStep, listed, named, raw, links, gaps, total, good, hosts>>

Kept == DOMAIN named
Ends(l) == {l.a, l.b}
Far(p, q) == IF Place[p] < Place[q] THEN Place[q] - Place[p] ELSE Place[p] - Place[q]

(* What y receives of x over l: an override where the link has one.       *)
Level(l, x) == IF l.a = x THEN l.ab ELSE l.ba

ImportInit ==
    /\ iStep = "nodes" /\ listed = {} /\ named = <<>> /\ raw = <<>>
    /\ links = {} /\ gaps = {} /\ hosts = <<>>
    /\ total = [p \in Keys |-> 0] /\ good = [p \in Keys |-> 0]

-----------------------------------------------------------------------------
(* Nodes.                                                                  *)

Taken == {named[p] : p \in Kept}

(* The name itself, or the first suffix that makes it new.                 *)
Unique(text) ==
    IF <<text>> \notin Taken THEN <<text>>
    ELSE LET free == {k \in 2..(Cardinality(Taken) + 2) : <<text, k>> \notin Taken}
         IN  <<text, Min(free)>>

(* One entry of the map: a stub is skipped, any other node is kept.        *)
ReadNode(p) ==
    /\ iStep = "nodes" /\ p \notin listed
    /\ listed' = listed \cup {p}
    /\ \/ named' = named
       \/ \E t \in Texts :
            named' = [q \in Kept \cup {p} |-> IF q = p THEN Unique(t) ELSE named[q]]
    /\ UNCHANGED <<iStep, raw, links, gaps, total, good, hosts>>

NodesRead ==
    /\ iStep = "nodes" /\ listed = Keys
    /\ iStep' = "edges"
    /\ UNCHANGED <<listed, named, raw, links, gaps, total, good, hosts>>

-----------------------------------------------------------------------------
(* Measured links.                                                         *)

(* An edge with an end that was filtered out is dropped.                   *)
ReadEdge(e) ==
    /\ iStep = "edges" /\ Len(raw) < MaxRead
    /\ e.from \in Kept /\ e.to \in Kept
    /\ raw' = Append(raw, e)
    /\ UNCHANGED <<iStep, listed, named, links, gaps, total, good, hosts>>

EdgesRead ==
    /\ iStep = "edges"
    /\ iStep' = "merge"
    /\ UNCHANGED <<listed, named, raw, links, gaps, total, good, hosts>>

Directed(p, q) == {i \in DOMAIN raw : raw[i].from = p /\ raw[i].to = q}

\* Mutant: the last of the edges, whatever its source.
Best_last(is) == raw[Max(is)]

(* max() by rank of the source: the first of the best.                     *)
Best(is) ==
    raw[CHOOSE i \in is : \A j \in is :
            \/ Rank[raw[i].source] > Rank[raw[j].source]
            \/ Rank[raw[i].source] = Rank[raw[j].source] /\ i <= j]

Measured(p, q) ==
    LET there == Directed(p, q)
        back == Directed(q, p)
    IN  [a |-> named[p], b |-> named[q], kind |-> "measured",
         ab |-> IF there # {} THEN Best(there).snr ELSE Best(back).snr - ReversePenalty,
         ba |-> IF back # {} THEN Best(back).snr ELSE Best(there).snr - ReversePenalty]

Unmerged ==
    {i \in DOMAIN raw : \A l \in links : Ends(l) # {named[raw[i].from], named[raw[i].to]}}

(* One pair: the lower prefix is end a.                                    *)
Merge ==
    /\ iStep = "merge" /\ Unmerged # {}
    /\ LET e == raw[Min(Unmerged)]
           p == Min({e.from, e.to})
           q == Max({e.from, e.to})
       IN  links' = links \cup {Measured(p, q)}
    /\ UNCHANGED <<iStep, listed, named, raw, gaps, total, good, hosts>>

-----------------------------------------------------------------------------
(* Estimated links.                                                        *)

Linked(p, q) == \E l \in links : Ends(l) = {named[p], named[q]}

(* One and a half times the longest measured link, at most MaxGap.  (The   *)
(* fitted curve itself only moves the middle of the draw.)                 *)
InRange(p, q) ==
    LET measured == {Far(z[1], z[2]) : z \in {y \in Kept \X Kept : Linked(y[1], y[2])}}
        longest == Max(measured \cup {0})
    IN  /\ 0 < Far(p, q) /\ Far(p, q) <= MaxGap
        /\ IF longest > 0 THEN 2 * Far(p, q) <= 3 * longest
                          ELSE Far(p, q) <= DefaultGap

(* The pairs without a link that the filler will try, and the counters of  *)
(* the measured ones.  --no-fill-gaps goes straight to the companions.     *)
StartGaps ==
    /\ iStep = "merge" /\ Unmerged = {}
    /\ \/ /\ iStep' = "gaps"
          /\ gaps' = {z \in Kept \X Kept : /\ z[1] < z[2]
                                           /\ ~ Linked(z[1], z[2])
                                           /\ InRange(z[1], z[2])}
          /\ total' = [p \in Keys |-> IF p \in Kept
                        THEN Cardinality({l \in links : named[p] \in Ends(l)}) ELSE 0]
          /\ good' = [p \in Keys |-> IF p \in Kept
                        THEN Cardinality({l \in links : named[p] \in Ends(l) /\ l.ab > 0})
                        ELSE 0]
       \/ iStep' = "companions" /\ UNCHANGED <<gaps, total, good>>
    /\ UNCHANGED <<listed, named, raw, links, hosts>>

(* By first end, then the closest candidate, then its prefix.              *)
Before(y, z) ==
    \/ y[1] < z[1]
    \/ y[1] = z[1] /\ Far(y[1], y[2]) < Far(z[1], z[2])
    \/ y[1] = z[1] /\ Far(y[1], y[2]) = Far(z[1], z[2]) /\ y[2] <= z[2]

Full(p) == total[p] >= MaxEdges
HasGood(p) == good[p] >= MaxGood

\* Mutant: only the near end is counted.
Counted_one(f, p, q) == [f EXCEPT ![p] = @ + 1]

Admits(p, q, snr) ==
    /\ ~ Full(p) /\ ~ Full(q)
    /\ snr > SnrFloor
    /\ snr > 0 => ~ HasGood(p) /\ ~ HasGood(q)

Counted(f, p, q) == [f EXCEPT ![p] = @ + 1, ![q] = @ + 1]

(* The next candidate: its level is drawn, and it is added or passed over. *)
FillGap ==
    /\ iStep = "gaps" /\ gaps # {}
    /\ LET z == CHOOSE y \in gaps : \A w \in gaps : Before(y, w)
           p == z[1]
           q == z[2]
       IN  /\ gaps' = gaps \ {z}
           /\ \E snr \in Estimates :
                IF Admits(p, q, snr)
                THEN /\ links' = links \cup {[a |-> named[p], b |-> named[q],
                                              kind |-> "inferred", ab |-> snr, ba |-> snr]}
                     /\ total' = Counted(total, p, q)
                     /\ good' = IF snr > 0 THEN Counted(good, p, q) ELSE good
                ELSE UNCHANGED <<links, total, good>>
    /\ UNCHANGED <<iStep, listed, named, raw, hosts>>

GapsFilled ==
    /\ iStep = "gaps" /\ gaps = {}
    /\ iStep' = "companions"
    /\ UNCHANGED <<listed, named, raw, links, gaps, total, good, hosts>>

-----------------------------------------------------------------------------
(* Companions.                                                             *)

RelayLinks == {l \in links : l.kind \in {"measured", "inferred"}}
Other(l, x) == IF l.a = x THEN l.b ELSE l.a

\* Mutant: the repeater is taken to be end a of every link.
Weakened_asA(l, x) == [out |-> l.ab - HalfPenalty, in |-> l.ba - HalfPenalty]

(* What the companion c would have of a link l of its repeater x: both     *)
(* ways weaker by half the antenna penalty, and never below the floor.     *)
Weakened(l, x) ==
    [out |-> Level(l, x) - HalfPenalty, in |-> Level(l, Other(l, x)) - HalfPenalty]

Strength(w) == Max({w.out, w.in})

Clamp(snr) == Max({snr, SnrFloor})

Mirrored(c, l, x) ==
    [a |-> c, b |-> Other(l, x), kind |-> "heard",
     ab |-> Clamp(Weakened(l, x).out), ba |-> Clamp(Weakened(l, x).in)]

Audible(x) ==
    {l \in RelayLinks : x \in Ends(l) /\ Strength(Weakened(l, x)) > CompanionFloor}

(* The strongest MaxHeard; which of two equals goes first is left open.    *)
Strongest(ls, x) ==
    LET n == Min({MaxHeard, Cardinality(ls)})
    IN  {k \in kSubset(n, ls) : \A l \in k, m \in ls \ k :
            Strength(Weakened(l, x)) >= Strength(Weakened(m, x))}

Room == Min({Companions, Cardinality(Kept), Len(CompanionNames)})

(* rng.sample draws repeaters without repetition, in any order.            *)
AddCompanion(p) ==
    /\ iStep = "companions" /\ Len(hosts) < Room
    /\ p \in Kept /\ \A i \in DOMAIN hosts : hosts[i] # p
    /\ hosts' = Append(hosts, p)
    /\ LET c == <<CompanionNames[Len(hosts) + 1]>>
           x == named[p]
       IN  \E heard \in Strongest(Audible(x), x) :
            links' = links
                \cup {[a |-> c, b |-> x, kind |-> "direct",
                       ab |-> CompanionSnr, ba |-> CompanionSnr]}
                \cup {Mirrored(c, l, x) : l \in heard}
    /\ UNCHANGED <<iStep, listed, named, raw, gaps, total, good>>

Written ==
    /\ iStep = "companions" /\ Len(hosts) = Room
    /\ iStep' = "done"
    /\ UNCHANGED <<listed, named, raw, links, gaps, total, good, hosts>>

ImportNext ==
    \/ \E p \in Keys : ReadNode(p) \/ AddCompanion(p)
    \/ \E e \in Measurements : ReadEdge(e)
    \/ NodesRead \/ EdgesRead \/ Merge \/ StartGaps \/ FillGap \/ GapsFilled \/ Written

-----------------------------------------------------------------------------
(* Properties.                                                             *)

Merged == iStep \notin {"nodes", "edges", "merge"}

(* A measurement is never lost to a less trusted one: in its direction the *)
(* link of its pair has the level of a measurement at least as trusted,    *)
(* taken in that direction, and a direction nobody measured is guessed     *)
(* worse than the other.  (import_topology.py:357-425: pairs are grouped,  *)
(* the best edge of each way is picked, and the sorted prefixes decide     *)
(* which way is a_to_b.)                                                   *)
MeasuredWins ==
    Merged => \A i \in DOMAIN raw :
        LET e == raw[i]
            l == CHOOSE k \in links :
                    k.kind = "measured" /\ Ends(k) = {named[e.from], named[e.to]}
            there == Level(l, named[e.from])
            back == Level(l, named[e.to])
        IN  /\ \E j \in Directed(e.from, e.to) :
                 there = raw[j].snr /\ Rank[raw[j].source] >= Rank[e.source]
            /\ Directed(e.to, e.from) = {} => back < there

AtNode(p, kinds) == {l \in links : l.kind \in kinds /\ named[p] \in Ends(l)}
Loud(ls) == {l \in ls : l.ab > 0}

(* An estimated link never takes a repeater over a cap: where one was      *)
(* added, measured and estimated links together are at most MaxEdges, and  *)
(* where a good one was added, the good ones are at most MaxGood.          *)
(* (import_topology.py:449-517 checks the two ends of each candidate       *)
(* against counters it keeps by hand for both.)  The caps do not bind the  *)
(* measured links, nor those of the companions.                            *)
CapsHold ==
    \A p \in Kept :
        LET all == AtNode(p, {"measured", "inferred"})
            guessed == AtNode(p, {"inferred"})
        IN  /\ guessed # {} => Cardinality(all) <= MaxEdges
            /\ Loud(guessed) # {} => Cardinality(Loud(all)) <= MaxGood

(* A companion hears what its repeater hears, weaker: each of its links to *)
(* a neighbour has, in both directions, the levels the repeater has with   *)
(* that neighbour less half the penalty (at least the floor), and no       *)
(* neighbour left out is louder than one kept.  (import_topology.py:       *)
(* 583-665: the repeater may be either end of the link it mirrors, and the *)
(* companion is always end a.)  A companion that bears the name of a       *)
(* repeater is left out: its links cannot be told from the repeater's.     *)
CompanionsMirror ==
    \A i \in DOMAIN hosts :
        LET c == <<CompanionNames[i]>>
            x == named[hosts[i]]
            own == {l \in links : l.kind = "heard" /\ c \in Ends(l)}
            loudest(l) == Max({l.ab, l.ba})
            atHost == {l \in RelayLinks : x \in Ends(l)}
        IN  c \notin Taken =>
            /\ Cardinality(own) <= MaxHeard
            /\ \A h \in own : \E l \in atHost :
                 LET n == Other(h, c)
                 IN  /\ Other(l, x) = n
                     /\ Level(h, c) = Clamp(Level(l, x) - HalfPenalty)
                     /\ Level(h, n) = Clamp(Level(l, n) - HalfPenalty)
            /\ \A h \in own, l \in atHost :
                 (\A k \in own : Other(k, c) # Other(l, x)) =>
                    loudest(h) >= loudest(l) - HalfPenalty
=============================================================================
