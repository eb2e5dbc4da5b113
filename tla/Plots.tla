-------------------------------- MODULE Plots --------------------------------
(* The plotting scripts, plots/fig8a_nbench.py to fig8d_redis.py: what is loaded
   from the result files that were given, which curves are drawn on the two axes,
   which slowdowns are written next to them, and what the legend calls them.

   A point is a record of its place on the x axis and its value; for fig8a, whose
   bars have no x of their own, the place is the series. *)
EXTENDS Integers, Sequences, FiniteSets, FiniteSetsExt, SequencesExt

CONSTANTS
    Figures,    \* subset of {"8a", "8b", "8c", "8d"}
    Results(_)  \* what a result file for a figure may hold: sequences of points

ASSUME FiguresAssumption == Figures \subseteq {"8a", "8b", "8c", "8d"}

(* A slowdown divides by a value of the baseline. *)
Points == [x : Int, y : Int \ {0}]

(* The rows of a table are the targets, or the series, in order: two results of one
   figure, one of them interrupted, say, have their k-th points at the same place.
   Those of fig8d, whose place is measured, do not. *)
ASSUME ResultsAssumption ==
    \A f \in Figures : \A r, s \in Results(f) :
        /\ r \in Seq(Points)
        /\ f # "8d" => \A k \in DOMAIN r \cap DOMAIN s : r[k].x = s[k].x

VARIABLES
    figure,     \* never changes
    given,      \* the file of each curve, <<>> where the argument is empty
    memory,     \* fig8b: is there a file of the memory usage?
    data,       \* what load_result made of it
    stage,      \* "load", "plot", "memory", "legend", "done"
    turn,       \* j: the curve the loop is at
    curves,     \* drawn: the points by curve
    notes,      \* slowdowns: [curve, x, ratio], the ratio of two points
    labels,     \* of the legend, which are the keys of legends,
    handlers    \* and the curves they stand for, its values

files  == <<figure, given, memory>>
legend == <<labels, handlers>>
plots_vars == <<files, data, stage, turn, curves, notes, legend>>

(* A curve is an axis and a label; the first of each axis is its baseline. *)
Curve(axis, label) == [axis |-> axis, label |-> label]

Variants ==
    IF figure = "8a"
      THEN <<Curve("AMD", "Baseline"), Curve("AMD", "GU-Enclave"),
             Curve("Intel", "Baseline"), Curve("Intel", "SGX")>>
      ELSE <<Curve("AMD", "Baseline"), Curve("AMD", "GU-Enclave"), Curve("AMD", "HU-Enclave"),
             Curve("Intel", "Baseline"), Curve("Intel", "SGX")>>

MemoryUsage == Curve("both", "Memory usage")

AllCurves == [axis : {"AMD", "Intel"}, label : {"Baseline", "GU-Enclave", "HU-Enclave", "SGX"}]

PlotsInit ==
    /\ figure \in Figures
    /\ given \in [ToSet(Variants) -> Results(figure) \union {<<>>}]
    /\ memory \in IF figure = "8b" THEN BOOLEAN ELSE {FALSE}
    /\ data = <<>>
    /\ stage = "load"
    /\ turn = 1
    /\ curves = [c \in AllCurves |-> <<>>]
    /\ notes = {}
    /\ labels = <<>>
    /\ handlers = <<>>

-----------------------------------------------------------------------------
(* load_result *)

Close(p, q) == p.x - q.x \in -1 .. 1 /\ p.y - q.y \in -1 .. 1

(* From the end, a point close to the one before it is dropped. *)
WithoutClosePoints(res) ==
    LET lengths == {l \in DOMAIN res : l < 2 \/ ~Close(res[l], res[l - 1])}
    IN SubSeq(res, 1, IF lengths = {} THEN 0 ELSE Max(lengths))

(* A file that is not given, or not there, is an empty list. *)
load_result(file) ==
    CASE figure \in {"8a", "8c"} -> file
      [] figure = "8b" -> SubSeq(file, 2, Len(file))        \* skip 50K
      [] figure = "8d" -> WithoutClosePoints(file)

LoadResults ==
    /\ stage = "load"
    /\ data' = [c \in ToSet(Variants) |-> load_result(given[c])]
    /\ stage' = "plot"
    /\ UNCHANGED <<files, turn, curves, notes, legend>>

-----------------------------------------------------------------------------
(* plot *)

(* normalize, for one variant: zip ends with the shorter list. *)
Normalize(baseline, points) ==
    [k \in 1 .. Min({Len(baseline), Len(points)}) |->
        [base |-> baseline[k], of |-> points[k]]]

(* Mutant: fig8b writes the slowdowns from the first one on. *)
SlowdownsUnshifted(c, normalized) ==
    LET from == IF figure = "8b" THEN 2 ELSE 1
    IN {[curve |-> c, x |-> data[c][k].x, ratio |-> normalized[k - from + 1]] :
            k \in from .. Len(normalized)}

(* fig8b leaves out the first point, of the curve and of the slowdowns alike. *)
Slowdowns(c, normalized) ==
    LET from == IF figure = "8b" THEN 2 ELSE 1
    IN {[curve |-> c, x |-> data[c][k].x, ratio |-> normalized[k]] :
            k \in from .. Len(normalized)}

Annotated(c) ==
    CASE figure \in {"8a", "8c"} -> c.label # "Baseline"
      [] figure = "8b" -> c.label \in {"GU-Enclave", "SGX"}
      [] figure = "8d" -> FALSE

(* The first curve of a label stands for it. *)
AddToLegend(c) ==
    IF c.label \in ToSet(labels)
      THEN UNCHANGED legend
      ELSE /\ labels' = Append(labels, c.label)
           /\ handlers' = Append(handlers, c)

(* Mutant: the loop over the variants breaks where it should continue. *)
DrawOrBreak ==
    /\ stage = "plot"
    /\ LET c == Variants[turn]
           normalized == Normalize(data[Curve(c.axis, "Baseline")], data[c])
           drawn == IF figure = "8a" THEN [k \in DOMAIN normalized |-> normalized[k].of]
                                     ELSE data[c]
       IN IF drawn = <<>>
            THEN /\ UNCHANGED <<curves, notes, legend>>
                 /\ stage' = "memory"
            ELSE /\ curves' = [curves EXCEPT ![c] = drawn]
                 /\ notes' = IF Annotated(c) THEN notes \union Slowdowns(c, normalized)
                             ELSE notes
                 /\ AddToLegend(c)
                 /\ stage' = IF turn = Len(Variants) THEN "memory" ELSE stage
    /\ turn' = turn + 1
    /\ UNCHANGED <<files, data>>

(* One turn of the loop.  Only fig8a draws the normalized values, in complete
   results only. *)
Draw ==
    /\ stage = "plot"
    /\ LET c == Variants[turn]
           normalized == Normalize(data[Curve(c.axis, "Baseline")], data[c])
           drawn == IF figure = "8a" THEN [k \in DOMAIN normalized |-> normalized[k].of]
                                     ELSE data[c]
       IN IF drawn = <<>>
            THEN UNCHANGED <<curves, notes, legend>>
            ELSE /\ curves' = [curves EXCEPT ![c] = drawn]
                 /\ notes' = IF Annotated(c) THEN notes \union Slowdowns(c, normalized)
                             ELSE notes
                 /\ AddToLegend(c)
    /\ stage' = IF turn = Len(Variants) THEN "memory" ELSE stage
    /\ turn' = turn + 1
    /\ UNCHANGED <<files, data>>

(* fig8b draws the memory usage, if its file is there, over both axes. *)
Memory ==
    /\ stage = "memory"
    /\ IF memory THEN AddToLegend(MemoryUsage) ELSE UNCHANGED legend
    /\ stage' = "legend"
    /\ UNCHANGED <<files, data, turn, curves, notes>>

Reordered(list) == <<list[1], list[4], list[2], list[3]>> \o SubSeq(list, 5, Len(list))

(* Mutant: only the names are moved. *)
LegendOfLabels ==
    /\ stage = "legend"
    /\ labels' = IF Len(labels) = 4 THEN Reordered(labels) ELSE labels
    /\ stage' = "done"
    /\ UNCHANGED <<files, data, turn, curves, notes, handlers>>

(* The fourth entry becomes the second: SGX, if all four curves are there.  For fig8b
   there may be a fifth one, or the fourth may be the memory usage. *)
Legend ==
    /\ stage = "legend"
    /\ IF \/ figure \in {"8c", "8d"} /\ Len(labels) = 4
          \/ figure = "8b" /\ Len(labels) >= 4
         THEN labels' = Reordered(labels) /\ handlers' = Reordered(handlers)
         ELSE UNCHANGED legend
    /\ stage' = "done"
    /\ UNCHANGED <<files, data, turn, curves, notes>>

PlotsNext == LoadResults \/ Draw \/ Memory \/ Legend

PlotsSpec == PlotsInit /\ [][PlotsNext]_plots_vars

-----------------------------------------------------------------------------
(* Properties. *)

(* README.md:493 "if some arguments are empty, the corresponding curves will not be
   plotted", and no others are missing; fig8b has nothing to draw of a file that has
   only the point it skips.  Where fig8d saturates, the curve ends at the first of the
   points that lie on top of each other, and nothing else is lost of it. *)
CurvesAreTheGiven ==
    stage = "done" =>
        \A c \in ToSet(Variants) :
            LET all  == given[c]
                kept == Len(curves[c])
            IN /\ kept = 0 <=> Len(all) <= (IF figure = "8b" THEN 1 ELSE 0)
               /\ figure = "8d" =>
                      /\ curves[c] = SubSeq(all, 1, kept)
                      /\ kept >= 2 => ~Close(all[kept], all[kept - 1])
                      /\ \A k \in kept + 1 .. Len(all) : Close(all[k], all[k - 1])

(* A slowdown stands at a point of its curve, and relates the values of the curve
   and of its axis' baseline at that very x: fig8b drops the same points from the
   lists it zips. *)
SlowdownsCompareLikes ==
    \A s \in notes :
        /\ s.ratio.of.x = s.x /\ s.ratio.base.x = s.x
        /\ s.ratio.of \in ToSet(curves[s.curve])
        /\ s.ratio.base \in ToSet(given[Curve(s.curve.axis, "Baseline")])

(* The legend names each kind of curve that is drawn, once, and by its own line: the
   names and the lines are two lists, filled from both axes and reordered apart. *)
LegendNamesCurves ==
    stage = "done" =>
        /\ IsInjective(labels)
        /\ Len(handlers) = Len(labels)
        /\ \A k \in DOMAIN labels : labels[k] = handlers[k].label
        /\ ToSet(handlers) \ {MemoryUsage} \subseteq {c \in AllCurves : curves[c] # <<>>}
        /\ ToSet(labels) = {c.label : c \in {d \in AllCurves : curves[d] # <<>>}}
                           \union (IF memory THEN {"Memory usage"} ELSE {})
=============================================================================
