------------------------------- MODULE MCPlots -------------------------------
(* Model values for Plots: complete results over three places, an interrupted one,
   and one whose last points lie on top of each other. *)
EXTENDS Plots

Point(x, y) == [x |-> x, y |-> y]

MCComplete ==
    { <<Point(10, 3), Point(20, 6), Point(30, 9)>>,
      <<Point(10, 5), Point(20, 8), Point(30, 20)>> }

\* Throughput and latency: the place is measured, too.
MCSaturating ==
    { <<Point(10, 3), Point(20, 6), Point(30, 9)>>,
      <<Point(10, 3), Point(20, 6), Point(21, 6), Point(22, 7)>>,
      <<Point(10, 3), Point(11, 3), Point(20, 6), Point(21, 5)>>,
      <<Point(10, 3), Point(10, 3)>> }

MCInterrupted == { <<Point(10, 5), Point(20, 8)>> }

MCResults(f) ==
    CASE f = "8a" -> MCComplete
      [] f \in {"8b", "8c"} -> MCComplete \union MCInterrupted
      [] f = "8d" -> MCSaturating
=============================================================================
