------------------------------ MODULE MCPaging ------------------------------
(* Page tables with two entries each: sixteen pages.  The second entry of every
   upper table on the way to page 0 leads on, is absent, or maps a large page. *)
EXTENDS Paging

MCTables == 1 .. 6
MCFrames == {11, 12}

Absent == [addr |-> 11, flags |-> {}]
Large  == [addr |-> 12, flags |-> {"P", "W", "PS"}]
To(t)  == [addr |-> t, flags |-> {"P", "W"}]

Table(first, second) == [i \in 0 .. 1 |-> IF i = 0 THEN first ELSE second]

(* 1 is the root, 2 a P3, 3 and 6 are P2s, 4 and 5 P1s; an absent leaf still
   gives its slot away. *)
MCMemories ==
    {[t \in MCTables |->
        CASE t = 1 -> Table(To(2), root)
          [] t = 2 -> Table(To(3), p3)
          [] t = 3 -> Table(To(4), p2)
          [] t = 6 -> Table(Absent, Absent)
          [] OTHER -> Table(To(11), leaf)] :
        root \in {Absent, Large}, p3 \in {Absent, Large, To(6)},
        p2 \in {Absent, Large, To(5)}, leaf \in {To(12), Absent}}
=============================================================================
