---------------------------- MODULE ResultsProofs ----------------------------
(* The results, from the samples to the figures: first the benchmark scripts of the
   clients, for any command lines, any number of targets and of rounds, and any
   measurements; then the plots, for any results of any length. *)
EXTENDS ClientBenchmark, Plots, SequenceTheorems, FiniteSetTheorems, WellFoundedInduction,
        TLAPS

(* A list of samples: a round and a value each. *)
Lists == Seq(Nat \X Values)

(* What a step appends to the list of one target, and to no other. *)
LEMMA Added ==
    ASSUME NEW all \in [DOMAIN Targets -> Lists], n \in DOMAIN Targets, i \in Nat,
           NEW value \in Values, NEW found \in BOOLEAN
    PROVE  /\ Add(all, found, value) \in [DOMAIN Targets -> Lists]
           /\ \A k \in DOMAIN Targets :
                  \/ Add(all, found, value)[k] = all[k]
                  \/ k = n /\ Add(all, found, value)[k] = Append(all[k], <<i, value>>)
<1>1. <<i, value>> \in Nat \X Values
    OBVIOUS
<1>2. all[n] \in Lists /\ Append(all[n], <<i, value>>) \in Lists
    BY <1>1, AppendProperties DEF Lists
<1> QED
    BY <1>2 DEF Add

-----------------------------------------------------------------------------
(* The rounds of the list of target k are increasing, and go up to the round that runs:
   that one is there only if the loop is past k. *)
Ordered(list, k, round, target) ==
    /\ \A a, b \in DOMAIN list : a < b => list[a][1] < list[b][1]
    /\ \A a \in DOMAIN list :
           /\ list[a][1] \in 1 .. runs
           /\ list[a][1] < round \/ (list[a][1] = round /\ k < target)

(* Before the loop there is no round, during it the round and the target are within what
   was asked for, after it all of them are over. *)
LoopInv ==
    /\ pc \in {"options", "checks", "flush", "load", "run", "tables", "exited"}
    /\ line \in Seq(Options)
    /\ runs \in Nat \union {Unset}
    /\ pc \in {"checks", "flush", "load", "run", "tables"} => runs \in Nat
    /\ i \in Nat \ {0} /\ n \in 1 .. Len(Targets)
    /\ pc \in {"options", "checks"} => i = 1 /\ n = 1
    /\ pc \in {"flush", "load", "run"} => i <= runs
    /\ pc = "tables" => i = runs + 1 /\ n = 1

(* The lists, and the tables made of them. *)
ListsInv ==
    /\ all_tput \in [DOMAIN Targets -> Lists]
    /\ all_lat \in [DOMAIN Targets -> Lists]
    /\ \A k \in DOMAIN Targets : Ordered(all_tput[k], k, i, n) /\ Ordered(all_lat[k], k, i, n)
    /\ pc \in {"options", "checks"} =>
           \A k \in DOMAIN Targets : all_tput[k] = <<>> /\ all_lat[k] = <<>>
    /\ pc # "exited" => tables = <<>>
    /\ tables = <<>> \/ (runs \in Nat /\ RowsAreRounds)

(* The round and the target go on by one, and reach the tables at the end of the last
   round only. *)
LEMMA NextLoopInv == LoopInv /\ [Next]_vars => LoopInv'
<1> SUFFICES ASSUME LoopInv, [Next]_vars PROVE LoopInv'
    OBVIOUS
<1> USE DEF LoopInv, args, settings, loop, redis, samples, history
<1>0. Len(Targets) \in Nat \ {0}
    BY TargetsAssumption
<1>1. CASE GetOpt
  <2>1. Head(line) \in Options /\ Tail(line) \in Seq(Options)
    BY <1>1, HeadTailProperties DEF GetOpt
  <2>2. "r" = Head(line)[1] => Head(line)[2] \in Nat
    BY <2>1, LinesAssumption
  <2> QED
    BY <1>1, <2>1, <2>2 DEF GetOpt, Usage, Exit
<1>2. CASE CheckTag
    BY <1>2, NumbersAssumption DEF CheckTag, Usage, Exit
<1>3. CASE CheckWorkload
    BY <1>3, <1>0 DEF CheckWorkload, FirstTarget, Usage, Exit
<1>4. CASE StartLighttpd
    BY <1>4, <1>0 DEF StartLighttpd, FirstTarget
<1>5. CASE FlushAll
    BY <1>5 DEF FlushAll
<1>6. CASE Load
    BY <1>6 DEF Load, Fails, Exit
<1>7. CASE RunFails
    BY <1>7 DEF RunFails, Fails, Exit
<1>8. CASE Measure
  <2>1. NextTarget /\ UNCHANGED <<line, runs>> /\ pc = "run"
    BY <1>8 DEF Measure
  <2>2. CASE n < Len(Targets)
    BY <1>0, <2>1, <2>2 DEF NextTarget
  <2>3. CASE ~ (n < Len(Targets))
    BY <1>0, <2>1, <2>3 DEF NextTarget
  <2> QED
    BY <2>2, <2>3
<1>9. CASE WriteTables
    BY <1>9 DEF WriteTables, Exit
<1>10. CASE UNCHANGED vars
    BY <1>10 DEF vars
<1> QED
    BY <1>1, <1>2, <1>3, <1>4, <1>5, <1>6, <1>7, <1>8, <1>9, <1>10 DEF Next

(* One round's sample goes behind those of the rounds before. *)
LEMMA MeasureOrdered ==
    ASSUME LoopInv, pc = "run", NextTarget, UNCHANGED runs,
           NEW all \in [DOMAIN Targets -> Lists],
           \A k \in DOMAIN Targets : Ordered(all[k], k, i, n),
           NEW value \in Values, NEW found \in BOOLEAN,
           NEW k \in DOMAIN Targets
    PROVE  Ordered(Add(all, found, value)[k], k, i', n')
<1> DEFINE list == all[k]
           after == Add(all, found, value)[k]
<1>0. /\ Len(Targets) \in Nat \ {0} /\ DOMAIN Targets = 1 .. Len(Targets)
      /\ i \in Nat \ {0} /\ n \in 1 .. Len(Targets) /\ k \in 1 .. Len(Targets)
      /\ runs \in Nat /\ i <= runs
    BY TargetsAssumption DEF LoopInv
<1>1. Ordered(list, k, i, n) /\ list \in Lists
    OBVIOUS
<1>2. \/ i' = i /\ n' = n + 1 /\ n < Len(Targets)
      \/ i' = i + 1 /\ n' = 1
    BY <1>0 DEF NextTarget
<1>3. after = list \/ (k = n /\ after = Append(list, <<i, value>>))
    BY <1>0, Added
<1>4. after \in Lists
    BY <1>0, Added
<1>5. CASE after = list
    BY <1>0, <1>1, <1>2, <1>5 DEF Ordered
<1>6. CASE k = n /\ after = Append(list, <<i, value>>)
  <2>1. /\ DOMAIN list = 1 .. Len(list) /\ Len(list) \in Nat
        /\ DOMAIN after = 1 .. Len(list) + 1
        /\ \A a \in 1 .. Len(list) : after[a] = list[a]
        /\ after[Len(list) + 1] = <<i, value>>
    BY <1>1, <1>6, AppendProperties DEF Lists
  <2>2. \A a \in 1 .. Len(list) : list[a][1] \in 1 .. runs /\ list[a][1] < i
    BY <1>0, <1>1, <1>6, <2>1 DEF Ordered
  <2>3. \A a, b \in DOMAIN after : a < b => after[a][1] < after[b][1]
    <3> SUFFICES ASSUME NEW a \in DOMAIN after, NEW b \in DOMAIN after, a < b
                 PROVE  after[a][1] < after[b][1]
      OBVIOUS
    <3>1. a \in 1 .. Len(list)
      BY <2>1
    <3>2. CASE b \in 1 .. Len(list)
      <4>1. list[a][1] < list[b][1]
        BY <1>1, <3>1, <3>2 DEF Ordered
      <4> QED
        BY <2>1, <3>1, <3>2, <4>1
    <3>3. CASE b = Len(list) + 1
      BY <2>1, <2>2, <3>1, <3>3
    <3> QED
      BY <2>1, <3>2, <3>3
  <2>4. ASSUME NEW a \in DOMAIN after
        PROVE  after[a][1] \in 1 .. runs /\ after[a][1] <= i
    <3>1. CASE a \in 1 .. Len(list)
      BY <1>0, <2>1, <2>2, <3>1
    <3>2. CASE a = Len(list) + 1
      BY <1>0, <2>1, <3>2
    <3> QED
      BY <2>1, <3>1, <3>2
  <2>5. ASSUME NEW a \in DOMAIN after
        PROVE  /\ after[a][1] \in 1 .. runs
               /\ after[a][1] < i' \/ (after[a][1] = i' /\ k < n')
    <3>1. (i' = i /\ k < n') \/ i' = i + 1
      BY <1>0, <1>2, <1>6
    <3> DEFINE round == after[a][1]
    <3>2. round \in 1 .. runs /\ round <= i
      BY <2>4
    <3> HIDE DEF round
    <3>3. round < i' \/ (round = i' /\ k < n')
      BY ONLY <1>0, <3>1, <3>2
    <3> QED
      BY <3>2, <3>3 DEF round
  <2> QED
    BY <2>3, <2>5 DEF Ordered
<1> QED
    BY <1>3, <1>5, <1>6

(* A step measures one target in the round that runs, or writes what was measured. *)
LEMMA NextListsInv == LoopInv /\ ListsInv /\ [Next]_vars => ListsInv'
<1> SUFFICES ASSUME LoopInv, ListsInv, [Next]_vars PROVE ListsInv'
    OBVIOUS
<1> USE DEF ListsInv, args, settings, loop, redis, samples, history
<1>1. CASE GetOpt \/ CheckTag
  <2>1. /\ pc = "options" /\ UNCHANGED <<i, n, all_tput, all_lat, tables>>
    BY <1>1 DEF GetOpt, CheckTag
  <2> QED
    BY <2>1 DEF Ordered
<1>2. CASE CheckWorkload \/ StartLighttpd
  <2>1. /\ pc = "checks" /\ UNCHANGED <<i, n, all_tput, all_lat, tables, runs>>
    BY <1>2 DEF CheckWorkload, StartLighttpd
  <2> QED
    BY <2>1 DEF Ordered
<1>3. CASE FlushAll \/ Load \/ RunFails
  <2>1. /\ pc \in {"flush", "load", "run"} /\ pc' \in {"load", "run", "exited"}
        /\ UNCHANGED <<i, n, all_tput, all_lat, tables, runs>>
    BY <1>3 DEF FlushAll, Load, RunFails, Fails, Exit
  <2> QED
    BY <2>1 DEF Ordered
<1>4. CASE Measure
  <2>1. PICK value \in Values, tput \in BOOLEAN, lat \in BOOLEAN :
            /\ all_tput' = Add(all_tput, tput, value)
            /\ all_lat' = Add(all_lat, lat, value)
    BY <1>4 DEF Measure
  <2>2. pc = "run" /\ NextTarget /\ UNCHANGED <<runs, tables>> /\ tables = <<>>
    BY <1>4 DEF Measure
  <2>3. pc' \in {"tables", "flush", "run"}
    BY <2>2 DEF NextTarget
  <2>4. n \in DOMAIN Targets /\ i \in Nat
    BY TargetsAssumption DEF LoopInv
  <2>5. all_tput' \in [DOMAIN Targets -> Lists] /\ all_lat' \in [DOMAIN Targets -> Lists]
    BY <2>1, <2>4, Added
  <2>6. \A k \in DOMAIN Targets : Ordered(Add(all_tput, tput, value)[k], k, i', n')
    BY <2>2, MeasureOrdered
  <2>7. \A k \in DOMAIN Targets : Ordered(Add(all_lat, lat, value)[k], k, i', n')
    BY <2>2, MeasureOrdered
  <2>8. \A k \in DOMAIN Targets : /\ Ordered(all_tput[k], k, i, n)'
                                 /\ Ordered(all_lat[k], k, i, n)'
    BY <2>1, <2>2, <2>6, <2>7 DEF Ordered
  <2> QED
    BY <2>2, <2>3, <2>5, <2>8
<1>5. CASE WriteTables
  <2>1. /\ pc = "tables" /\ pc' = "exited" /\ runs \in Nat /\ i = runs + 1 /\ n = 1
        /\ tables' = [k \in DOMAIN Targets |-> <<Row(all_tput, k), Row(all_lat, k)>>]
        /\ UNCHANGED <<i, n, runs, all_tput, all_lat>>
    BY <1>5 DEF WriteTables, Exit, LoopInv
  <2>2. ASSUME NEW row \in Rows'
        PROVE  \E k \in DOMAIN Targets : row.list = all_tput[k] \/ row.list = all_lat[k]
    <3>1. PICK k \in DOMAIN tables', t \in {1, 2} : row = tables'[k][t]
      BY DEF Rows
    <3>2. k \in DOMAIN Targets /\ (row = Row(all_tput, k) \/ row = Row(all_lat, k))
      BY <2>1, <3>1
    <3> QED
      BY <3>2 DEF Row
  <2>3. RowsAreRounds'
    <3> SUFFICES ASSUME NEW row \in Rows'
                 PROVE  /\ \A j, k \in DOMAIN row.list : j < k => row.list[j][1] < row.list[k][1]
                        /\ \A j \in DOMAIN row.list : row.list[j][1] \in 1 .. runs
      BY <2>1 DEF RowsAreRounds
    <3>1. PICK k \in DOMAIN Targets : row.list = all_tput[k] \/ row.list = all_lat[k]
      BY <2>2
    <3>2. Ordered(row.list, k, i, n)
      BY <3>1
    <3> QED
      BY <3>2 DEF Ordered
  <2> QED
    BY <2>1, <2>3 DEF Ordered
<1>6. CASE UNCHANGED vars
    BY <1>6 DEF vars, Ordered, RowsAreRounds, Rows
<1> QED
    BY <1>1, <1>2, <1>3, <1>4, <1>5, <1>6 DEF Next

-----------------------------------------------------------------------------
(* How the commands ended, and what the database holds when a run may look at it. *)
EndInv ==
    /\ pc # "exited" => failed = 0
    /\ pc = "exited" => status = failed
    /\ failed # 0 => tables = <<>>

(* A load that follows a flushall finds the database empty, if it is the one flushed; one
   that is not keeps what was loaded before. *)
FreshInv ==
    client = "redis" =>
        /\ pc = "load" /\ cli = Server /\ flush_failed # <<i, n>> => db = {}
        /\ pc = "run" => <<i, n>> \in db
        /\ pc = "run" /\ cli = Server /\ flush_failed # <<i, n>> => db = {<<i, n>>}
        /\ pc \in {"flush", "load", "run"} /\ cli # Server => Earlier \subseteq db

(* The first command that fails ends the script, with its status. *)
LEMMA NextEndInv == ListsInv /\ EndInv /\ [Next]_vars => EndInv'
    BY DEF ListsInv, EndInv, Next, vars, GetOpt, CheckTag, CheckWorkload, StartLighttpd,
           FlushAll, Load, RunFails, Measure, WriteTables, NextTarget, FirstTarget, Usage,
           Exit, Fails, args, settings, loop, redis, samples, history

(* Earlier, at another point of the loops. *)
EarlierAt(round, target) ==
    {r \in (1 .. runs) \X DOMAIN Targets : r[1] < round \/ (r[1] = round /\ r[2] < target)}

(* The next target has one load more behind it, the first one none. *)
LEMMA EarlierGrows ==
    ASSUME LoopInv
    PROVE  /\ pc \in {"options", "checks"} => Earlier = {}
           /\ pc = "run" /\ NextTarget /\ UNCHANGED runs => Earlier' = Earlier \union {<<i, n>>}
<1>0. /\ Len(Targets) \in Nat \ {0} /\ DOMAIN Targets = 1 .. Len(Targets)
      /\ i \in Nat \ {0} /\ n \in 1 .. Len(Targets)
    BY TargetsAssumption DEF LoopInv
<1>1. ASSUME i = 1, n = 1 PROVE Earlier = {}
    BY <1>0, <1>1 DEF Earlier
<1>2. ASSUME pc = "run", NextTarget, UNCHANGED runs
      PROVE  Earlier' = Earlier \union {<<i, n>>}
  <2>0. /\ runs \in Nat /\ i <= runs /\ runs' = runs /\ Earlier' = EarlierAt(i', n')
    BY <1>2 DEF LoopInv, Earlier, EarlierAt
  <2>1. \/ n < Len(Targets) /\ n' = n + 1 /\ i' = i
        \/ n = Len(Targets) /\ n' = 1 /\ i' = i + 1
    <3>1. /\ n' = IF n < Len(Targets) THEN n + 1 ELSE 1
          /\ i' = IF n < Len(Targets) THEN i ELSE i + 1
      BY <1>2 DEF NextTarget
    <3>2. /\ n < Len(Targets) \/ n = Len(Targets)
          /\ n = Len(Targets) => ~ (n < Len(Targets))
      <4> DEFINE last == Len(Targets)
      <4>1. last \in Nat /\ n \in 1 .. last
        BY <1>0
      <4> HIDE DEF last
      <4>2. (n < last \/ n = last) /\ (n = last => ~ (n < last))
        BY ONLY <4>1
      <4> QED
        BY <4>2 DEF last
    <3> QED
      BY <3>1, <3>2
  <2>2. ASSUME NEW r \in 1 .. runs, NEW t \in DOMAIN Targets
        PROVE  (r < i' \/ (r = i' /\ t < n')) <=> (r < i \/ (r = i /\ t < n) \/ (r = i /\ t = n))
    <3>1. /\ r \in Nat /\ t \in Nat /\ t <= Len(Targets) /\ Len(Targets) \in Nat
          /\ i \in Nat /\ n \in Nat /\ t >= 1
      BY <1>0, <2>0
    <3>2. CASE n < Len(Targets) /\ n' = n + 1 /\ i' = i
      BY ONLY <3>1, <3>2
    <3>3. CASE n = Len(Targets) /\ n' = 1 /\ i' = i + 1
      BY ONLY <3>1, <3>3
    <3> QED
      BY <2>1, <3>2, <3>3
  <2>3. i \in 1 .. runs /\ n \in DOMAIN Targets
    BY ONLY <1>0, <2>0
  <2>4. ASSUME NEW r PROVE r \in EarlierAt(i', n') <=> (r \in EarlierAt(i, n) \/ r = <<i, n>>)
    <3>1. CASE r \in (1 .. runs) \X DOMAIN Targets
      <4>1. PICK a \in 1 .. runs, t \in DOMAIN Targets : r = <<a, t>>
        BY ONLY <3>1
      <4>2. /\ r \in EarlierAt(i', n') <=> (a < i' \/ (a = i' /\ t < n'))
            /\ r \in EarlierAt(i, n) <=> (a < i \/ (a = i /\ t < n))
        BY ONLY <3>1, <4>1, <2>0 DEF EarlierAt
      <4>3. r = <<i, n>> <=> (a = i /\ t = n)
        BY ONLY <4>1
      <4> QED
        BY ONLY <2>2, <4>1, <4>2, <4>3
    <3>2. CASE r \notin (1 .. runs) \X DOMAIN Targets
      BY ONLY <3>2, <2>3 DEF EarlierAt
    <3> QED
      BY <3>1, <3>2
  <2> QED
    BY <2>0, <2>4 DEF Earlier, EarlierAt
<1> QED
    BY <1>1, <1>2 DEF LoopInv

(* Every run comes right after its own load, and every load after its own flushall. *)
LEMMA NextFreshInv == LoopInv /\ FreshInv /\ [Next]_vars => FreshInv'
<1> SUFFICES ASSUME LoopInv, FreshInv, [Next]_vars, client' = "redis"
             PROVE  FreshInv'
    BY DEF FreshInv
<1> USE DEF args, settings, loop, redis, samples, history
<1>1. CASE GetOpt
    BY <1>1 DEF GetOpt, Usage, Exit, FreshInv
<1>2. CASE CheckTag
    BY <1>2 DEF CheckTag, Usage, Exit, FreshInv
<1>3. CASE CheckWorkload \/ StartLighttpd
  <2>1. /\ pc = "checks" /\ pc' \in {"flush", "tables", "exited"} /\ UNCHANGED <<i, n, runs>>
    BY <1>3 DEF CheckWorkload, StartLighttpd, FirstTarget, Usage, Exit
  <2>2. Earlier' = {}
    BY <2>1, EarlierGrows DEF Earlier
  <2> QED
    BY <2>1, <2>2 DEF FreshInv
<1>4. CASE FlushAll
  <2>1. /\ pc = "flush" /\ pc' = "load" /\ UNCHANGED <<i, n, runs, client, cli, address, port>>
        /\ \/ db' = Flushed
           \/ db' = db /\ flush_failed' = <<i, n>>
    BY <1>4 DEF FlushAll
  <2> QED
    BY <2>1 DEF FreshInv, Flushed, Server, Earlier
<1>5. CASE Load
  <2>1. /\ pc = "load" /\ pc' \in {"run", "exited"} /\ db' = db \cup {<<i, n>>}
        /\ UNCHANGED <<i, n, runs, client, cli, address, port, flush_failed>>
    BY <1>5 DEF Load, Fails, Exit
  <2> QED
    BY <2>1 DEF FreshInv, Server, Earlier
<1>6. CASE Measure
  <2>1. /\ pc = "run" /\ pc' \in {"flush", "tables"} /\ NextTarget
        /\ UNCHANGED <<runs, client, cli, address, port, db, flush_failed>>
    BY <1>6 DEF Measure, NextTarget
  <2>2. Earlier' = Earlier \union {<<i, n>>}
    BY <2>1, EarlierGrows
  <2> QED
    BY <2>1, <2>2 DEF FreshInv, Server
<1>7. CASE RunFails \/ WriteTables
    BY <1>7 DEF RunFails, WriteTables, Fails, Exit, FreshInv
<1>8. CASE UNCHANGED vars
    BY <1>8 DEF vars, FreshInv, Server, Earlier
<1> QED
    BY <1>1, <1>2, <1>3, <1>4, <1>5, <1>6, <1>7, <1>8 DEF Next

-----------------------------------------------------------------------------
(* The median.  sort -n puts the lines of a list in some order: it exists. *)

(* Induction over the numbers, in the one form that speaks of sets. *)
LEMMA LeastNumber ==
    ASSUME NEW T \in SUBSET Nat, T # {}
    PROVE  \E x \in T : \A y \in T : x <= y
<1>1. \A x, y \in Nat : <<x, y>> \in OpToRel(<, Nat) <=> x < y
    BY DEF OpToRel
<1>2. PICK x \in T : \A y \in T : ~ (<<y, x>> \in OpToRel(<, Nat))
    BY NatLessThanWellFounded, WFMin
<1>3. \A y \in T : ~ (y < x)
    BY <1>1, <1>2
<1>4. \A y \in T : x \in Nat /\ y \in Nat
    OBVIOUS
<1>5. \A y \in T : x <= y
    BY <1>3, <1>4
<1> QED
    BY <1>5

(* A row of all indices of the first len values, in which these do not decrease. *)
Sorts(p, value, len) ==
    /\ p \in [1 .. len -> 1 .. len]
    /\ \A k \in 1 .. len : \E j \in 1 .. len : p[j] = k
    /\ \A j, k \in 1 .. len : j < k => value[p[j]] <= value[p[k]]

(* In a row of values that do not decrease there is a place for one more. *)
LEMMA PlaceExists ==
    ASSUME NEW len \in Nat, NEW row, \A k \in 1 .. len : row[k] \in Int,
           \A j, k \in 1 .. len : j < k => row[j] <= row[k], NEW new \in Int
    PROVE  \E m \in 1 .. len + 1 :
               /\ \A j \in 1 .. m - 1 : row[j] <= new
               /\ \A j \in m .. len : new <= row[j]
<1> DEFINE After == {j \in 1 .. len + 1 : j = len + 1 \/ row[j] > new}
<1>1. len + 1 \in After /\ After \in SUBSET Nat
    OBVIOUS
<1>2. PICK m \in After : \A j \in After : m <= j
  <2> HIDE DEF After
  <2> QED
    BY <1>1, LeastNumber
<1>3. ASSUME NEW j \in 1 .. m - 1 PROVE row[j] <= new
  <2>1. j \in 1 .. len /\ j \notin After
    BY <1>2
  <2> QED
    BY <2>1
<1>4. ASSUME NEW j \in m .. len PROVE new <= row[j]
  <2>1. m \in 1 .. len /\ j \in 1 .. len /\ row[m] > new /\ row[m] \in Int /\ row[j] \in Int
    BY <1>2
  <2>2. row[m] <= row[j]
    BY <2>1
  <2> QED
    BY <2>1, <2>2
<1> QED
    BY <1>2, <1>3, <1>4

(* Inserting a value at its place sorts one value more. *)
LEMMA Insertion ==
    ASSUME NEW len \in Nat, NEW value, \A k \in 1 .. len + 1 : value[k] \in Int,
           NEW p, Sorts(p, value, len)
    PROVE  \E q : Sorts(q, value, len + 1)
<1> DEFINE row == [k \in 1 .. len |-> value[p[k]]]
           new == value[len + 1]
<1>1. /\ \A k \in 1 .. len : p[k] \in 1 .. len
      /\ \A j, k \in 1 .. len : j < k => value[p[j]] <= value[p[k]]
      /\ \A k \in 1 .. len : \E j \in 1 .. len : p[j] = k
    BY DEF Sorts
<1>2. /\ \A k \in 1 .. len : row[k] = value[p[k]] /\ row[k] \in Int
      /\ \A j, k \in 1 .. len : j < k => row[j] <= row[k]
      /\ new \in Int
    BY <1>1
<1> HIDE DEF row, new
<1>3. PICK m \in 1 .. len + 1 : /\ \A j \in 1 .. m - 1 : row[j] <= new
                                /\ \A j \in m .. len : new <= row[j]
    BY <1>2, PlaceExists
<1> DEFINE q == [j \in 1 .. len + 1 |->
                   IF j < m THEN p[j] ELSE IF j = m THEN len + 1 ELSE p[j - 1]]
<1>4. /\ \A j \in 1 .. m - 1 : j \in 1 .. len /\ q[j] = p[j]
      /\ q[m] = len + 1
      /\ \A j \in m + 1 .. len + 1 : j - 1 \in m .. len /\ q[j] = p[j - 1]
    OBVIOUS
<1>5. q \in [1 .. len + 1 -> 1 .. len + 1]
  <2>1. ASSUME NEW j \in 1 .. len + 1
        PROVE  (IF j < m THEN p[j] ELSE IF j = m THEN len + 1 ELSE p[j - 1]) \in 1 .. len + 1
    <3>1. CASE j < m
      <4>1. p[j] \in 1 .. len
        BY <1>1, <3>1
      <4> QED
        BY <3>1, <4>1
    <3>2. CASE j = m
      BY <3>2
    <3>3. CASE j > m
      <4>1. p[j - 1] \in 1 .. len
        BY <1>1, <3>3
      <4> QED
        BY <3>3, <4>1
    <3> QED
      BY <3>1, <3>2, <3>3
  <2> QED
    BY <2>1
<1> HIDE DEF q
<1>6. ASSUME NEW k \in 1 .. len + 1 PROVE \E j \in 1 .. len + 1 : q[j] = k
  <2>1. CASE k = len + 1
    BY <1>4, <2>1
  <2>2. CASE k \in 1 .. len
    <3>1. PICK j \in 1 .. len : p[j] = k
      BY <1>1, <2>2
    <3>2. CASE j < m
      BY <1>4, <3>1, <3>2
    <3>3. CASE j >= m
      <4>1. j + 1 \in m + 1 .. len + 1 /\ (j + 1) - 1 = j /\ j + 1 \in 1 .. len + 1
        BY <3>3
      <4>2. q[j + 1] = p[j]
        BY <1>4, <4>1
      <4> QED
        BY <3>1, <4>1, <4>2
    <3> QED
      BY <3>2, <3>3
  <2> QED
    BY <2>1, <2>2
<1> DEFINE w(j) == value[q[j]]
<1>7. /\ \A j \in 1 .. m - 1 : j \in 1 .. len /\ w(j) = row[j]
      /\ w(m) = new
      /\ \A j \in m + 1 .. len + 1 : j - 1 \in m .. len /\ j - 1 \in 1 .. len /\ w(j) = row[j - 1]
    BY <1>2, <1>4 DEF new
<1> HIDE DEF w
<1>8. ASSUME NEW j \in 1 .. len + 1, NEW k \in 1 .. len + 1, j < k
      PROVE  w(j) <= w(k)
  <2>1. CASE k < m
    BY <1>2, <1>7, <1>8, <2>1
  <2>2. CASE k = m
    BY <1>3, <1>7, <1>8, <2>2
  <2>3. CASE k > m /\ j = m
    <3>1. k - 1 \in m .. len /\ w(k) = row[k - 1] /\ w(j) = new
      BY <1>7, <2>3
    <3> QED
      BY <1>3, <3>1
  <2>4. CASE k > m /\ j > m
    <3>1. /\ j - 1 \in 1 .. len /\ k - 1 \in 1 .. len /\ j - 1 < k - 1
          /\ w(j) = row[j - 1] /\ w(k) = row[k - 1]
      BY <1>7, <1>8, <2>4
    <3> QED
      BY <1>2, <3>1
  <2>5. CASE k > m /\ j < m
    <3>1. k - 1 \in m .. len /\ k - 1 \in 1 .. len /\ j \in 1 .. m - 1 /\ j \in 1 .. len
      BY <2>5
    <3>2. w(j) = row[j] /\ w(k) = row[k - 1] /\ row[j] \in Int /\ row[k - 1] \in Int
      BY <1>2, <1>7, <2>5, <3>1
    <3>3. row[j] <= new /\ new <= row[k - 1]
      BY <1>3, <3>1
    <3> QED
      BY <1>2, <3>2, <3>3
  <2> QED
    BY <2>1, <2>2, <2>3, <2>4, <2>5
<1>9. Sorts(q, value, len + 1)
    BY <1>5, <1>6, <1>8 DEF Sorts, w
<1> QED
    BY <1>9

(* Every list of values can be sorted. *)
LEMMA SortExists ==
    ASSUME NEW len \in Nat, NEW value, \A k \in 1 .. len : value[k] \in Int
    PROVE  \E p : Sorts(p, value, len)
<1> DEFINE Bad == {l \in 0 .. len : ~ \E p : Sorts(p, value, l)}
<1> SUFFICES ASSUME Bad # {} PROVE FALSE
    OBVIOUS
<1>1. PICK l \in Bad : \A m \in Bad : l <= m
  <2>1. Bad \in SUBSET Nat
    OBVIOUS
  <2> HIDE DEF Bad
  <2> QED
    BY <2>1, LeastNumber
<1>2. l # 0
  <2>1. Sorts([k \in 1 .. 0 |-> k], value, 0)
    BY DEF Sorts
  <2> QED
    BY <2>1
<1>3. l - 1 \in 0 .. len /\ l - 1 \in Nat /\ l - 1 \notin Bad /\ (l - 1) + 1 = l
    BY <1>1, <1>2
<1>4. PICK p : Sorts(p, value, l - 1)
    BY <1>3
<1>5. \A k \in 1 .. (l - 1) + 1 : value[k] \in Int
    BY <1>3
<1>6. \E q : Sorts(q, value, (l - 1) + 1)
    BY <1>3, <1>4, <1>5, Insertion
<1> QED
    BY <1>3, <1>6

(* Indices that are all among those in places a .. b of a row are no more than these. *)
LEMMA CountPlaces ==
    ASSUME NEW a \in Int, NEW b \in Int, NEW p, NEW S,
           \A k \in S : \E j \in a .. b : p[j] = k
    PROVE  Cardinality(S) \in Nat /\ (a <= b + 1 => Cardinality(S) <= (b - a) + 1)
<1> DEFINE T == {p[j] : j \in a .. b}
           f == [j \in a .. b |-> p[j]]
<1>1. f \in Surjection(a .. b, T)
    BY DEF Surjection
<1>2. IsFiniteSet(a .. b) /\ Cardinality(a .. b) = IF a > b THEN 0 ELSE b - a + 1
    BY FS_Interval
<1>3. S \in SUBSET T
    OBVIOUS
<1> HIDE DEF T, f
<1>4. IsFiniteSet(T) /\ Cardinality(T) <= Cardinality(a .. b)
    BY <1>1, <1>2, FS_Surjection
<1>5. IsFiniteSet(S) /\ Cardinality(S) <= Cardinality(T)
    BY <1>3, <1>4, FS_Subset
<1>6. Cardinality(S) \in Nat /\ Cardinality(T) \in Nat
    BY <1>4, <1>5, FS_CardinalityType
<1> QED
    BY <1>2, <1>4, <1>5, <1>6

(* What sort -n makes of a list. *)
LEMMA SortedIsOrdered ==
    ASSUME NEW list \in Lists
    PROVE  \E p :
               /\ \A k \in DOMAIN list : \E j \in 1 .. Len(list) : p[j] = k
               /\ \A j \in 1 .. Len(list) : p[j] \in DOMAIN list
               /\ \A j \in 1 .. Len(list) : Sorted(list)[j] = list[p[j]][2]
               /\ Len(Sorted(list)) = Len(list)
               /\ \A j \in 1 .. Len(list) : Sorted(list)[j] \in Nat
               /\ \A j, k \in 1 .. Len(list) : j < k => Sorted(list)[j] <= Sorted(list)[k]
<1> DEFINE len == Len(list)
           value == [k \in 1 .. len |-> list[k][2]]
<1>1. DOMAIN list = 1 .. len /\ len \in Nat /\ \A k \in 1 .. len : list[k] \in Nat \X Values
    BY LenProperties DEF Lists
<1>2. \A k \in 1 .. len : value[k] = list[k][2] /\ value[k] \in Nat
    BY <1>1, NumbersAssumption
<1> HIDE DEF value, len
<1>3. PICK q : Sorts(q, value, len)
  <2>1. len \in Nat /\ \A k \in 1 .. len : value[k] \in Int
    BY <1>1, <1>2
  <2> QED
    BY ONLY <2>1, SortExists
<1>4. q \in Orders(list)
  <2>1. q \in [DOMAIN list -> DOMAIN list]
    BY <1>1, <1>3 DEF Sorts
  <2>2. Range(q) = DOMAIN list
    BY <1>1, <1>3, <2>1 DEF Sorts, Range
  <2>3. \A j, k \in DOMAIN list : j < k => list[q[j]][2] <= list[q[k]][2]
    <3>1. \A j, k \in 1 .. len : j < k => value[q[j]] <= value[q[k]]
      BY <1>3 DEF Sorts
    <3>2. \A j \in 1 .. len : q[j] \in 1 .. len
      BY <1>3 DEF Sorts
    <3>3. \A j \in 1 .. len : value[q[j]] = list[q[j]][2]
      BY <1>2, <3>2
    <3>4. DOMAIN list = 1 .. len
      BY <1>1
    <3> QED
      BY ONLY <3>1, <3>3, <3>4
  <2> QED
    BY <2>1, <2>2, <2>3 DEF Orders
<1> DEFINE p == CHOOSE r \in Orders(list) : TRUE
<1>5. p \in Orders(list)
    BY <1>4
<1>6. Sorted(list) = [k \in DOMAIN list |-> list[p[k]][2]]
    BY DEF Sorted
<1> HIDE DEF p
<1>7. /\ p \in [1 .. len -> 1 .. len] /\ Range(p) = 1 .. len
      /\ \A j, k \in 1 .. len : j < k => list[p[j]][2] <= list[p[k]][2]
    BY <1>1, <1>5 DEF Orders
<1>8. \A k \in 1 .. len : \E j \in 1 .. len : p[j] = k
    BY <1>7 DEF Range
<1>9. ASSUME NEW j \in 1 .. len
      PROVE  /\ p[j] \in 1 .. len /\ Sorted(list)[j] = list[p[j]][2]
             /\ Sorted(list)[j] \in Nat
  <2>1. p[j] \in 1 .. len
    BY <1>7
  <2>2. Sorted(list)[j] = list[p[j]][2]
    BY <1>1, <1>6
  <2>3. list[p[j]][2] \in Nat
    BY <1>2, <2>1
  <2> QED
    BY <2>1, <2>2, <2>3
<1>10. Len(Sorted(list)) = len
  <2>1. Sorted(list) \in [1 .. len -> Nat]
    BY <1>1, <1>6, <1>9
  <2> QED
    BY <1>1, <2>1
<1>11. \A j, k \in 1 .. len : j < k => Sorted(list)[j] <= Sorted(list)[k]
    BY <1>7, <1>9
<1> WITNESS p
<1> QED
    BY <1>1, <1>8, <1>9, <1>10, <1>11 DEF len

(* The middle of a row that does not decrease has at most half of it on either side. *)
LEMMA MedianSplits ==
    ASSUME NEW list \in Lists
    PROVE  LET median2 == MedianTwice(list)
               below == {k \in DOMAIN list : 2 * list[k][2] < median2}
               above == {k \in DOMAIN list : 2 * list[k][2] > median2}
           IN /\ 2 * Cardinality(below) <= Len(list)
              /\ 2 * Cardinality(above) <= Len(list)
<1> DEFINE len == Len(list)
           a == Sorted(list)
           h == len \div 2
           median2 == MedianTwice(list)
           below == {k \in DOMAIN list : 2 * list[k][2] < median2}
           above == {k \in DOMAIN list : 2 * list[k][2] > median2}
<1>1. len \in Nat /\ DOMAIN list = 1 .. len
    BY LenProperties DEF Lists
<1>2. PICK p : /\ \A k \in 1 .. len : \E j \in 1 .. len : p[j] = k
               /\ \A j \in 1 .. len : p[j] \in 1 .. len /\ a[j] = list[p[j]][2] /\ a[j] \in Nat
               /\ Len(a) = len
               /\ \A j, k \in 1 .. len : j < k => a[j] <= a[k]
  <2>1. PICK p : /\ \A k \in DOMAIN list : \E j \in 1 .. len : p[j] = k
                 /\ \A j \in 1 .. len : p[j] \in DOMAIN list
                 /\ \A j \in 1 .. len : a[j] = list[p[j]][2]
                 /\ Len(a) = len
                 /\ \A j \in 1 .. len : a[j] \in Nat
                 /\ \A j, k \in 1 .. len : j < k => a[j] <= a[k]
    BY SortedIsOrdered
  <2> HIDE DEF a, len
  <2> WITNESS p
  <2> QED
    BY ONLY <1>1, <2>1
<1>3. median2 = IF len % 2 = 1 THEN 2 * a[h + 1]
                ELSE IF len = 0 THEN 0 ELSE a[h + 1] + a[h]
    BY <1>2 DEF MedianTwice
<1> DEFINE odd == len % 2
<1> HIDE DEF len
<1>4. h \in Nat /\ len % 2 \in 0 .. 1 /\ len = 2 * h + (len % 2)
    BY <1>1
<1> HIDE DEF a, h, median2, odd
<1>5. ASSUME NEW k \in below
      PROVE  \E j \in 1 .. len : p[j] = k /\ 2 * a[j] < median2
  <2>1. k \in 1 .. len /\ 2 * list[k][2] < median2
    BY <1>1
  <2>2. PICK j \in 1 .. len : p[j] = k
    BY <1>2, <2>1
  <2>3. a[j] = list[k][2]
    BY <1>2, <2>2
  <2> QED
    BY <2>1, <2>2, <2>3
<1>6. ASSUME NEW k \in above
      PROVE  \E j \in 1 .. len : p[j] = k /\ 2 * a[j] > median2
  <2>1. k \in 1 .. len /\ 2 * list[k][2] > median2
    BY <1>1
  <2>2. PICK j \in 1 .. len : p[j] = k
    BY <1>2, <2>1
  <2>3. a[j] = list[k][2]
    BY <1>2, <2>2
  <2> QED
    BY <2>1, <2>2, <2>3
<1> HIDE DEF below, above
<1>7. /\ \A j \in 1 .. len : 2 * a[j] < median2 => j \in 1 .. h
      /\ \A j \in 1 .. len : 2 * a[j] > median2 => j \in h + odd + 1 .. len
  <2>1. CASE len = 0
    BY <2>1
  <2>2. CASE len # 0 /\ odd = 1
    <3>1. h + 1 \in 1 .. len /\ median2 = 2 * a[h + 1] /\ len = 2 * h + 1 /\ h \in Nat
      BY <1>1, <1>3, <1>4, <2>2 DEF odd
    <3>2. ASSUME NEW j \in 1 .. len PROVE /\ 2 * a[j] < median2 => j \in 1 .. h
                                          /\ 2 * a[j] > median2 => j \in h + 2 .. len
      <4>1. a[j] \in Nat /\ a[h + 1] \in Nat
        BY <1>2, <3>1
      <4>2. j < h + 1 => a[j] <= a[h + 1]
        BY <1>2, <3>1
      <4>3. j > h + 1 => a[h + 1] <= a[j]
        BY <1>2, <3>1
      <4> QED
        BY <3>1, <4>1, <4>2, <4>3
    <3> QED
      BY <3>1, <3>2, <2>2
  <2>3. CASE len # 0 /\ odd = 0
    <3>1. /\ h + 1 \in 1 .. len /\ h \in 1 .. len /\ median2 = a[h + 1] + a[h]
          /\ len = 2 * h /\ h \in Nat
      BY <1>1, <1>3, <1>4, <2>3 DEF odd
    <3>2. ASSUME NEW j \in 1 .. len PROVE /\ 2 * a[j] < median2 => j \in 1 .. h
                                          /\ 2 * a[j] > median2 => j \in h + 1 .. len
      <4>1. a[j] \in Nat /\ a[h + 1] \in Nat /\ a[h] \in Nat
        BY <1>2, <3>1
      <4>2. j < h => a[j] <= a[h]
        BY <1>2, <3>1
      <4>3. j > h + 1 => a[h + 1] <= a[j]
        BY <1>2, <3>1
      <4>4. a[h] <= a[h + 1]
        BY <1>2, <3>1
      <4> QED
        BY <3>1, <4>1, <4>2, <4>3, <4>4
    <3> QED
      BY <3>1, <3>2, <2>3
  <2> QED
    BY <1>4, <2>1, <2>2, <2>3 DEF odd
<1>8. /\ h \in Nat /\ odd \in 0 .. 1 /\ len = 2 * h + odd /\ len \in Nat
    BY <1>1, <1>4 DEF odd
<1>9. 2 * Cardinality(below) <= len
  <2>1. \A k \in below : \E j \in 1 .. h : p[j] = k
    BY <1>5, <1>7
  <2>2. 1 \in Int /\ h \in Int
    BY <1>8
  <2>3. Cardinality(below) \in Nat /\ (1 <= h + 1 => Cardinality(below) <= (h - 1) + 1)
    BY ONLY <2>1, <2>2, CountPlaces
  <2> QED
    BY <1>8, <2>3
<1>10. 2 * Cardinality(above) <= len
  <2> DEFINE b == h + odd + 1
  <2>1. b \in Int /\ len \in Int
    BY <1>8
  <2>2. \A k \in above : \E j \in b .. len : p[j] = k
    BY <1>6, <1>7
  <2>3. b = (len - h) + 1
    BY <1>8
  <2> HIDE DEF b
  <2>4. Cardinality(above) \in Nat /\ (b <= len + 1 => Cardinality(above) <= (len - b) + 1)
    BY ONLY <2>1, <2>2, CountPlaces
  <2> QED
    BY <1>8, <2>1, <2>3, <2>4
<1> QED
    BY <1>9, <1>10 DEF len, below, above, median2

(* Every row has the median of its own list. *)
RowsInv == \A row \in Rows : row.list \in Lists /\ row.median2 = MedianTwice(row.list)

(* Rows are written by WriteTables, of the lists there are then. *)
LEMMA NextRowsInv == ListsInv /\ RowsInv /\ [Next]_vars => RowsInv'
<1> SUFFICES ASSUME ListsInv, RowsInv, [Next]_vars PROVE RowsInv'
    OBVIOUS
<1>1. CASE WriteTables
  <2>1. tables' = [k \in DOMAIN Targets |-> <<Row(all_tput, k), Row(all_lat, k)>>]
    BY <1>1 DEF WriteTables
  <2>2. ASSUME NEW row \in Rows'
        PROVE  row.list \in Lists /\ row.median2 = MedianTwice(row.list)
    <3>1. PICK k \in DOMAIN tables', t \in {1, 2} : row = tables'[k][t]
      BY DEF Rows
    <3>2. k \in DOMAIN Targets /\ (row = Row(all_tput, k) \/ row = Row(all_lat, k))
      BY <2>1, <3>1
    <3>3. all_tput[k] \in Lists /\ all_lat[k] \in Lists
      BY <3>2 DEF ListsInv
    <3> QED
      BY <3>2, <3>3 DEF Row
  <2> QED
    BY <2>2 DEF RowsInv
<1>2. CASE tables' = tables
    BY <1>2 DEF RowsInv, Rows
<1> QED
    BY <1>1, <1>2
       DEF Next, vars, GetOpt, CheckTag, CheckWorkload, StartLighttpd, FlushAll, Load,
           RunFails, Measure

-----------------------------------------------------------------------------
(* The theorems. *)

(* Nothing has been measured. *)
LEMMA InitLists == Init => LoopInv /\ ListsInv
<1> SUFFICES ASSUME Init PROVE LoopInv /\ ListsInv
    OBVIOUS
<1>1. line \in Seq(Options) /\ Len(Targets) \in Nat \ {0}
    BY LinesAssumption, TargetsAssumption DEF Init
<1>2. LoopInv
    BY <1>1 DEF Init, LoopInv
<1>3. ListsInv
    BY DEF Init, ListsInv, Ordered, Lists
<1> QED
    BY <1>2, <1>3

(* Rows hold samples of the rounds asked for, once each and in order, whatever was missing
   from the results. *)
THEOREM TablesHoldRounds == Spec => []RowsAreRounds
<1>1. Init => LoopInv /\ ListsInv
    BY InitLists
<1>2. ListsInv => RowsAreRounds
    BY DEF ListsInv, RowsAreRounds, Rows
<1> QED
    BY <1>1, <1>2, NextLoopInv, NextListsInv, PTL DEF Spec

(* The script's status is that of the load or the run that failed, and no table is
   written then. *)
THEOREM FailuresAreReported == Spec => []FailureReported
<1>1. Init => LoopInv /\ ListsInv /\ EndInv
    BY InitLists DEF Init, EndInv
<1>2. EndInv => FailureReported
    BY DEF EndInv, FailureReported
<1> QED
    BY <1>1, <1>2, NextLoopInv, NextListsInv, NextEndInv, PTL DEF Spec

(* On the server that redis-cli reaches, a run measures its own load alone unless the
   flushall before that load failed; on another one it measures all loads so far. *)
THEOREM RunsAreFresh == Spec => []FreshIfFlushed
<1>1. Init => LoopInv /\ FreshInv
    BY InitLists DEF Init, FreshInv
<1>2. FreshInv => FreshIfFlushed
    BY DEF FreshInv, FreshIfFlushed
<1> QED
    BY <1>1, <1>2, NextLoopInv, NextFreshInv, PTL DEF Spec

(* What a table calls the median of a row has at most half of the row's samples below it
   and at most half above, for any measurements, any number of them and any order in
   which they came. *)
THEOREM MediansAreMiddles == Spec => []MedianIsMiddle
<1>1. Init => LoopInv /\ ListsInv /\ RowsInv
  <2>1. Init => RowsInv
    BY DEF Init, RowsInv, Rows
  <2> QED
    BY <2>1, InitLists
<1>2. RowsInv => MedianIsMiddle
  <2> SUFFICES ASSUME RowsInv PROVE MedianIsMiddle
    OBVIOUS
  <2>1. ASSUME NEW row \in Rows
        PROVE  LET below == {k \in DOMAIN row.list : 2 * row.list[k][2] < row.median2}
                   above == {k \in DOMAIN row.list : 2 * row.list[k][2] > row.median2}
               IN /\ 2 * Cardinality(below) <= Len(row.list)
                  /\ 2 * Cardinality(above) <= Len(row.list)
    <3>1. row.list \in Lists /\ row.median2 = MedianTwice(row.list)
      BY DEF RowsInv
    <3> QED
      BY <3>1, MedianSplits
  <2> QED
    BY <2>1 DEF MedianIsMiddle
<1> QED
    BY <1>1, <1>2, NextLoopInv, NextListsInv, NextRowsInv, PTL DEF Spec

-----------------------------------------------------------------------------
(* The plots. *)

(* The curves are different, belong to the two axes, and each axis has its baseline. *)
LEMMA VariantsAre ==
    /\ Len(Variants) \in {4, 5} /\ DOMAIN Variants = 1 .. Len(Variants)
    /\ \A k \in DOMAIN Variants :
           /\ Variants[k] \in AllCurves
           /\ Curve(Variants[k].axis, "Baseline") \in ToSet(Variants)
    /\ \A k, l \in DOMAIN Variants : Variants[k] = Variants[l] => k = l
<1>1. CASE figure = "8a"
  <2>1. Variants = <<Curve("AMD", "Baseline"), Curve("AMD", "GU-Enclave"),
                     Curve("Intel", "Baseline"), Curve("Intel", "SGX")>>
      BY <1>1 DEF Variants
  <2> QED
      BY <2>1 DEF Curve, AllCurves, ToSet
<1>2. CASE figure # "8a"
  <2>1. Variants = <<Curve("AMD", "Baseline"), Curve("AMD", "GU-Enclave"), Curve("AMD", "HU-Enclave"),
                     Curve("Intel", "Baseline"), Curve("Intel", "SGX")>>
      BY <1>2 DEF Variants
  <2> QED
      BY <2>1 DEF Curve, AllCurves, ToSet
<1> QED
    BY <1>1, <1>2

-----------------------------------------------------------------------------
(* load_result *)

(* What fig8d keeps of a file. *)
LEMMA Shortened ==
    ASSUME NEW res \in Seq(Points)
    PROVE  \E kept \in 0 .. Len(res) :
               /\ WithoutClosePoints(res) = SubSeq(res, 1, kept)
               /\ kept = 0 <=> Len(res) = 0
               /\ kept >= 2 => ~Close(res[kept], res[kept - 1])
               /\ \A k \in kept + 1 .. Len(res) : Close(res[k], res[k - 1])
<1> DEFINE lengths == {l \in DOMAIN res : l < 2 \/ ~Close(res[l], res[l - 1])}
<1>1. DOMAIN res = 1 .. Len(res) /\ Len(res) \in Nat
    BY LenProperties
<1>2. \A l \in lengths : l \in 1 .. Len(res)
    BY <1>1
<1>3. CASE lengths = {}
  <2>1. Len(res) = 0
    <3>1. ASSUME 1 \in DOMAIN res PROVE FALSE
      <4>1. 1 < 2
          OBVIOUS
      <4>2. 1 \in lengths
          BY <3>1, <4>1
      <4> QED
          BY <1>3, <4>2
    <3> QED
        BY <1>1, <3>1
  <2>2. WithoutClosePoints(res) = SubSeq(res, 1, 0)
      BY <1>3 DEF WithoutClosePoints
  <2> QED
      BY <2>1, <2>2
<1>4. CASE lengths # {}
  <2> DEFINE ups == {Len(res) - l : l \in lengths}
  <2>1. PICK l \in lengths : TRUE
      BY <1>4
  <2>2. ups \in SUBSET Nat /\ Len(res) - l \in ups
      BY <1>1
  <2>3. PICK up \in ups : \A k \in ups : up <= k
      BY <2>2, LeastNumber
  <2>4. PICK top \in lengths : up = Len(res) - top
      BY <2>3
  <2>5. ASSUME NEW k \in lengths PROVE top >= k
    <3>1. up <= Len(res) - k
        BY <2>3
    <3>2. k \in Nat /\ top \in Nat
        BY <1>2, <2>4
    <3> HIDE DEF lengths, ups
    <3> QED
        BY <1>1, <2>4, <3>1, <3>2
  <2>6. /\ Max(lengths) \in lengths
        /\ \A k \in lengths : Max(lengths) >= k
      BY <2>5 DEF Max
  <2> DEFINE last == Max(lengths)
  <2> HIDE DEF last
  <2>7. last \in lengths /\ \A k \in lengths : last >= k
      BY <2>6 DEF last
  <2>8. WithoutClosePoints(res) = SubSeq(res, 1, last)
      BY <1>4 DEF WithoutClosePoints, last
  <2>9. last \in 1 .. Len(res) /\ (last >= 2 => ~Close(res[last], res[last - 1]))
      BY <1>1, <2>7
  <2>10. ASSUME NEW k \in last + 1 .. Len(res) PROVE Close(res[k], res[k - 1])
    <3>1. k \in 1 .. Len(res) /\ ~(last >= k) /\ ~(k < 2)
        BY ONLY <1>1, <2>9, k \in last + 1 .. Len(res)
    <3>2. k \in DOMAIN res /\ k \notin lengths
        BY <1>1, <2>7, <3>1
    <3> QED
        BY <3>1, <3>2
  <2> HIDE DEF lengths
  <2>11. last \in 0 .. Len(res) /\ (last = 0 <=> Len(res) = 0)
      BY <1>1, <2>9
  <2> USE <2>11
  <2> WITNESS last \in 0 .. Len(res)
  <2> QED
      BY <2>8, <2>9, <2>10, <2>11
<1> QED
    BY <1>3, <1>4

(* What is there of a figure: files of its own kind, or none. *)
Given(f) == Results(f) \union {<<>>}

(* Every one of them is a list of points. *)
LEMMA GivenArePoints ==
    ASSUME NEW f \in Figures, NEW file \in Given(f)
    PROVE  file \in Seq(Points)
BY ResultsAssumption, EmptySeq DEF Given

(* What load_result returns: the file without its first point, without its last ones, or
   all of it; each of its points is one of the file. *)
LEMMA Loaded ==
    ASSUME figure \in Figures, NEW file \in Given(figure)
    PROVE  /\ load_result(file) \in Seq(Points)
           /\ figure \in {"8a", "8c"} => load_result(file) = file
           /\ figure = "8b" =>
                  /\ Len(load_result(file)) = IF Len(file) >= 2 THEN Len(file) - 1 ELSE 0
                  /\ \A k \in DOMAIN load_result(file) :
                         k + 1 \in DOMAIN file /\ load_result(file)[k] = file[k + 1]
           /\ figure = "8d" => load_result(file) = WithoutClosePoints(file)
<1>1. file \in Seq(Points)
    BY GivenArePoints
<1>2. DOMAIN file = 1 .. Len(file) /\ Len(file) \in Nat
    BY <1>1, LenProperties
<1>3. figure \in {"8a", "8b", "8c", "8d"}
    BY FiguresAssumption
<1>4. CASE figure \in {"8a", "8c"}
  <2>1. load_result(file) = file
      BY <1>4 DEF load_result
  <2> QED
      BY <1>1, <1>4, <2>1
<1>5. CASE figure = "8b"
  <2> DEFINE loaded == SubSeq(file, 2, Len(file))
  <2>1. load_result(file) = loaded
      BY <1>5 DEF load_result
  <2>2. \A k \in 2 .. Len(file) : file[k] \in Points
      BY <1>1, <1>2
  <2>3. /\ loaded \in Seq(Points)
        /\ Len(loaded) = IF 2 <= Len(file) THEN Len(file) - 2 + 1 ELSE 0
        /\ \A k \in 1 .. Len(file) - 2 + 1 : loaded[k] = file[2 + k - 1]
      BY <1>2, <2>2, SubSeqProperties
  <2>4. DOMAIN loaded = 1 .. Len(loaded)
      BY <2>3, LenProperties
  <2> HIDE DEF loaded
  <2> DEFINE all == Len(file)  some == Len(loaded)
  <2>5. all \in Nat /\ some = (IF 2 <= all THEN all - 2 + 1 ELSE 0)
      BY <1>2, <2>3
  <2> HIDE DEF all, some
  <2>6. some = (IF all >= 2 THEN all - 1 ELSE 0)
      BY <2>5
  <2>7. Len(loaded) = IF Len(file) >= 2 THEN Len(file) - 1 ELSE 0
      BY <2>6 DEF all, some
  <2>8. ASSUME NEW k \in DOMAIN loaded
        PROVE  k + 1 \in DOMAIN file /\ loaded[k] = file[k + 1]
    <3>1. k \in 1 .. some
        BY <2>4 DEF some
    <3>2. k \in 1 .. all - 1 /\ 2 + k - 1 = k + 1
        BY ONLY <2>5, <2>6, <3>1
    <3>3. k \in 1 .. Len(file) - 1 /\ 2 + k - 1 = k + 1
        BY <3>2 DEF all
    <3>4. k \in 1 .. Len(file) - 2 + 1 /\ k + 1 \in DOMAIN file
        BY ONLY <1>2, <3>3
    <3> QED
        BY ONLY <2>3, <3>3, <3>4
  <2> QED
      BY <1>5, <2>1, <2>3, <2>7, <2>8
<1>6. CASE figure = "8d"
  <2>1. load_result(file) = WithoutClosePoints(file)
      BY <1>6 DEF load_result
  <2>2. PICK kept \in 0 .. Len(file) : load_result(file) = SubSeq(file, 1, kept)
      BY <1>1, <2>1, Shortened
  <2>3. \A k \in 1 .. kept : file[k] \in Points
      BY <1>1, <1>2
  <2>4. load_result(file) \in Seq(Points)
      BY <2>2, <2>3, SubSeqProperties
  <2> QED
      BY <1>6, <2>1, <2>4
<1> QED
    BY <1>3, <1>4, <1>5, <1>6

(* The points of two files that are loaded for one figure are at the same places. *)
LEMMA SamePlaces ==
    ASSUME figure \in Figures, figure # "8d",
           NEW one \in Given(figure), NEW other \in Given(figure),
           NEW k \in DOMAIN load_result(one) \cap DOMAIN load_result(other)
    PROVE  /\ load_result(one)[k].x = load_result(other)[k].x
           /\ load_result(one)[k] \in ToSet(one)
<1>1. figure \in {"8a", "8b", "8c"}
    BY FiguresAssumption
<1>2. ASSUME NEW l \in DOMAIN one \cap DOMAIN other PROVE one[l].x = other[l].x
  <2>1. one \in Results(figure) /\ other \in Results(figure)
      BY <1>2 DEF Given
  <2> QED
      BY <1>2, <2>1, ResultsAssumption
<1>3. CASE figure \in {"8a", "8c"}
  <2>1. load_result(one) = one /\ load_result(other) = other
      BY <1>3, Loaded
  <2> QED
      BY <1>2, <2>1 DEF ToSet
<1>4. CASE figure = "8b"
  <2>1. /\ k + 1 \in DOMAIN one /\ load_result(one)[k] = one[k + 1]
        /\ k + 1 \in DOMAIN other /\ load_result(other)[k] = other[k + 1]
      BY <1>4, Loaded
  <2> QED
      BY <1>2, <2>1 DEF ToSet
<1> QED
    BY <1>1, <1>3, <1>4

(* zip ends with the shorter list. *)
LEMMA Shorter ==
    ASSUME NEW a \in Nat, NEW b \in Nat
    PROVE  Min({a, b}) \in Nat /\ Min({a, b}) <= a /\ Min({a, b}) <= b
           /\ (Min({a, b}) = a \/ Min({a, b}) = b)
<1>1. \E x \in {a, b} : \A y \in {a, b} : x <= y
    OBVIOUS
<1>2. Min({a, b}) \in {a, b} /\ \A y \in {a, b} : Min({a, b}) <= y
    BY <1>1 DEF Min
<1> QED
    BY <1>2

(* A function on 1 .. m is a sequence of length m. *)
LEMMA IsSequence ==
    ASSUME NEW T, NEW m \in Nat, NEW f \in [1 .. m -> T]
    PROVE  f \in Seq(T) /\ Len(f) = m
<1>1. f \in Seq(T)
    BY SeqDef
<1>2. 1 .. Len(f) = 1 .. m /\ Len(f) \in Nat
    BY <1>1, LenProperties
<1> DEFINE len == Len(f)
<1> HIDE DEF len
<1>3. 1 .. len = 1 .. m /\ len \in Nat
    BY <1>2 DEF len
<1>4. len = m
    BY ONLY <1>3, m \in Nat
<1> QED
    BY <1>1, <1>4 DEF len

(* normalize, at its points. *)
LEMMA Normalized ==
    ASSUME NEW baseline \in Seq(Points), NEW points \in Seq(Points)
    PROVE  /\ Normalize(baseline, points) \in Seq([base : Points, of : Points])
           /\ \A k \in 1 .. Len(Normalize(baseline, points)) :
                  /\ k \in DOMAIN baseline /\ k \in DOMAIN points
                  /\ Normalize(baseline, points)[k] = [base |-> baseline[k], of |-> points[k]]
<1>1. /\ Len(baseline) \in Nat /\ DOMAIN baseline = 1 .. Len(baseline)
      /\ Len(points) \in Nat /\ DOMAIN points = 1 .. Len(points)
    BY LenProperties
<1> DEFINE least == Min({Len(baseline), Len(points)})
<1>2. least \in Nat /\ least <= Len(baseline) /\ least <= Len(points)
    BY <1>1, Shorter
<1> HIDE DEF least
<1>3. Normalize(baseline, points) = [k \in 1 .. least |-> [base |-> baseline[k], of |-> points[k]]]
    BY DEF Normalize, least
<1>4. ASSUME NEW k \in 1 .. least
      PROVE  k \in DOMAIN baseline /\ k \in DOMAIN points /\ baseline[k] \in Points /\ points[k] \in Points
  <2>1. k \in 1 .. Len(baseline) /\ k \in 1 .. Len(points)
      BY ONLY <1>1, <1>2, <1>4, k \in 1 .. least
  <2> QED
      BY <1>1, <2>1, ElementOfSeq
<1>5. Normalize(baseline, points) \in [1 .. least -> [base : Points, of : Points]]
    BY <1>3, <1>4
<1>6. /\ Normalize(baseline, points) \in Seq([base : Points, of : Points])
      /\ Len(Normalize(baseline, points)) = least
    BY <1>2, <1>5, IsSequence
<1> QED
    BY <1>3, <1>4, <1>6

-----------------------------------------------------------------------------
(* The loop: where it is, what it has loaded, what it has drawn. *)

(* What a turn of the loop draws of a curve, of the data d of figure f. *)
ToDraw(f, d, c) ==
    LET normalized == Normalize(d[Curve(c.axis, "Baseline")], d[c])
    IN IF f = "8a" THEN [k \in DOMAIN normalized |-> normalized[k].of] ELSE d[c]

(* What was given and where the script is; once loaded, data is load_result of each file. *)
PlacesInv ==
    /\ figure \in Figures /\ memory \in BOOLEAN
    /\ given \in [ToSet(Variants) -> Given(figure)]
    /\ stage \in {"load", "plot", "memory", "legend", "done"}
    /\ turn \in 1 .. Len(Variants) + 1
    /\ stage = "load" => turn = 1
    /\ stage = "plot" => turn <= Len(Variants)
    /\ stage \in {"memory", "legend", "done"} => turn = Len(Variants) + 1
    /\ stage # "load" => data = [c \in ToSet(Variants) |-> load_result(given[c])]

(* The curves of the turns that are over, and no others. *)
DrawnInv ==
    /\ curves \in [AllCurves -> Seq(Points)]
    /\ \A c \in AllCurves : ~(\E k \in DOMAIN Variants : k < turn /\ Variants[k] = c) => curves[c] = <<>>
    /\ \A k \in DOMAIN Variants : k < turn => curves[Variants[k]] = ToDraw(figure, data, Variants[k])

(* SlowdownsCompareLikes is kept by every step, as a curve that is drawn stays as it is. *)
NotesInv ==
    /\ \A s \in notes : s.curve \in AllCurves
    /\ SlowdownsCompareLikes

(* The names and the lines of the legend belong together. *)
Names == {"Baseline", "GU-Enclave", "HU-Enclave", "SGX", "Memory usage"}
(* What a line of the legend may stand for. *)
Kinds == AllCurves \union {MemoryUsage}

(* The two lists of a legend: each name once, next to a line it is the label of. *)
Matched(names, lines) ==
    /\ names \in Seq(Names) /\ lines \in Seq(Kinds)
    /\ Len(lines) = Len(names)
    /\ IsInjective(names)
    /\ \A k \in DOMAIN names : names[k] = lines[k].label

(* LegendNamesCurves as it is between the steps: the names are those of the curves drawn
   so far, with the memory usage only after it is drawn. *)
LegendInv ==
    /\ Matched(labels, handlers)
    /\ ToSet(handlers) \ {MemoryUsage} \subseteq {c \in AllCurves : curves[c] # <<>>}
    /\ ToSet(labels) = {c.label : c \in {d \in AllCurves : curves[d] # <<>>}}
                       \union (IF memory /\ stage \in {"legend", "done"} THEN {"Memory usage"} ELSE {})

(* The inductive invariant. *)
PlotsInv == PlacesInv /\ DrawnInv /\ NotesInv /\ LegendInv

(* What is loaded of each curve, and drawn of it. *)
LEMMA DataAre ==
    ASSUME PlacesInv, stage # "load", NEW c \in ToSet(Variants)
    PROVE  /\ given[c] \in Given(figure)
           /\ data[c] = load_result(given[c]) /\ data[c] \in Seq(Points)
<1>1. given[c] \in Given(figure) /\ data[c] = load_result(given[c])
    BY DEF PlacesInv
<1> QED
    BY <1>1, Loaded DEF PlacesInv

(* Of a turn: the points drawn, and what the slowdowns relate at each of them. *)
LEMMA DrawnAre ==
    ASSUME PlacesInv, stage # "load", NEW k \in DOMAIN Variants
    PROVE  LET c == Variants[k]
               baseline == data[Curve(c.axis, "Baseline")]
               normalized == Normalize(baseline, data[c])
           IN /\ ToDraw(figure, data, c) \in Seq(Points)
              /\ figure # "8a" => ToDraw(figure, data, c) = data[c]
              /\ \A l \in 1 .. Len(normalized) :
                     /\ l \in DOMAIN baseline /\ l \in DOMAIN data[c]
                     /\ normalized[l] = [base |-> baseline[l], of |-> data[c][l]]
                     /\ l \in DOMAIN ToDraw(figure, data, c)
                     /\ ToDraw(figure, data, c)[l] = data[c][l]
<1> DEFINE c == Variants[k]
           baseline == data[Curve(c.axis, "Baseline")]
           normalized == Normalize(baseline, data[c])
<1>1. c \in ToSet(Variants) /\ Curve(c.axis, "Baseline") \in ToSet(Variants)
    BY VariantsAre DEF ToSet
<1> HIDE DEF c
<1>2. data[c] \in Seq(Points) /\ baseline \in Seq(Points)
    BY <1>1, DataAre
<1> HIDE DEF baseline
<1>3. /\ normalized \in Seq([base : Points, of : Points])
      /\ \A l \in 1 .. Len(normalized) :
             /\ l \in DOMAIN baseline /\ l \in DOMAIN data[c]
             /\ normalized[l] = [base |-> baseline[l], of |-> data[c][l]]
    BY <1>2, Normalized
<1> HIDE DEF normalized
<1>4. DOMAIN normalized = 1 .. Len(normalized) /\ Len(normalized) \in Nat
    BY <1>3, LenProperties
<1>5. ASSUME NEW l \in 1 .. Len(normalized) PROVE normalized[l].of = data[c][l]
  <2>1. normalized[l] = [base |-> baseline[l], of |-> data[c][l]]
      BY <1>3
  <2> QED
      BY ONLY <2>1
<1>6. ToDraw(figure, data, c) = IF figure = "8a" THEN [l \in DOMAIN normalized |-> normalized[l].of] ELSE data[c]
    BY DEF ToDraw, normalized, baseline
<1>7. CASE figure # "8a"
    BY <1>2, <1>3, <1>6, <1>7 DEF c, baseline, normalized
<1>8. CASE figure = "8a"
  <2> DEFINE drawn == [l \in 1 .. Len(normalized) |-> normalized[l].of]
  <2>1. ToDraw(figure, data, c) = drawn
      BY <1>4, <1>6, <1>8
  <2>2. ASSUME NEW l \in 1 .. Len(normalized) PROVE normalized[l].of \in Points
    <3>1. l \in DOMAIN data[c]
        BY <1>3
    <3>2. DOMAIN data[c] = 1 .. Len(data[c])
        BY <1>2, LenProperties
    <3>3. data[c][l] \in Points
        BY <1>2, <3>1, <3>2, ElementOfSeq
    <3> QED
        BY <1>5, <3>3
  <2>3. drawn \in [1 .. Len(normalized) -> Points]
      BY <2>2
  <2>4. drawn \in Seq(Points)
      BY <1>4, <2>3, IsSequence
  <2>5. \A l \in 1 .. Len(normalized) : l \in DOMAIN drawn /\ drawn[l] = data[c][l]
      BY <1>5
  <2> HIDE DEF drawn
  <2> QED
      BY <1>3, <1>8, <2>1, <2>4, <2>5 DEF c, baseline, normalized
<1> QED
    BY <1>7, <1>8

-----------------------------------------------------------------------------
(* No step changes what was given; loading fills data, a turn adds one. *)
LEMMA NextPlacesInv == PlacesInv /\ [PlotsNext]_plots_vars => PlacesInv'
<1> SUFFICES ASSUME PlacesInv, [PlotsNext]_plots_vars PROVE PlacesInv'
    OBVIOUS
<1> USE VariantsAre
<1>1. files' = files /\ Variants' = Variants
    BY DEF PlotsNext, plots_vars, LoadResults, Draw, Memory, Legend, files, Variants
<1>2. figure' = figure /\ given' = given /\ memory' = memory /\ Given(figure') = Given(figure)
    BY <1>1 DEF files
<1>3. \A file : load_result(file)' = load_result(file)
    BY <1>2 DEF load_result
<1>4. ASSUME LoadResults PROVE PlacesInv'
  <2>1. data' = [c \in ToSet(Variants) |-> load_result(given[c])]
      BY <1>4 DEF LoadResults
  <2> QED
      BY <1>1, <1>2, <1>4, <2>1 DEF LoadResults, PlacesInv, load_result
<1>5. ASSUME Draw PROVE PlacesInv'
  <2>1. /\ stage = "plot" /\ turn' = turn + 1 /\ data' = data
        /\ stage' = IF turn = Len(Variants) THEN "memory" ELSE stage
      BY <1>5 DEF Draw
  <2>2. turn \in 1 .. Len(Variants) /\ Len(Variants) \in {4, 5}
    <3>1. turn \in 1 .. Len(Variants) + 1 /\ turn <= Len(Variants)
        BY <2>1 DEF PlacesInv
    <3>2. Len(Variants) \in {4, 5}
        BY VariantsAre
    <3> QED
        BY ONLY <3>1, <3>2
  <2>3. turn' \in 1 .. Len(Variants) + 1 /\ (turn # Len(Variants) => turn' <= Len(Variants))
      BY ONLY <2>1, <2>2
  <2> QED
      BY <1>1, <1>2, <2>1, <2>3 DEF PlacesInv, load_result
<1>6. ASSUME Memory PROVE PlacesInv'
    BY <1>1, <1>2, <1>6 DEF Memory, PlacesInv, load_result
<1>7. ASSUME Legend PROVE PlacesInv'
    BY <1>1, <1>2, <1>7 DEF Legend, PlacesInv, load_result
<1>8. ASSUME UNCHANGED plots_vars PROVE PlacesInv'
    BY <1>1, <1>2, <1>8 DEF plots_vars, PlacesInv, load_result
<1> QED
    BY <1>4, <1>5, <1>6, <1>7, <1>8 DEF PlotsNext

(* A turn of the loop: what it draws is the curve's, and it was not drawn before. *)
LEMMA Turns ==
    ASSUME PlacesInv, DrawnInv, Draw
    PROVE  /\ stage = "plot" /\ turn' = turn + 1 /\ UNCHANGED <<files, data>>
           /\ turn \in DOMAIN Variants /\ Variants[turn] \in AllCurves
           /\ curves[Variants[turn]] = <<>>
           /\ curves' = [curves EXCEPT ![Variants[turn]] = ToDraw(figure, data, Variants[turn])]
<1> DEFINE c == Variants[turn]
           normalized == Normalize(data[Curve(c.axis, "Baseline")], data[c])
           drawn == IF figure = "8a" THEN [k \in DOMAIN normalized |-> normalized[k].of] ELSE data[c]
<1>1. /\ stage = "plot" /\ turn' = turn + 1 /\ UNCHANGED <<files, data>>
      /\ curves' = IF drawn = <<>> THEN curves ELSE [curves EXCEPT ![c] = drawn]
    BY DEF Draw
<1>2. drawn = ToDraw(figure, data, c)
    BY DEF ToDraw
<1>3. turn \in DOMAIN Variants
  <2>1. turn \in 1 .. Len(Variants) + 1 /\ turn <= Len(Variants) /\ Len(Variants) \in {4, 5}
      BY <1>1, VariantsAre DEF PlacesInv
  <2>2. turn \in 1 .. Len(Variants)
      BY ONLY <2>1
  <2> QED
      BY <2>2, VariantsAre
<1>4. c \in AllCurves
    BY <1>3, VariantsAre
<1>5. ~(\E k \in DOMAIN Variants : k < turn /\ Variants[k] = c)
  <2> SUFFICES ASSUME NEW k \in DOMAIN Variants, k < turn, Variants[k] = c PROVE FALSE
      OBVIOUS
  <2>1. k = turn
      BY <1>3, VariantsAre
  <2>2. turn \in Nat
      BY <1>3, VariantsAre
  <2> QED
      BY <2>1, <2>2
<1>6. curves[c] = <<>> /\ DOMAIN curves = AllCurves
    BY <1>4, <1>5 DEF DrawnInv
<1> HIDE DEF drawn, c
<1>7. curves' = [curves EXCEPT ![c] = drawn]
  <2>1. CASE drawn = <<>>
    <3>1. [curves EXCEPT ![c] = drawn] = curves
        BY <1>4, <1>6, <2>1 DEF DrawnInv
    <3> QED
        BY <1>1, <2>1, <3>1
  <2> QED
      BY <1>1, <2>1
<1> QED
    BY <1>1, <1>2, <1>3, <1>4, <1>6, <1>7 DEF c

(* A turn draws its own curve and leaves the ones before it alone. *)
LEMMA NextDrawnInv == PlacesInv /\ DrawnInv /\ [PlotsNext]_plots_vars => DrawnInv'
<1> SUFFICES ASSUME PlacesInv, DrawnInv, [PlotsNext]_plots_vars PROVE DrawnInv'
    OBVIOUS
<1>1. files' = files /\ Variants' = Variants /\ figure' = figure
    BY DEF PlotsNext, plots_vars, LoadResults, Draw, Memory, Legend, files, Variants
<1>2. DOMAIN Variants = 1 .. Len(Variants) /\ Len(Variants) \in {4, 5}
    BY VariantsAre
<1>3. ASSUME LoadResults PROVE DrawnInv'
  <2>1. turn = 1 /\ turn' = turn /\ curves' = curves
      BY <1>3 DEF LoadResults, PlacesInv
  <2>2. \A k \in DOMAIN Variants : ~(k < turn)
      BY <1>2, <2>1
  <2> QED
      BY <1>1, <2>1, <2>2 DEF DrawnInv
<1>4. ASSUME Draw PROVE DrawnInv'
  <2> DEFINE c == Variants[turn]
             drawn == ToDraw(figure, data, c)
  <2>1. /\ stage = "plot" /\ turn' = turn + 1 /\ data' = data
        /\ turn \in DOMAIN Variants /\ c \in AllCurves
        /\ curves' = [curves EXCEPT ![c] = drawn]
      BY <1>4, Turns
  <2>2. drawn \in Seq(Points)
      BY <2>1, DrawnAre
  <2>3. \A k \in DOMAIN Variants : k < turn' <=> (k < turn \/ k = turn)
      BY <1>2, <2>1
  <2>4. curves' \in [AllCurves -> Seq(Points)]
      BY <2>1, <2>2 DEF DrawnInv
  <2> HIDE DEF drawn
  <2>5. ASSUME NEW d \in AllCurves, ~(\E k \in DOMAIN Variants : k < turn' /\ Variants[k] = d)
        PROVE  curves'[d] = <<>>
    <3>1. d # c /\ ~(\E k \in DOMAIN Variants : k < turn /\ Variants[k] = d)
        BY <2>1, <2>3, <2>5
    <3>2. curves'[d] = curves[d]
        BY <2>1, <3>1 DEF DrawnInv
    <3> QED
        BY <3>1, <3>2 DEF DrawnInv
  <2>6. ASSUME NEW k \in DOMAIN Variants, k < turn'
        PROVE  curves'[Variants[k]] = ToDraw(figure, data, Variants[k])
    <3>1. CASE k = turn
        BY <2>1, <3>1 DEF DrawnInv, drawn
    <3>2. CASE k # turn
      <4>1. k < turn
          BY <2>3, <2>6, <3>2
      <4>2. Variants[k] # c /\ Variants[k] \in AllCurves
          BY <2>1, <3>2, VariantsAre
      <4>3. curves'[Variants[k]] = curves[Variants[k]]
          BY <2>1, <4>2 DEF DrawnInv
      <4> QED
          BY <4>1, <4>3 DEF DrawnInv
    <3> QED
        BY <3>1, <3>2
  <2> QED
      BY <1>1, <2>1, <2>4, <2>5, <2>6 DEF DrawnInv
<1>5. ASSUME Memory \/ Legend \/ UNCHANGED plots_vars PROVE DrawnInv'
  <2>1. turn' = turn /\ data' = data /\ curves' = curves
      BY <1>5 DEF Memory, Legend, plots_vars
  <2> QED
      BY <1>1, <2>1 DEF DrawnInv
<1> QED
    BY <1>3, <1>4, <1>5 DEF PlotsNext

-----------------------------------------------------------------------------
(* A slowdown that a turn writes is of the place its point has in both files. *)
LEMMA SlowdownsAre ==
    ASSUME PlacesInv, DrawnInv, stage # "load", NEW k \in DOMAIN Variants, figure # "8d",
           NEW s \in Slowdowns(Variants[k],
                               Normalize(data[Curve(Variants[k].axis, "Baseline")], data[Variants[k]]))
    PROVE  /\ s.curve = Variants[k]
           /\ s.ratio.of.x = s.x /\ s.ratio.base.x = s.x
           /\ s.ratio.of \in ToSet(ToDraw(figure, data, Variants[k]))
           /\ s.ratio.base \in ToSet(given[Curve(Variants[k].axis, "Baseline")])
<1> DEFINE c == Variants[k]
           b == Curve(c.axis, "Baseline")
           normalized == Normalize(data[b], data[c])
           drawn == ToDraw(figure, data, c)
<1>1. c \in ToSet(Variants) /\ b \in ToSet(Variants)
    BY VariantsAre DEF ToSet
<1>2. \A l \in 1 .. Len(normalized) :
          /\ l \in DOMAIN data[b] /\ l \in DOMAIN data[c]
          /\ normalized[l] = [base |-> data[b][l], of |-> data[c][l]]
          /\ l \in DOMAIN drawn /\ drawn[l] = data[c][l]
    BY DrawnAre
<1> HIDE DEF normalized
<1>3. s \in Slowdowns(c, normalized)
    BY DEF normalized
<1>4. PICK l \in (IF figure = "8b" THEN 2 ELSE 1) .. Len(normalized) :
          s = [curve |-> c, x |-> data[c][l].x, ratio |-> normalized[l]]
    BY <1>3 DEF Slowdowns
<1>5. Len(normalized) \in Nat
  <2>1. data[b] \in Seq(Points) /\ data[c] \in Seq(Points)
      BY <1>1, DataAre
  <2> QED
      BY <2>1, Normalized, LenProperties DEF normalized
<1>6. l \in 1 .. Len(normalized)
    BY <1>4, <1>5
<1> HIDE DEF drawn, c, b
<1>7. /\ l \in DOMAIN data[b] \cap DOMAIN data[c] /\ l \in DOMAIN drawn
      /\ normalized[l] = [base |-> data[b][l], of |-> data[c][l]]
      /\ drawn[l] = data[c][l]
    BY <1>2, <1>6
<1>8. /\ given[c] \in Given(figure) /\ data[c] = load_result(given[c])
      /\ given[b] \in Given(figure) /\ data[b] = load_result(given[b])
    BY <1>1, DataAre
<1>9. data[b][l].x = data[c][l].x /\ data[b][l] \in ToSet(given[b])
    BY <1>7, <1>8, SamePlaces DEF PlacesInv
<1>10. s.curve = c /\ s.x = data[c][l].x /\ s.ratio.of = data[c][l] /\ s.ratio.base = data[b][l]
    BY <1>4, <1>7
<1>11. data[c][l] \in ToSet(drawn)
    BY <1>7 DEF ToSet
<1> QED
    BY <1>9, <1>10, <1>11 DEF drawn, c, b

(* The slowdowns written before are of curves a turn does not touch; SlowdownsAre says
   the same of the new ones. *)
LEMMA NextNotesInv == PlacesInv /\ DrawnInv /\ NotesInv /\ [PlotsNext]_plots_vars => NotesInv'
<1> SUFFICES ASSUME PlacesInv, DrawnInv, NotesInv, [PlotsNext]_plots_vars PROVE NotesInv'
    OBVIOUS
<1>1. given' = given
    BY DEF PlotsNext, plots_vars, LoadResults, Draw, Memory, Legend, files
<1>2. ASSUME Draw PROVE NotesInv'
  <2> DEFINE c == Variants[turn]
             normalized == Normalize(data[Curve(c.axis, "Baseline")], data[c])
             drawn == ToDraw(figure, data, c)
  <2>1. /\ stage = "plot" /\ turn \in DOMAIN Variants /\ c \in AllCurves
        /\ curves[c] = <<>> /\ curves' = [curves EXCEPT ![c] = drawn]
      BY <1>2, Turns
  <2>2. notes' = notes \/ (Annotated(c) /\ notes' = notes \union Slowdowns(c, normalized))
      BY <1>2 DEF Draw
  <2>3. ASSUME NEW s \in notes
        PROVE  /\ s.curve \in AllCurves
               /\ s.ratio.of.x = s.x /\ s.ratio.base.x = s.x
               /\ s.ratio.of \in ToSet(curves'[s.curve])
               /\ s.ratio.base \in ToSet(given[Curve(s.curve.axis, "Baseline")])
    <3>1. /\ s.curve \in AllCurves
          /\ s.ratio.of.x = s.x /\ s.ratio.base.x = s.x
          /\ s.ratio.of \in ToSet(curves[s.curve])
          /\ s.ratio.base \in ToSet(given[Curve(s.curve.axis, "Baseline")])
        BY DEF NotesInv, SlowdownsCompareLikes
    <3>2. ToSet(<<>>) = {}
        BY DEF ToSet
    <3>3. s.curve # c
        BY <2>1, <3>1, <3>2
    <3>4. curves'[s.curve] = curves[s.curve]
        BY <2>1, <3>1, <3>3 DEF DrawnInv
    <3> QED
        BY <3>1, <3>4
  <2>4. ASSUME Annotated(c), NEW s \in Slowdowns(c, normalized)
        PROVE  /\ s.curve \in AllCurves
               /\ s.ratio.of.x = s.x /\ s.ratio.base.x = s.x
               /\ s.ratio.of \in ToSet(curves'[s.curve])
               /\ s.ratio.base \in ToSet(given[Curve(s.curve.axis, "Baseline")])
    <3>1. figure # "8d"
        BY <2>4 DEF Annotated
    <3>2. /\ s.curve = c
          /\ s.ratio.of.x = s.x /\ s.ratio.base.x = s.x
          /\ s.ratio.of \in ToSet(drawn)
          /\ s.ratio.base \in ToSet(given[Curve(c.axis, "Baseline")])
        BY <2>1, <2>4, <3>1, SlowdownsAre
    <3> HIDE DEF drawn, c
    <3>3. curves'[c] = drawn
        BY <2>1 DEF DrawnInv
    <3> QED
        BY <2>1, <3>2, <3>3
  <2> HIDE DEF c, normalized, drawn
  <2>5. \A s \in notes' :
               /\ s.curve \in AllCurves
               /\ s.ratio.of.x = s.x /\ s.ratio.base.x = s.x
               /\ s.ratio.of \in ToSet(curves'[s.curve])
               /\ s.ratio.base \in ToSet(given[Curve(s.curve.axis, "Baseline")])
      BY <2>2, <2>3, <2>4
  <2> QED
      BY <1>1, <2>5 DEF NotesInv, SlowdownsCompareLikes, Curve
<1>3. ASSUME LoadResults \/ Memory \/ Legend \/ UNCHANGED plots_vars PROVE NotesInv'
  <2>1. notes' = notes /\ curves' = curves
      BY <1>3 DEF LoadResults, Memory, Legend, plots_vars
  <2> QED
      BY <1>1, <2>1 DEF NotesInv, SlowdownsCompareLikes, Curve
<1> QED
    BY <1>2, <1>3 DEF PlotsNext

-----------------------------------------------------------------------------
(* A new name and its line, at the end of the two lists. *)
LEMMA AddedMatch ==
    ASSUME NEW names, NEW lines, Matched(names, lines),
           NEW c \in Kinds, c.label \notin ToSet(names)
    PROVE  /\ Matched(Append(names, c.label), Append(lines, c))
           /\ ToSet(Append(names, c.label)) = ToSet(names) \union {c.label}
           /\ ToSet(Append(lines, c)) = ToSet(lines) \union {c}
<1> DEFINE more == Append(names, c.label)
           moreLines == Append(lines, c)
           len == Len(names)
<1>1. c.label \in Names
  <2>1. CASE c \in AllCurves
      BY <2>1 DEF AllCurves, Names
  <2>2. CASE c = MemoryUsage
    <3>1. c.label = "Memory usage"
        BY <2>2 DEF MemoryUsage, Curve
    <3> QED
        BY <3>1 DEF Names
  <2> QED
      BY <2>1, <2>2 DEF Kinds
<1>2. /\ names \in Seq(Names) /\ lines \in Seq(Kinds) /\ Len(lines) = len
      /\ DOMAIN names = 1 .. len /\ DOMAIN lines = 1 .. len /\ len \in Nat
    BY LenProperties DEF Matched
<1>3. /\ more \in Seq(Names) /\ Len(more) = len + 1
      /\ \A k \in 1 .. len : more[k] = names[k]
      /\ more[len + 1] = c.label
    BY <1>1, <1>2, AppendProperties
<1>4. /\ moreLines \in Seq(Kinds) /\ Len(moreLines) = len + 1
      /\ \A k \in 1 .. len : moreLines[k] = lines[k]
      /\ moreLines[len + 1] = c
    BY <1>2, AppendProperties
<1>5. DOMAIN more = 1 .. len + 1 /\ DOMAIN moreLines = 1 .. len + 1
    BY <1>3, <1>4, LenProperties
<1> HIDE DEF more, moreLines, len
<1>6. \A k \in 1 .. len + 1 : k \in 1 .. len \/ k = len + 1
    BY <1>2
<1>7. \A k \in 1 .. len : k \in 1 .. len + 1 /\ k # len + 1
    BY <1>2
<1>8. len + 1 \in 1 .. len + 1
    BY <1>2
<1>9. \A k \in 1 .. len : names[k] \in ToSet(names) /\ lines[k] \in ToSet(lines)
    BY <1>2 DEF ToSet
<1>10. ToSet(more) = ToSet(names) \union {c.label}
    BY <1>2, <1>3, <1>5, <1>6, <1>7, <1>8 DEF ToSet
<1>11. ToSet(moreLines) = ToSet(lines) \union {c}
    BY <1>2, <1>4, <1>5, <1>6, <1>7, <1>8 DEF ToSet
<1>12. IsInjective(more)
    BY <1>2, <1>3, <1>5, <1>6, <1>9 DEF IsInjective, Matched
<1>13. \A k \in DOMAIN more : more[k] = moreLines[k].label
    BY <1>2, <1>3, <1>4, <1>5, <1>6 DEF Matched
<1> QED
    BY <1>3, <1>4, <1>10, <1>11, <1>12, <1>13 DEF Matched, more, moreLines

(* Where the entries of a reordered list come from. *)
From(k) == IF k = 2 THEN 4 ELSE IF k = 3 THEN 2 ELSE IF k = 4 THEN 3 ELSE k

(* Reordering permutes a list of at least four entries. *)
LEMMA Moves ==
    ASSUME NEW T, NEW list \in Seq(T), Len(list) >= 4
    PROVE  /\ Reordered(list) \in Seq(T) /\ Len(Reordered(list)) = Len(list)
           /\ \A k \in 1 .. Len(list) : Reordered(list)[k] = list[From(k)]
<1> DEFINE len == Len(list)
           front == <<list[1], list[4], list[2], list[3]>>
           back == SubSeq(list, 5, len)
<1>1. len \in Nat /\ len >= 4
    BY LenProperties
<1> HIDE DEF len
<1>2. \A k \in 1 .. len : list[k] \in T
    BY ElementOfSeq DEF len
<1>3. 1 \in 1 .. len /\ 2 \in 1 .. len /\ 3 \in 1 .. len /\ 4 \in 1 .. len
    BY <1>1
<1>4. front \in Seq(T) /\ Len(front) = 4
    BY <1>2, <1>3
<1>5. \A k \in 5 .. len : list[k] \in T
    BY <1>1, <1>2
<1>6. /\ back \in Seq(T)
      /\ Len(back) = IF 5 <= len THEN len - 5 + 1 ELSE 0
      /\ \A k \in 1 .. len - 5 + 1 : back[k] = list[5 + k - 1]
    BY <1>1, <1>5, SubSeqProperties
<1> DEFINE rest == Len(back)
<1>7. rest = IF 5 <= len THEN len - 5 + 1 ELSE 0
    BY <1>6
<1> HIDE DEF rest
<1>8. rest = len - 4
    BY ONLY <1>1, <1>7
<1>9. /\ front \o back \in Seq(T)
      /\ Len(front \o back) = 4 + rest
      /\ \A k \in 1 .. 4 + rest : (front \o back)[k] = IF k <= 4 THEN front[k] ELSE back[k - 4]
    BY <1>4, <1>6, ConcatProperties DEF rest
<1>10. 4 + rest = len
    BY ONLY <1>1, <1>8
<1>11. ASSUME NEW k \in 1 .. len PROVE (front \o back)[k] = list[From(k)]
  <2>1. CASE k <= 4
    <3>1. (front \o back)[k] = front[k]
        BY <1>9, <1>10, <2>1
    <3>2. k \in {1, 2, 3, 4}
        BY <1>1, <2>1
    <3> QED
        BY <3>1, <3>2 DEF From
  <2>2. CASE ~(k <= 4)
    <3>1. (front \o back)[k] = back[k - 4]
        BY <1>9, <1>10, <2>2
    <3>2. k - 4 \in 1 .. len - 5 + 1 /\ 5 + (k - 4) - 1 = k /\ From(k) = k
        BY <1>1, <2>2 DEF From
    <3> QED
        BY <1>6, <3>1, <3>2
  <2> QED
      BY <2>1, <2>2
<1>12. Reordered(list) = front \o back
    BY DEF Reordered, len
<1> QED
    BY <1>9, <1>10, <1>11, <1>12 DEF len

(* Two lists that are reordered alike still match, and have the entries they had. *)
LEMMA ReorderedMatch ==
    ASSUME NEW names, NEW lines, Matched(names, lines), Len(names) >= 4
    PROVE  /\ Matched(Reordered(names), Reordered(lines))
           /\ ToSet(Reordered(names)) = ToSet(names)
           /\ ToSet(Reordered(lines)) = ToSet(lines)
<1> DEFINE len == Len(names)
           moved == Reordered(names)
           movedLines == Reordered(lines)
<1>1. /\ names \in Seq(Names) /\ lines \in Seq(Kinds) /\ Len(lines) = len
      /\ DOMAIN names = 1 .. len /\ DOMAIN lines = 1 .. len /\ len \in Nat /\ len >= 4
    BY LenProperties DEF Matched
<1>2. /\ moved \in Seq(Names) /\ Len(moved) = len
      /\ \A k \in 1 .. len : moved[k] = names[From(k)]
    BY <1>1, Moves
<1>3. /\ movedLines \in Seq(Kinds) /\ Len(movedLines) = len
      /\ \A k \in 1 .. len : movedLines[k] = lines[From(k)]
    BY <1>1, Moves
<1>4. DOMAIN moved = 1 .. len /\ DOMAIN movedLines = 1 .. len
    BY <1>2, <1>3, LenProperties
<1> HIDE DEF len, moved, movedLines
<1>5. \A k \in 1 .. len : From(k) \in 1 .. len
    BY <1>1 DEF From
<1>6. \A k, l \in 1 .. len : From(k) = From(l) => k = l
    BY <1>1 DEF From
<1>7. ASSUME NEW l \in 1 .. len PROVE \E k \in 1 .. len : From(k) = l
  <2>1. CASE l = 4
      BY <1>1, <2>1, 2 \in 1 .. len /\ From(2) = 4 DEF From
  <2>2. CASE l = 2
      BY <1>1, <2>2, 3 \in 1 .. len /\ From(3) = 2 DEF From
  <2>3. CASE l = 3
      BY <1>1, <2>3, 4 \in 1 .. len /\ From(4) = 3 DEF From
  <2>4. CASE l \notin {2, 3, 4}
      BY <2>4, From(l) = l DEF From
  <2> QED
      BY <2>1, <2>2, <2>3, <2>4
<1>8. ToSet(moved) = ToSet(names)
  <2>1. ASSUME NEW e \in ToSet(moved) PROVE e \in ToSet(names)
    <3>1. PICK k \in 1 .. len : e = moved[k]
        BY <1>4 DEF ToSet
    <3>2. e = names[From(k)] /\ From(k) \in 1 .. len
        BY <1>2, <1>5, <3>1
    <3> QED
        BY <1>1, <3>2 DEF ToSet
  <2>2. ASSUME NEW e \in ToSet(names) PROVE e \in ToSet(moved)
    <3>1. PICK l \in 1 .. len : e = names[l]
        BY <1>1 DEF ToSet
    <3>2. PICK k \in 1 .. len : From(k) = l
        BY <1>7, <3>1
    <3>3. e = moved[k]
        BY <1>2, <3>1, <3>2
    <3> QED
        BY <1>4, <3>3 DEF ToSet
  <2> QED
      BY <2>1, <2>2
<1>9. ToSet(movedLines) = ToSet(lines)
  <2>1. ASSUME NEW e \in ToSet(movedLines) PROVE e \in ToSet(lines)
    <3>1. PICK k \in 1 .. len : e = movedLines[k]
        BY <1>4 DEF ToSet
    <3>2. e = lines[From(k)] /\ From(k) \in 1 .. len
        BY <1>3, <1>5, <3>1
    <3> QED
        BY <1>1, <3>2 DEF ToSet
  <2>2. ASSUME NEW e \in ToSet(lines) PROVE e \in ToSet(movedLines)
    <3>1. PICK l \in 1 .. len : e = lines[l]
        BY <1>1 DEF ToSet
    <3>2. PICK k \in 1 .. len : From(k) = l
        BY <1>7, <3>1
    <3>3. e = movedLines[k]
        BY <1>3, <3>1, <3>2
    <3> QED
        BY <1>4, <3>3 DEF ToSet
  <2> QED
      BY <2>1, <2>2
<1>10. IsInjective(moved)
    BY <1>1, <1>2, <1>4, <1>5, <1>6 DEF IsInjective, Matched
<1>11. \A k \in DOMAIN moved : moved[k] = movedLines[k].label
    BY <1>1, <1>2, <1>3, <1>4, <1>5 DEF Matched
<1> QED
    BY <1>2, <1>3, <1>8, <1>9, <1>10, <1>11 DEF Matched, moved, movedLines

(* A turn adds a name only if it is new; the memory usage is always new; the reordering at
   the end moves both lists. *)
LEMMA NextLegendInv ==
    PlacesInv /\ DrawnInv /\ LegendInv /\ [PlotsNext]_plots_vars => LegendInv'
<1> SUFFICES ASSUME PlacesInv, DrawnInv, LegendInv, [PlotsNext]_plots_vars PROVE LegendInv'
    OBVIOUS
<1> DEFINE Extra == IF memory /\ stage \in {"legend", "done"} THEN {"Memory usage"} ELSE {}
<1>1. memory' = memory
    BY DEF PlotsNext, plots_vars, LoadResults, Draw, Memory, Legend, files
<1>2. MemoryUsage \in Kinds /\ MemoryUsage.label = "Memory usage"
    BY DEF Kinds, MemoryUsage, Curve
<1>3. \A c \in AllCurves : c \in Kinds /\ c # MemoryUsage /\ c.label # "Memory usage"
  <2>1. \A c \in AllCurves : c.label # "Memory usage"
      BY DEF AllCurves
  <2> QED
      BY <1>2, <2>1 DEF Kinds
<1>4. Matched(labels, handlers)
    BY DEF LegendInv
<1>5. ASSUME LoadResults \/ UNCHANGED plots_vars PROVE LegendInv'
  <2>1. labels' = labels /\ handlers' = handlers /\ curves' = curves /\ Extra' = Extra
      BY <1>1, <1>5 DEF LoadResults, plots_vars, legend
  <2> QED
      BY <1>1, <2>1 DEF LegendInv
<1>6. ASSUME Draw PROVE LegendInv'
  <2> DEFINE c == Variants[turn]
             drawn == ToDraw(figure, data, c)
  <2>1. /\ stage = "plot" /\ c \in AllCurves
        /\ curves[c] = <<>> /\ curves' = [curves EXCEPT ![c] = drawn]
      BY <1>6, Turns
  <2>2. DOMAIN curves = AllCurves
      BY DEF DrawnInv
  <2>3. stage' \in {"plot", "memory"} /\ Extra = {} /\ Extra' = {}
      BY <1>6, <2>1 DEF Draw
  <2>4. \/ drawn = <<>> /\ UNCHANGED legend
        \/ drawn # <<>> /\ AddToLegend(c)
      BY ONLY <1>6 DEF Draw, ToDraw
  <2> HIDE DEF c, drawn
  <2>5. CASE drawn = <<>> /\ UNCHANGED legend
    <3>1. curves' = curves
        BY <2>1, <2>2, <2>5 DEF DrawnInv
    <3>2. labels' = labels /\ handlers' = handlers
        BY <2>5 DEF legend
    <3> QED
        BY <2>3, <3>1, <3>2 DEF LegendInv
  <2>6. CASE drawn # <<>> /\ AddToLegend(c)
    <3>1. {d \in AllCurves : curves'[d] # <<>>} = {d \in AllCurves : curves[d] # <<>>} \union {c}
        BY <2>1, <2>2, <2>6
    <3>2. {d.label : d \in {e \in AllCurves : curves'[e] # <<>>}}
              = {d.label : d \in {e \in AllCurves : curves[e] # <<>>}} \union {c.label}
        BY <3>1
    <3>3. ToSet(labels) = {d.label : d \in {e \in AllCurves : curves[e] # <<>>}}
        BY <2>3 DEF LegendInv
    <3>4. CASE c.label \in ToSet(labels)
      <4>1. labels' = labels /\ handlers' = handlers
          BY <2>6, <3>4 DEF AddToLegend, legend
      <4>2. ToSet(labels)' = {d.label : d \in {e \in AllCurves : curves'[e] # <<>>}}
          BY <3>2, <3>3, <3>4, <4>1
      <4> QED
          BY <2>3, <3>1, <4>1, <4>2 DEF LegendInv
    <3>5. CASE c.label \notin ToSet(labels)
      <4>1. labels' = Append(labels, c.label) /\ handlers' = Append(handlers, c)
          BY <2>6, <3>5 DEF AddToLegend
      <4>2. /\ Matched(labels', handlers')
            /\ ToSet(labels)' = ToSet(labels) \union {c.label}
            /\ ToSet(handlers)' = ToSet(handlers) \union {c}
        <5>1. c \in Kinds
            BY <1>3, <2>1
        <5>2. /\ Matched(Append(labels, c.label), Append(handlers, c))
              /\ ToSet(Append(labels, c.label)) = ToSet(labels) \union {c.label}
              /\ ToSet(Append(handlers, c)) = ToSet(handlers) \union {c}
            BY ONLY <1>4, <3>5, <5>1, AddedMatch
        <5> QED
            BY <4>1, <5>2
      <4> QED
          BY <2>3, <3>1, <3>2, <3>3, <4>2 DEF LegendInv
    <3> QED
        BY <3>4, <3>5
  <2> QED
      BY <2>4, <2>5, <2>6
<1>7. ASSUME Memory PROVE LegendInv'
  <2>1. stage = "memory" /\ stage' = "legend" /\ curves' = curves /\ Extra = {}
      BY <1>7 DEF Memory
  <2>2. ToSet(labels) = {c.label : c \in {d \in AllCurves : curves[d] # <<>>}}
      BY <2>1 DEF LegendInv
  <2>3. CASE ~memory
    <3>1. labels' = labels /\ handlers' = handlers /\ Extra' = {}
        BY <1>1, <1>7, <2>3 DEF Memory, legend
    <3> QED
        BY <2>1, <2>2, <3>1 DEF LegendInv
  <2>4. CASE memory
    <3>1. "Memory usage" \notin ToSet(labels)
        BY <1>3, <2>2
    <3> DEFINE m == MemoryUsage
    <3>2. m \in Kinds /\ m.label \notin ToSet(labels)
        BY <1>2, <3>1
    <3>3. m.label = "Memory usage"
        BY <1>2
    <3>4. labels' = Append(labels, m.label) /\ handlers' = Append(handlers, m)
        BY <1>7, <2>4, <3>2 DEF Memory, AddToLegend
    <3>5. /\ Matched(labels', handlers')
          /\ ToSet(labels)' = ToSet(labels) \union {"Memory usage"}
          /\ ToSet(handlers)' = ToSet(handlers) \union {MemoryUsage}
      <4> HIDE DEF m
      <4>1. /\ Matched(Append(labels, m.label), Append(handlers, m))
            /\ ToSet(Append(labels, m.label)) = ToSet(labels) \union {m.label}
            /\ ToSet(Append(handlers, m)) = ToSet(handlers) \union {m}
          BY ONLY <1>4, <3>2, AddedMatch
      <4>2. m = MemoryUsage
          BY DEF m
      <4> QED
          BY <3>4, <3>3, <4>1, <4>2
    <3>6. Extra' = {"Memory usage"}
        BY <1>1, <2>1, <2>4
    <3> QED
        BY <2>1, <2>2, <3>5, <3>6 DEF LegendInv
  <2> QED
      BY <2>3, <2>4
<1>8. ASSUME Legend PROVE LegendInv'
  <2>1. stage = "legend" /\ stage' = "done" /\ curves' = curves /\ Extra' = Extra
      BY <1>1, <1>8 DEF Legend
  <2>2. \/ labels' = labels /\ handlers' = handlers
        \/ /\ Len(labels) >= 4
           /\ labels' = Reordered(labels) /\ handlers' = Reordered(handlers)
    <3>1. Len(labels) = 4 => Len(labels) >= 4
        OBVIOUS
    <3> QED
        BY <1>8, <3>1 DEF Legend, legend
  <2>3. Matched(labels', handlers') /\ ToSet(labels)' = ToSet(labels) /\ ToSet(handlers)' = ToSet(handlers)
      BY <2>2, ReorderedMatch DEF LegendInv
  <2> QED
      BY <2>1, <2>3 DEF LegendInv
<1> QED
    BY <1>5, <1>6, <1>7, <1>8 DEF PlotsNext

(* Nothing is loaded, drawn or named. *)
LEMMA InitPlots == PlotsInit => PlotsInv
<1> SUFFICES ASSUME PlotsInit PROVE PlotsInv
    OBVIOUS
<1>1. DOMAIN Variants = 1 .. Len(Variants) /\ Len(Variants) \in {4, 5}
    BY VariantsAre
<1>2. PlacesInv
  <2>1. memory \in BOOLEAN
    <3>1. memory \in IF figure = "8b" THEN BOOLEAN ELSE {FALSE}
        BY DEF PlotsInit
    <3> QED
        BY <3>1
  <2>2. stage = "load" /\ turn = 1 /\ turn \in 1 .. Len(Variants) + 1
      BY <1>1 DEF PlotsInit
  <2>3. figure \in Figures /\ given \in [ToSet(Variants) -> Given(figure)]
      BY DEF PlotsInit, Given
  <2> QED
      BY <2>1, <2>2, <2>3 DEF PlacesInv
<1>3. /\ curves \in [AllCurves -> Seq(Points)] /\ \A c \in AllCurves : curves[c] = <<>>
      /\ \A k \in DOMAIN Variants : ~(k < turn)
    BY <1>1, EmptySeq DEF PlotsInit
<1>4. DrawnInv
    BY <1>3 DEF DrawnInv
<1>5. NotesInv
    BY DEF PlotsInit, NotesInv, SlowdownsCompareLikes
<1>6. labels = <<>> /\ handlers = <<>> /\ stage = "load"
    BY DEF PlotsInit
<1>7. DOMAIN labels = {} /\ ToSet(labels) = {} /\ ToSet(handlers) = {}
    BY <1>6 DEF ToSet
<1>8. Matched(labels, handlers)
    BY <1>6, <1>7, EmptySeq DEF Matched, IsInjective
<1>9. {c.label : c \in {d \in AllCurves : curves[d] # <<>>}} = {}
    BY <1>3
<1>10. LegendInv
    BY <1>6, <1>7, <1>8, <1>9 DEF LegendInv
<1> QED
    BY <1>2, <1>4, <1>5, <1>10 DEF PlotsInv

(* The four parts depend on each other in this order. *)
LEMMA PlotsInvariant == PlotsSpec => []PlotsInv
<1>1. PlotsInv /\ [PlotsNext]_plots_vars => PlotsInv'
    BY NextPlacesInv, NextDrawnInv, NextNotesInv, NextLegendInv DEF PlotsInv
<1> QED
    BY <1>1, InitPlots, PTL DEF PlotsSpec

(* What is drawn at the end is what was loaded of each file. *)
LEMMA DrawnIsTheGiven ==
    ASSUME "8a" \notin Figures, PlacesInv, DrawnInv
    PROVE  CurvesAreTheGiven
<1> SUFFICES ASSUME stage = "done", NEW c \in ToSet(Variants)
             PROVE  LET all  == given[c]
                        kept == Len(curves[c])
                    IN /\ kept = 0 <=> Len(all) <= (IF figure = "8b" THEN 1 ELSE 0)
                       /\ figure = "8d" =>
                              /\ curves[c] = SubSeq(all, 1, kept)
                              /\ kept >= 2 => ~Close(all[kept], all[kept - 1])
                              /\ \A k \in kept + 1 .. Len(all) : Close(all[k], all[k - 1])
    BY DEF CurvesAreTheGiven
<1> DEFINE all == given[c]
           kept == Len(curves[c])
<1>1. figure \in {"8b", "8c", "8d"} /\ figure \in Figures
    BY FiguresAssumption DEF PlacesInv
<1>2. PICK k \in DOMAIN Variants : c = Variants[k] /\ k < turn
  <2>1. PICK k \in DOMAIN Variants : c = Variants[k]
      BY DEF ToSet
  <2>2. turn = Len(Variants) + 1
      BY DEF PlacesInv
  <2>3. k < turn
      BY <2>1, <2>2, VariantsAre
  <2> QED
      BY <2>1, <2>3
<1>3. all \in Given(figure) /\ curves[c] = load_result(all)
  <2>1. all \in Given(figure) /\ data[c] = load_result(all)
      BY DataAre
  <2>2. curves[c] = ToDraw(figure, data, c) /\ ToDraw(figure, data, c) = data[c]
      BY <1>1, <1>2, DrawnAre DEF DrawnInv
  <2> QED
      BY <2>1, <2>2
<1>4. all \in Seq(Points) /\ Len(all) \in Nat
    BY <1>1, <1>3, GivenArePoints, LenProperties
<1>5. CASE figure = "8c"
  <2>1. curves[c] = all
      BY <1>1, <1>3, <1>5, Loaded
  <2> QED
      BY <1>4, <1>5, <2>1
<1>6. CASE figure = "8b"
  <2>1. kept = IF Len(all) >= 2 THEN Len(all) - 1 ELSE 0
      BY <1>1, <1>3, <1>6, Loaded
  <2> DEFINE size == Len(all)
  <2> HIDE DEF all, kept, size
  <2>2. size \in Nat /\ kept = IF size >= 2 THEN size - 1 ELSE 0
      BY <1>4, <2>1 DEF size
  <2>3. kept = 0 <=> size <= 1
      BY ONLY <2>2
  <2>4. kept = 0 <=> Len(all) <= 1
      BY <2>3 DEF size
  <2> QED
      BY <1>6, <2>4 DEF all, kept
<1>7. CASE figure = "8d"
  <2>1. curves[c] = WithoutClosePoints(all)
      BY <1>1, <1>3, <1>7, Loaded
  <2>2. PICK len \in 0 .. Len(all) :
            /\ curves[c] = SubSeq(all, 1, len)
            /\ len = 0 <=> Len(all) = 0
            /\ len >= 2 => ~Close(all[len], all[len - 1])
            /\ \A l \in len + 1 .. Len(all) : Close(all[l], all[l - 1])
      BY <1>4, <2>1, Shortened
  <2>3. kept = len
    <3>1. \A l \in 1 .. len : all[l] \in Points
        BY <1>4, ElementOfSeq
    <3>2. kept = IF 1 <= len THEN len - 1 + 1 ELSE 0
        BY <1>4, <2>2, <3>1, SubSeqProperties
    <3> HIDE DEF kept
    <3> QED
        BY ONLY <3>2, <1>4, len \in 0 .. Len(all)
  <2>4. kept = 0 <=> Len(all) <= 0
      BY <1>4, <2>2, <2>3
  <2> QED
      BY <1>7, <2>2, <2>3, <2>4
<1> QED
    BY <1>1, <1>5, <1>6, <1>7

(* Of the figures that do not normalise what they draw, the curves are those of the files
   that were given, and fig8d drops only points that lie on top of the one before
   (load_result and the loop over the variants).  For fig8a this is false: without a
   baseline the other curves of its axis are missing as well. *)
THEOREM CurvesFollow ==
    ASSUME "8a" \notin Figures
    PROVE  PlotsSpec => []CurvesAreTheGiven
<1>1. PlotsInv => CurvesAreTheGiven
    BY DrawnIsTheGiven DEF PlotsInv
<1> QED
    BY <1>1, PlotsInvariant, PTL

(* Every slowdown relates a value of its curve to the baseline's at the same place, the
   points that fig8b drops notwithstanding (Variant.normalize and the annotations). *)
THEOREM SlowdownsCompare == PlotsSpec => []SlowdownsCompareLikes
<1>1. PlotsInv => SlowdownsCompareLikes
    BY DEF PlotsInv, NotesInv
<1> QED
    BY <1>1, PlotsInvariant, PTL

(* The legend has each label of a drawn curve once, next to a line of that label, whatever
   files were given (legends, labels and handlers). *)
THEOREM LegendNames == PlotsSpec => []LegendNamesCurves
<1>1. PlotsInv => LegendNamesCurves
    BY DEF PlotsInv, LegendInv, LegendNamesCurves, Matched
<1> QED
    BY <1>1, PlotsInvariant, PTL
=============================================================================
