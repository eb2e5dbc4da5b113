--------------------------- MODULE ClientBenchmark ---------------------------
(* The benchmark scripts of the clients, client/redis/benchmark.sh and
   client/lighttpd/benchmark.sh: getopts, the rounds over all targets (throughputs
   for Redis, page sizes for Lighttpd), and the two tables at the end.

   The shell goes on after a failed command, and a variable that is not set is the
   empty string, so that what grep does not find in a result just vanishes from
   the list it is appended to.  A sample is the round it was taken in and a value.

   ycsb is told which Redis server to load and to measure; redis-cli is not, and
   flushes the one that $REDIS_CLI reaches.  A server is its address and port. *)
EXTENDS Integers, Sequences, FiniteSets, SequencesExt

CONSTANTS
    Clients,        \* subset of {"redis", "lighttpd"}
    Lines,          \* command lines: sequences of <<option, argument>>
    Environment,    \* what $workload may be in the environment; "" if unset
    CliServers,     \* the servers $REDIS_CLI may reach, as it is set
    Targets,        \* a sequence: 5000 .. 40000, or 1 .. 100
    DefaultRuns,    \* 6 and 10 in the scripts
    Values          \* what a measurement may say

ASSUME ClientsAssumption == Clients \subseteq {"redis", "lighttpd"}
ASSUME TargetsAssumption == Targets \in Seq(Nat) /\ IsInjective(Targets) /\ Targets # <<>>

(* A number of rounds is what seq counts to. *)
Options == UNION {Range(l) : l \in Lines}
ASSUME LinesAssumption ==
    /\ Lines \subseteq Seq(Options)
    /\ \A option \in Options : option[1] = "r" => option[2] \in Nat

ASSUME NumbersAssumption == DefaultRuns \in Nat \ {0} /\ Values \subseteq Nat

VARIABLES
    client, cli,        \* never change; cli is the server $REDIS_CLI reaches
    line, tag,          \* the arguments left, and whether <TAG> is there
    workload,
    address, port,      \* Empty while not given
    runs,               \* Unset while not given
    pc,                 \* "options", "checks", "flush", "load", "run", "tables", "exited"
    i, n,               \* the round, and the index of the target
    db,                 \* the <<i, n>> loaded into <<address, port>> since it was empty
    flush_failed,       \* history: the <<i, n>> of the last flushall, if it failed
    all_tput, all_lat,
    tables,             \* rows written to throughput.csv and latency.csv
    failed,             \* history: the status of the command that failed, or 0
    usage,              \* history: was the usage printed?
    status

args    == <<client, cli, line, tag>>
settings == <<workload, address, port, runs>>
loop    == <<i, n>>
redis   == <<db, flush_failed>>
samples == <<all_tput, all_lat>>
history == <<failed, usage>>
vars    == <<args, settings, pc, loop, redis, samples, tables, history, status>>

Unset == -1
Empty == ""

(* Where redis-cli goes by itself. *)
DefaultServer == <<"127.0.0.1", "6379">>
Server        == <<address, port>>

(* What somebody else left in the database. *)
Foreign == <<0, 0>>
Nothing == <<>>

Init ==
    /\ client \in Clients
    /\ cli \in CliServers
    /\ line \in Lines
    /\ tag \in BOOLEAN
    /\ workload \in Environment
    /\ address = Empty
    /\ port = Empty
    /\ runs = Unset
    /\ pc = "options"
    /\ i = 1
    /\ n = 1
    /\ db \in {{}, {Foreign}}
    /\ flush_failed = Nothing
    /\ all_tput = [k \in DOMAIN Targets |-> <<>>]
    /\ all_lat = [k \in DOMAIN Targets |-> <<>>]
    /\ tables = <<>>
    /\ failed = 0
    /\ usage = FALSE
    /\ status = -1

Exit(code) == pc' = "exited" /\ status' = code
Usage == usage' = TRUE /\ Exit(0)

-----------------------------------------------------------------------------
(* The options that have a case of their own.  Redis' getopts knows w, too, but
   the only pattern it matches is the ? of the usage. *)
Cases == IF client = "redis" THEN {"r", "a", "p", "n", "t", "c"}
                             ELSE {"r", "a", "n", "c"}

GetOpt ==
    /\ pc = "options"
    /\ line # <<>>
    /\ LET option == Head(line)[1]
           argument == Head(line)[2]
       IN IF option \in Cases
            THEN /\ runs' = IF option = "r" THEN argument ELSE runs
                 /\ address' = IF option = "a" THEN argument ELSE address
                 /\ port' = IF option = "p" THEN argument ELSE port
                 /\ line' = Tail(line)
                 /\ UNCHANGED <<usage, pc, status>>
            ELSE Usage /\ UNCHANGED <<runs, address, port, line>>
    /\ UNCHANGED <<client, cli, tag, workload, loop, redis, samples, tables, failed>>

(* Lighttpd's takes the port with it. *)
DefaultAddress == IF client = "redis" THEN "127.0.0.1" ELSE "127.0.0.1:8000"

(* The tag, then the defaults. *)
CheckTag ==
    /\ pc = "options"
    /\ line = <<>>
    /\ IF tag
         THEN /\ pc' = "checks"
              /\ runs' = IF runs = Unset THEN DefaultRuns ELSE runs
              /\ workload' = IF workload = Empty THEN "A" ELSE workload
              /\ address' = IF address = Empty THEN DefaultAddress ELSE address
              /\ port' = IF port = Empty THEN "6379" ELSE port
              /\ UNCHANGED <<usage, status>>
         ELSE Usage /\ UNCHANGED settings
    /\ UNCHANGED <<args, loop, redis, samples, tables, failed>>

(* No round at all is a number of rounds, too. *)
FirstTarget ==
    pc' = IF runs = 0 THEN "tables" ELSE IF client = "redis" THEN "flush" ELSE "run"

(* Redis only: the workload, then $YCSB_ROOT. *)
CheckWorkload ==
    /\ pc = "checks"
    /\ client = "redis"
    /\ IF workload \in {"A", "B", "C", "D", "E", "F"}
         THEN /\ UNCHANGED usage
              /\ \/ FirstTarget /\ UNCHANGED status
                 \/ Exit(0)
         ELSE Usage
    /\ UNCHANGED <<args, settings, loop, redis, samples, tables, failed>>

StartLighttpd ==
    /\ pc = "checks"
    /\ client = "lighttpd"
    /\ FirstTarget
    /\ UNCHANGED <<args, settings, loop, redis, samples, tables, history, status>>

-----------------------------------------------------------------------------
(* ycsb load, ycsb run or ab, each followed by || exit $?; what redis-cli flushall
   returns is not looked at. *)

Fails(code) == failed' = code /\ Exit(code)

(* The database of the server that is measured. *)
Flushed == IF cli = Server THEN {} ELSE db

(* Mutant: the database is flushed once a round. *)
FlushAllOnce ==
    /\ pc = "flush"
    /\ pc' = "load"
    /\ \/ n = 1 /\ db' = Flushed /\ flush_failed' = Nothing
       \/ n = 1 /\ db' = db /\ flush_failed' = <<i, n>>
       \/ n # 1 /\ UNCHANGED redis
    /\ UNCHANGED <<args, settings, loop, samples, tables, history, status>>

FlushAll ==
    /\ pc = "flush"
    /\ pc' = "load"
    /\ \/ db' = Flushed /\ flush_failed' = Nothing
       \/ db' = db /\ flush_failed' = <<i, n>>
    /\ UNCHANGED <<args, settings, loop, samples, tables, history, status>>

(* Mutant: the failure of the load is reported as 0. *)
LoadExitsZero ==
    /\ pc = "load"
    /\ db' = db \cup {<<i, n>>}
    /\ \/ pc' = "run" /\ UNCHANGED <<failed, status>>
       \/ failed' = 1 /\ Exit(0)
    /\ UNCHANGED <<args, settings, loop, flush_failed, samples, tables, usage>>

(* A load that fails may have inserted some of its records. *)
Load ==
    /\ pc = "load"
    /\ db' = db \cup {<<i, n>>}
    /\ \/ pc' = "run" /\ UNCHANGED <<failed, status>>
       \/ Fails(1)
    /\ UNCHANGED <<args, settings, loop, flush_failed, samples, tables, usage>>

RunFails ==
    /\ pc = "run"
    /\ Fails(1)
    /\ UNCHANGED <<args, settings, loop, redis, samples, tables, usage>>

(* Mutant: the tables are written from inside the last round. *)
NextTargetEarly ==
    /\ n' = IF n < Len(Targets) THEN n + 1 ELSE 1
    /\ i' = IF n < Len(Targets) THEN i ELSE i + 1
    /\ pc' = IF i = runs THEN "tables" ELSE IF client = "redis" THEN "flush" ELSE "run"

NextTarget ==
    /\ n' = IF n < Len(Targets) THEN n + 1 ELSE 1
    /\ i' = IF n < Len(Targets) THEN i ELSE i + 1
    /\ pc' = IF n = Len(Targets) /\ i = runs THEN "tables"
             ELSE IF client = "redis" THEN "flush" ELSE "run"

(* "${all[$n]} $x" *)
Add(all, found, value) ==
    [all EXCEPT ![n] = IF found THEN Append(@, <<i, value>>) ELSE @]

(* The result has a line of throughput or not; awk finds a latency only where the
   result has every count it multiplies: for Redis, READ and UPDATE. *)
Measure ==
    /\ pc = "run"
    /\ \E value \in Values, tput, lat \in BOOLEAN :
           /\ all_tput' = Add(all_tput, tput, value)
           /\ all_lat' = Add(all_lat, lat, value)
    /\ NextTarget
    /\ UNCHANGED <<args, settings, redis, tables, history, status>>

-----------------------------------------------------------------------------
(* stats: sort -n, then awk over the lines NR = 1 .. *)

(* The ways to put all lines in a row in which the values do not decrease. *)
Orders(list) ==
    {p \in [DOMAIN list -> DOMAIN list] :
        /\ Range(p) = DOMAIN list
        /\ \A j, k \in DOMAIN list : j < k => list[p[j]][2] <= list[p[k]][2]}

Sorted(list) ==
    LET p == CHOOSE p \in Orders(list) : TRUE
    IN [k \in DOMAIN list |-> list[p[k]][2]]

(* Mutant: awk's arrays taken to start at 0. *)
MedianTwiceFromZero(list) ==
    LET a == Sorted(list)
        NR == Len(a)
        At(k) == IF k = 0 THEN 0 ELSE a[k]
    IN IF NR % 2 = 1 THEN 2 * At(NR \div 2)
       ELSE IF NR = 0 THEN 0 ELSE At(NR \div 2) + At(NR \div 2 - 1)

(* Twice the median, which is half an integer; 0 stands for the empty field of
   an empty list. *)
MedianTwice(list) ==
    LET a == Sorted(list)
        NR == Len(a)
    IN IF NR % 2 = 1 THEN 2 * a[NR \div 2 + 1]
       ELSE IF NR = 0 THEN 0 ELSE a[NR \div 2 + 1] + a[NR \div 2]

Row(all, k) == [target |-> Targets[k], list |-> all[k], median2 |-> MedianTwice(all[k])]

(* Both tables, a row a target; the script's status is that of its last command. *)
WriteTables ==
    /\ pc = "tables"
    /\ tables' = [k \in DOMAIN Targets |-> <<Row(all_tput, k), Row(all_lat, k)>>]
    /\ Exit(0)
    /\ UNCHANGED <<args, settings, loop, redis, samples, history>>

Next ==
    \/ GetOpt \/ CheckTag \/ CheckWorkload \/ StartLighttpd
    \/ FlushAll \/ Load \/ RunFails \/ Measure \/ WriteTables

Spec == Init /\ [][Next]_vars

-----------------------------------------------------------------------------
(* Properties. *)

Rows == {tables[k][t] : k \in DOMAIN tables, t \in {1, 2}}

(* Tables are written after all rounds over all targets or not at all: a row holds
   samples of rounds 1 .. runs, each at most once and in order, however many lines
   were missing in between. *)
RowsAreRounds ==
    \A row \in Rows :
        /\ \A j, k \in DOMAIN row.list : j < k => row.list[j][1] < row.list[k][1]
        /\ \A j \in DOMAIN row.list : row.list[j][1] \in 1 .. runs
        /\ <<i, n>> = <<runs + 1, 1>>

(* No more than half of the samples are below the median of stats, and no more than
   half are above, for lists of even and odd length. *)
MedianIsMiddle ==
    \A row \in Rows :
        LET below == {k \in DOMAIN row.list : 2 * row.list[k][2] < row.median2}
            above == {k \in DOMAIN row.list : 2 * row.list[k][2] > row.median2}
        IN /\ 2 * Cardinality(below) <= Len(row.list)
           /\ 2 * Cardinality(above) <= Len(row.list)

(* The caller learns of a failed load or run, and gets no tables then; without one
   the script ends with 0. *)
FailureReported ==
    pc = "exited" =>
        /\ status = failed
        /\ failed # 0 => tables = <<>>

(* What was loaded before, in the rounds that are over and in this one. *)
Earlier == {r \in (1 .. runs) \X DOMAIN Targets : r[1] < i \/ (r[1] = i /\ r[2] < n)}

(* A run of Redis measures the records it loaded itself.  On the server that redis-cli
   reaches, those of another round or of somebody else are there only when the flushall
   of this very round failed: one that fails in an earlier round does no harm to the
   rounds after it.  On any other server, which -a and -p may name, nothing is ever
   flushed, and every round runs on top of all the loads and runs before it. *)
FreshIfFlushed ==
    client = "redis" /\ pc = "run" =>
        /\ <<i, n>> \in db
        /\ cli = Server /\ flush_failed # <<i, n>> => db = {<<i, n>>}
        /\ cli # Server => Earlier \subseteq db

(* client/redis/benchmark.sh:11 documents "-w <WORKLOAD>", one of A to F: such an
   option is not answered by the usage. *)
WorkloadOptionAccepted ==
    usage /\ tag /\ line # <<>> =>
        \A letter \in {"A", "B", "C", "D", "E", "F"} : Head(line) # <<"w", letter>>
=============================================================================
