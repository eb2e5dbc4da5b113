------------------------------ MODULE EdgeCalls ------------------------------
(* The edge-call benchmark: main and run_bench of the App (or of Native, which has
   no enclave), the benchmarks of bench_main one after the other, and every
   crossing of the enclave's boundary they make, counted the way module
   WorldSwitch does, here as one step for the crossing and its count.

   A benchmark is a record: its name, who times it ("app", "ecall" for an ecall a
   sample, "enclave" for one ecall that takes all samples, "hello" and "stats" for
   the two ecalls that time nothing) and the ocalls of one sample.  A sample is
   named by its benchmark and its number; -1 is batched_bench's own warm-up call,
   whose result is not kept. *)
EXTENDS Integers, Sequences

CONSTANTS
    WarmupTimes, TestTimes,
    Programs    \* the builds that run: which main, and its two macros

ASSUME TimesAssumption == WarmupTimes \in Nat /\ TestTimes \in Nat \ {0}
ASSUME ProgramsAssumption ==
    Programs \subseteq [main : {"App", "Native"},
                        rdtsc : BOOLEAN,    \* ENCLAVE_RDTSC
                        stats : BOOLEAN]    \* EENTER_EEXIT_STATS

VARIABLES
    program,        \* never changes
    pc,             \* "create", "open", "bench", "close", "destroy", "exited"
    job,            \* which benchmark of bench_main
    sample, ocalls, \* the sample being taken and the ocalls it has made
    side,           \* "app" or "enclave"
    enclave,        \* "none", "live", "lost" or "destroyed"
    enters, exits,  \* crossings counted
    all_cycles,     \* the static arrays of bench_in_app and bench_in_enclave
    files,          \* the samples in <name>.txt
    rows,           \* lines printed to stats.csv
    report,         \* the two counts printed
    missed,         \* history: the samples of ecall_empty whose ecall failed
    status          \* exit status; -2 while running

vars == <<program, pc, job, sample, ocalls, side, enclave, enters, exits,
          all_cycles, files, rows, report, missed, status>>

crossing == <<side, enters, exits>>
results  == <<files, rows, report, missed>>

Count == WarmupTimes + TestTimes
Zero == <<"none", -1>>      \* what a static array holds before any sample

Bench(name, timer, calls) == [name |-> name, timer |-> timer, ocalls |-> calls]

(* One enclave_rdtscp() costs an ocall unless the enclave may execute rdtscp. *)
RdtscpOcalls == IF program.rdtsc THEN 0 ELSE 1

native_bench_main == <<Bench("rdtscp", "app", 0), Bench("syscall", "app", 0),
                       Bench("hypercall", "app", 0)>>

bench_main ==
    <<Bench("hello", "hello", 1),
      Bench("rdtscp", "app", 0),
      Bench("ecall_empty", "ecall", 0)>>
    \o (IF program.rdtsc THEN <<>>
        ELSE <<Bench("enclave_rdtscp", "enclave", 2 * RdtscpOcalls)>>)
    \o <<Bench("ocall_empty", "enclave", 1 + 2 * RdtscpOcalls)>>
    \o (IF program.stats THEN <<Bench("stats", "stats", 0)>> ELSE <<>>)

Main == IF program.main = "App" THEN bench_main ELSE native_bench_main
Job == Main[job]

Init ==
    /\ program \in Programs
    /\ pc = IF program.main = "App" THEN "create" ELSE "open"
    /\ job = 1
    /\ sample = -1
    /\ ocalls = 0
    /\ side = "app"
    /\ enclave = "none"
    /\ enters = 0
    /\ exits = 0
    /\ all_cycles = [array \in {"app", "enclave"} |-> [i \in 0 .. Count - 1 |-> Zero]]
    /\ files = {}
    /\ rows = <<>>
    /\ report = [eenter |-> 0, eexit |-> 0]
    /\ missed = {}
    /\ status = -2

-----------------------------------------------------------------------------
(* main and run_bench. *)

(* sgx_create_enclave makes one ecall of its own. *)
CreateEnclave ==
    /\ pc = "create"
    /\ enclave = "none"
    /\ side = "app"
    /\ side' = "enclave"
    /\ enters' = enters + 1
    /\ enclave' = "live"
    /\ UNCHANGED <<program, pc, job, sample, ocalls, exits, all_cycles, results, status>>

EnclaveCreated ==
    /\ pc = "create"
    /\ enclave = "live"
    /\ side' = "app"
    /\ exits' = exits + 1
    /\ pc' = "open"
    /\ UNCHANGED <<program, job, sample, ocalls, enclave, enters, all_cycles, results,
                   status>>

Exit(code) == pc' = "exited" /\ status' = code

CreateFails ==
    /\ pc = "create"
    /\ enclave = "none"
    /\ Exit(-1)
    /\ UNCHANGED <<program, job, sample, ocalls, crossing, enclave, all_cycles, results>>

(* mkdir is not checked; chdir and the fopen of stats.csv are. *)
OpenResults ==
    /\ pc = "open"
    /\ \/ pc' = "bench" /\ UNCHANGED status
       \/ pc' = "destroy" /\ status' = -1
    /\ UNCHANGED <<program, job, sample, ocalls, crossing, enclave, all_cycles, results>>

CloseResults ==
    /\ pc = "close"
    /\ pc' = "destroy"
    /\ status' = 0
    /\ UNCHANGED <<program, job, sample, ocalls, crossing, enclave, all_cycles, results>>

(* sgx_destroy_enclave, of the App only; main returns what run_bench returned. *)
Destroy ==
    /\ pc = "destroy"
    /\ pc' = "exited"
    /\ enclave' = IF program.main = "App" THEN "destroyed" ELSE enclave
    /\ UNCHANGED <<program, job, sample, ocalls, crossing, all_cycles, results, status>>

-----------------------------------------------------------------------------
(* bench_main. *)

NextJob ==
    /\ job' = job + 1
    /\ pc' = IF job = Len(Main) THEN "close" ELSE pc
    /\ sample' = -1
    /\ ocalls' = 0

Array == IF Job.timer = "enclave" THEN "enclave" ELSE "app"

(* batched_bench stores what the sample measured, except for its warm-up; the
   arrays are static, so that each benchmark finds there what the last one left.
   (What the enclave stores reaches its array when the ecall returns, before which
   nobody reads it.) *)
Store ==
    /\ sample' = sample + 1
    /\ ocalls' = 0
    /\ all_cycles' = IF sample = -1 THEN all_cycles
                     ELSE [all_cycles EXCEPT ![Array][sample] = <<Job.name, sample>>]

Running(timers) == pc = "bench" /\ Job.timer \in timers
AllTaken == sample = Count

SampleInApp ==
    /\ Running({"app"})
    /\ ~AllTaken
    /\ Store
    /\ UNCHANGED <<program, pc, job, crossing, enclave, results, status>>

(* EENTER of an ecall: each sample of ecall_empty is one, the others are one
   each. *)
EcallEnter ==
    /\ Running({"hello", "ecall", "enclave", "stats"})
    /\ side = "app"
    /\ enclave = "live"
    /\ Job.timer = "ecall" => ~AllTaken
    /\ Job.timer \in {"hello", "enclave"} => sample = -1 /\ ocalls = 0
    /\ Job.timer = "stats" => sample = -1
    /\ side' = "enclave"
    /\ enters' = enters + 1
    /\ UNCHANGED <<program, pc, job, sample, ocalls, exits, enclave, all_cycles,
                   results, status>>

(* An ocall leaves and comes back. *)
Ocall ==
    /\ Running({"hello", "enclave"})
    /\ side = "enclave"
    /\ ocalls < Job.ocalls
    /\ ~AllTaken
    /\ side' = "ocall"
    /\ exits' = exits + 1
    /\ UNCHANGED <<program, pc, job, sample, ocalls, enters, enclave, all_cycles,
                   results, status>>

OcallReturn ==
    /\ side = "ocall"
    /\ side' = "enclave"
    /\ enters' = enters + 1
    /\ ocalls' = ocalls + 1
    /\ UNCHANGED <<program, pc, job, sample, exits, enclave, all_cycles, results,
                   status>>

(* Mutant: batched_bench without the call that warms up. *)
SampleInEnclaveCold ==
    /\ Running({"enclave"})
    /\ side = "enclave"
    /\ ocalls = Job.ocalls \/ sample = -1
    /\ ~AllTaken
    /\ Store
    /\ UNCHANGED <<program, pc, job, crossing, enclave, results, status>>

SampleInEnclave ==
    /\ Running({"enclave"})
    /\ side = "enclave"
    /\ ocalls = Job.ocalls
    /\ ~AllTaken
    /\ Store
    /\ UNCHANGED <<program, pc, job, crossing, enclave, results, status>>

Leave == side = "enclave" /\ side' = "app" /\ exits' = exits + 1

(* ecall_hello is done when its message was printed; its status is ignored. *)
HelloReturn ==
    /\ Running({"hello"})
    /\ ocalls = Job.ocalls
    /\ Leave
    /\ NextJob
    /\ UNCHANGED <<program, enters, enclave, all_cycles, results, status>>

EcallReturn ==
    /\ Running({"ecall"})
    /\ Leave
    /\ Store
    /\ UNCHANGED <<program, pc, job, enters, enclave, results, status>>

EnclaveReturn ==
    /\ Running({"enclave"})
    /\ AllTaken
    /\ Leave
    /\ UNCHANGED <<program, pc, job, sample, ocalls, enters, enclave, all_cycles,
                   results, status>>

(* The entries are read inside, the exits after the return; two lines follow. *)
StatsReturn ==
    /\ Running({"stats"})
    /\ Leave
    /\ report' = [eenter |-> enters, eexit |-> exits + 1]
    /\ rows' = rows \o <<"eenter", "eexit">>
    /\ NextJob
    /\ UNCHANGED <<program, enters, enclave, all_cycles, files, missed, status>>

(* Mutant: the samples are taken from index 0 on. *)
StatisticsOfWarmup(taken) == [i \in 1 .. TestTimes |-> taken[i - 1]]

(* all_cycles[i + warmup_times] for i < test_times *)
Statistics(taken) == [i \in 1 .. TestTimes |-> taken[i - 1 + WarmupTimes]]

(* Mutant: the line is printed and the samples are dumped by a later step. *)
BenchStatsRowOnly ==
    /\ Running({"app", "ecall", "enclave"})
    /\ AllTaken
    /\ side = "app"
    /\ rows' = Append(rows, Job.name)
    /\ files' = IF Job.timer = "enclave" THEN files
                ELSE files \union {[name |-> Job.name, samples |-> Statistics(all_cycles[Array])]}
    /\ NextJob
    /\ UNCHANGED <<program, crossing, enclave, all_cycles, report, missed, status>>

(* bench_stats: <name>.txt is written, then the line of stats.csv. *)
BenchStats ==
    /\ Running({"app", "ecall", "enclave"})
    /\ AllTaken
    /\ side = "app"
    /\ files' = files \union {[name |-> Job.name, samples |-> Statistics(all_cycles[Array])]}
    /\ rows' = Append(rows, Job.name)
    /\ NextJob
    /\ UNCHANGED <<program, crossing, enclave, all_cycles, report, missed, status>>

-----------------------------------------------------------------------------
(* The enclave is lost between two ecalls; from then on ecalls return an error
   without crossing. *)
LoseEnclave ==
    /\ pc = "bench"
    /\ side = "app"
    /\ enclave = "live"
    /\ enclave' = "lost"
    /\ UNCHANGED <<program, pc, job, sample, ocalls, crossing, all_cycles, results,
                   status>>

(* The status of ecall_hello is ignored. *)
HelloFails ==
    /\ Running({"hello"})
    /\ enclave = "lost"
    /\ NextJob
    /\ UNCHANGED <<program, crossing, enclave, all_cycles, results, status>>

(* Mutant: a failed ecall is tried again. *)
EcallFailsRetry ==
    /\ Running({"ecall"})
    /\ enclave = "lost"
    /\ ~AllTaken
    /\ UNCHANGED vars

(* So is that of ecall_empty: the failed call is a sample like any other. *)
EcallFails ==
    /\ Running({"ecall"})
    /\ enclave = "lost"
    /\ ~AllTaken
    /\ Store
    /\ missed' = missed \union {sample}
    /\ UNCHANGED <<program, pc, job, crossing, enclave, files, rows, report, status>>

(* Mutant: bench_in_enclave ignores the status of its ecall, too. *)
EnclaveFailsUnseen ==
    /\ Running({"enclave"})
    /\ enclave = "lost"
    /\ ~AllTaken
    /\ sample' = Count
    /\ UNCHANGED <<program, pc, job, ocalls, crossing, enclave, all_cycles, results, status>>

(* bench_in_enclave exits with 0, the streams flushed, the enclave left alone. *)
EnclaveFails ==
    /\ Running({"enclave"})
    /\ enclave = "lost"
    /\ ~AllTaken
    /\ Exit(0)
    /\ UNCHANGED <<program, job, sample, ocalls, crossing, enclave, all_cycles, results>>

(* Entries stay 0; exits are read all the same. *)
StatsFails ==
    /\ Running({"stats"})
    /\ enclave = "lost"
    /\ report' = [eenter |-> 0, eexit |-> exits]
    /\ rows' = rows \o <<"eenter", "eexit">>
    /\ NextJob
    /\ UNCHANGED <<program, crossing, enclave, all_cycles, files, missed, status>>

Execute ==
    \/ CreateEnclave \/ EnclaveCreated \/ CreateFails \/ OpenResults
    \/ CloseResults \/ Destroy
    \/ SampleInApp \/ EcallEnter \/ Ocall \/ OcallReturn \/ SampleInEnclave
    \/ HelloReturn \/ EcallReturn \/ EnclaveReturn \/ StatsReturn \/ BenchStats
    \/ HelloFails \/ EcallFails \/ EnclaveFails \/ StatsFails

Next == Execute \/ LoseEnclave

Spec == Init /\ [][Next]_vars /\ WF_vars(Execute)

-----------------------------------------------------------------------------
(* Properties. *)

Complete == pc = "exited" /\ status = 0 /\ enclave = "destroyed"
Timed == {b \in DOMAIN Main : Main[b].timer \in {"app", "ecall", "enclave"}}
Printed(b) == \E i \in DOMAIN rows : rows[i] = Main[b].name

(* A run that never lost its enclave reports what its plan costs: one crossing for
   the creation, two for the greeting, one an empty ecall, one an ocall and one an
   ecall that holds them, warm-ups included, and one for the report, as many out as
   in.  With the README's 10000 + 1000000 times and ENCLAVE_RDTSC that is the
   2020007 its sample output shows for both counts. *)
ReportExact ==
    Complete /\ program.stats /\ report.eenter # 0 =>
        LET calls == Count + 1
            rdtscp_bench == IF program.rdtsc THEN 0 ELSE 1 + 2 * calls
            ocall_bench == 1 + calls * (IF program.rdtsc THEN 1 ELSE 3)
        IN /\ report.eenter = 1 + 2 + calls + rdtscp_bench + ocall_bench + 1
           /\ report.eexit = report.eenter

(* Each file holds the last TestTimes samples of its own benchmark, in order: no
   warm-up, nothing left in the shared array by the benchmark before. *)
FilesExact ==
    \A f \in files :
        f.samples = [i \in 1 .. TestTimes |-> <<f.name, WarmupTimes + i - 1>>]

(* On every way out, exit(0) in the middle included, a line of stats.csv has its
   file, the lines are in the order of bench_main, none twice and none left out,
   and a run that says 0 with its enclave destroyed has all of them. *)
RowsHaveFiles ==
    /\ \A i \in DOMAIN rows :
           rows[i] \notin {"eenter", "eexit"} =>
               /\ \E b \in Timed : rows[i] = Main[b].name
               /\ \E f \in files : f.name = rows[i]
    /\ \A i, k \in DOMAIN rows, a, b \in Timed :
           rows[i] = Main[a].name /\ rows[k] = Main[b].name => (i < k <=> a < b)
    /\ \A a, b \in Timed : a < b /\ Printed(b) => Printed(a)
    /\ pc = "exited" /\ status = 0 /\ enclave # "lost" => \A b \in Timed : Printed(b)

(* The time of an ecall that failed is a sample of ecall_empty like any other.  A
   stats.csv such samples went into ends with the line of ecall_empty: the loss of
   the enclave that made them fail ends the run at its next ecall, before a further
   line or a count is printed, and leaves the enclave undestroyed. *)
LossEndsTheRun ==
    missed # {} =>
        /\ \A i \in DOMAIN rows : rows[i] \in {"rdtscp", "ecall_empty"}
        /\ report = [eenter |-> 0, eexit |-> 0]
        /\ pc \in {"bench", "exited"} /\ enclave = "lost"

(* Every run ends. *)
Terminates == <>(pc = "exited")
=============================================================================
