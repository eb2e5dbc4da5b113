--------------------------- MODULE EdgeCallsProofs ---------------------------
(* The edge-call benchmark, for any number of warm-ups and samples and any set of builds. *)
EXTENDS EdgeCalls, SequenceTheorems, TLAPS

-----------------------------------------------------------------------------
(* The App, not Native; and the calls of batched_bench, its warm-up included. *)
IsApp == program.main = "App"
Calls == Count + 1

(* What stats.csv may say a line is about. *)
RowNames == {"eenter", "eexit", "rdtscp", "syscall", "hypercall", "hello", "ecall_empty",
             "enclave_rdtscp", "ocall_empty", "stats"}

(* What each variable holds. *)
TypeInv ==
    /\ program \in Programs
    /\ pc \in {"create", "open", "bench", "close", "destroy", "exited"}
    /\ job \in 1 .. Len(Main) + 1
    /\ sample \in -1 .. Count
    /\ ocalls \in Nat
    /\ side \in {"app", "enclave", "ocall"}
    /\ enclave \in {"none", "live", "lost", "destroyed"}
    /\ enters \in Nat /\ exits \in Nat
    /\ DOMAIN all_cycles = {"app", "enclave"}
    /\ \A array \in {"app", "enclave"} : DOMAIN all_cycles[array] = 0 .. Count - 1
    /\ rows \in Seq(RowNames)

(* Where the program is: the enclave is entered while it is created and by the ecalls of
   a benchmark, and only while it is live. *)
Placed ==
    /\ ~ IsApp => enclave = "none"
    /\ pc = "create" => IsApp /\ job = 1 /\ side # "ocall"
    /\ pc = "create" /\ enclave = "live" => side = "enclave"
    /\ pc = "create" /\ enclave # "live" => enclave = "none" /\ side = "app"
    /\ pc = "open" => job = 1 /\ side = "app" /\ (IsApp <=> enclave = "live")
    /\ pc \in {"create", "open"} => sample = -1 /\ ocalls = 0
    /\ pc = "bench" =>
           /\ job <= Len(Main)
           /\ IsApp => enclave \in {"live", "lost"}
           /\ ~ IsApp => side = "app"
           /\ side # "app" => enclave = "live"
           /\ Job.timer = "app" => side = "app"
           /\ side = "ocall" =>
                  Job.timer \in {"hello", "enclave"} /\ ocalls < Job.ocalls /\ sample # Count
           /\ Job.timer = "ecall" /\ side = "enclave" => sample # Count
           /\ Job.timer \notin {"hello", "enclave"} => ocalls = 0
           /\ Job.timer \in {"hello", "stats"} => sample = -1
    /\ pc \notin {"create", "open", "bench"} => side = "app"

(* As many out as in, but for the way in that is not over. *)
Balanced == enters = exits + (IF side = "enclave" THEN 1 ELSE 0)

(* The entries before each benchmark of the App: one of the creation, two of the greeting,
   one of each empty ecall, and for each ecall that takes samples one and its ocalls. *)
Before ==
    IF program.rdtsc
      THEN <<1, 3, 3, 3 + Calls, 3 + Calls + 1 + Calls>>
      ELSE <<1, 3, 3, 3 + Calls, 3 + Calls + 1 + 2 * Calls,
             3 + Calls + 1 + 2 * Calls + 1 + 3 * Calls>>

(* The entries so far: those before the benchmark that runs, and its own. *)
Counted ==
    /\ pc = "create" /\ enclave # "live" => enters = 0
    /\ pc = "create" /\ enclave = "live" => enters = 1
    /\ pc = "open" /\ IsApp => enters = 1
    /\ pc = "bench" /\ enclave = "live" =>
           /\ Job.timer = "app" => enters = Before[job]
           /\ Job.timer = "ecall" =>
                  /\ side = "app" => enters = Before[job] + sample + 1
                  /\ side = "enclave" => enters = Before[job] + sample + 2
           /\ Job.timer = "stats" =>
                  /\ side = "app" => enters = Before[job]
                  /\ side = "enclave" => enters = Before[job] + 1
           /\ Job.timer \in {"hello", "enclave"} =>
                  /\ side = "app" /\ ~AllTaken => sample = -1 /\ ocalls = 0 /\ enters = Before[job]
                  /\ side = "app" /\ AllTaken =>
                         enters = Before[job] + 1 + Job.ocalls * (sample + 1)
                  /\ side # "app" => enters = Before[job] + 1 + Job.ocalls * (sample + 1) + ocalls
                  /\ ocalls <= Job.ocalls /\ (AllTaken => ocalls = 0)

(* The report is made by the last benchmark, or never. *)
Reported ==
    report.eenter # 0 =>
        /\ IsApp /\ program.stats
        /\ report.eenter = Before[Len(Main)] + 1
        /\ report.eexit = report.eenter

(* The samples of the benchmark that runs, so far. *)
Stored ==
    pc = "bench" => \A i \in 0 .. sample - 1 : all_cycles[Array][i] = <<Job.name, i>>

(* The lines printed are those of the benchmarks before. *)
Lines ==
    /\ \A i \in DOMAIN rows :
           rows[i] \notin {"eenter", "eexit"} =>
               /\ \E b \in Timed : b < job /\ rows[i] = Main[b].name
               /\ \E f \in files : f.name = rows[i]
    /\ \A b \in Timed : b < job => Printed(b)
    /\ \A i, k \in DOMAIN rows, a, b \in Timed :
           rows[i] = Main[a].name /\ rows[k] = Main[b].name => (i < k <=> a < b)

(* A run that says 0 has been through all of them, or has lost its enclave. *)
Ended ==
    /\ pc = "close" => job = Len(Main) + 1
    /\ pc = "destroy" /\ status = 0 => job = Len(Main) + 1
    /\ pc = "exited" /\ status = 0 /\ enclave # "lost" => job = Len(Main) + 1
    /\ pc \notin {"destroy", "exited"} => status = -2

(* The inductive invariant. *)
IInv ==
    TypeInv /\ Placed /\ Balanced /\ Counted /\ Reported /\ Stored /\ FilesExact /\ Lines /\ Ended

-----------------------------------------------------------------------------
(* The plans of main and bench_main. *)

(* A list, and the list with one thing more. *)
LEMMA OneMore ==
    ASSUME NEW S, NEW s \in Seq(S), NEW t \in Seq(S), Len(t) = Len(s) + 1,
           \A i \in 1 .. Len(s) : t[i] = s[i]
    PROVE  s \o <<t[Len(t)]>> = t
<1>0. Len(s) \in Nat /\ Len(t) \in Nat
    BY LenProperties
<1> DEFINE e == t[Len(t)]
           u == Append(s, e)
<1>1. e \in S
  <2>1. Len(t) \in 1 .. Len(t)
    BY ONLY <1>0, Len(t) = Len(s) + 1
  <2> QED
    BY <2>1, ElementOfSeq
<1> HIDE DEF e
<1>2. u = s \o <<e>>
    BY <1>1, AppendIsConcat
<1>3. /\ u \in Seq(S) /\ Len(u) = Len(s) + 1
      /\ \A i \in 1 .. Len(s) : u[i] = s[i]
      /\ u[Len(s) + 1] = e
    BY <1>1, AppendProperties
<1> HIDE DEF u
<1>4. \A i \in 1 .. Len(u) : u[i] = t[i]
  <2> SUFFICES ASSUME NEW i \in 1 .. Len(u) PROVE u[i] = t[i]
    OBVIOUS
  <2>1. CASE i = Len(s) + 1
    BY <1>3, <2>1 DEF e
  <2>2. CASE i # Len(s) + 1
    <3>1. i \in 1 .. Len(s)
      BY ONLY <1>0, <1>3, <2>2, i \in 1 .. Len(u)
    <3> QED
      BY <1>3, <3>1
  <2> QED
    BY <2>1, <2>2
<1>5. u = t
    BY <1>3, <1>4, SeqEqual
<1> QED
    BY <1>2, <1>5 DEF e

(* The concatenations of bench_main, for what it may be made of. *)
LEMMA Lists ==
    ASSUME NEW a, NEW b, NEW c, NEW d, NEW e, NEW f
    PROVE  /\ <<a, b, c>> \o <<>> \o <<d>> \o <<>> = <<a, b, c, d>>
           /\ <<a, b, c>> \o <<>> \o <<d>> \o <<e>> = <<a, b, c, d, e>>
           /\ <<a, b, c>> \o <<d>> \o <<e>> \o <<>> = <<a, b, c, d, e>>
           /\ <<a, b, c>> \o <<d>> \o <<e>> \o <<f>> = <<a, b, c, d, e, f>>
<1> DEFINE S == {a, b, c, d, e, f}
           three == <<a, b, c>>
           four == <<a, b, c, d>>
           five == <<a, b, c, d, e>>
           six == <<a, b, c, d, e, f>>
<1>1. /\ three \in Seq(S) /\ Len(three) = 3
      /\ three[1] = a /\ three[2] = b /\ three[3] = c
    OBVIOUS
<1>2. /\ four \in Seq(S) /\ Len(four) = 4
      /\ four[1] = a /\ four[2] = b /\ four[3] = c /\ four[4] = d
    OBVIOUS
<1>3. /\ five \in Seq(S) /\ Len(five) = 5
      /\ five[1] = a /\ five[2] = b /\ five[3] = c /\ five[4] = d /\ five[5] = e
    OBVIOUS
<1>4. /\ six \in Seq(S) /\ Len(six) = 6
      /\ six[1] = a /\ six[2] = b /\ six[3] = c /\ six[4] = d /\ six[5] = e /\ six[6] = f
    OBVIOUS
<1> HIDE DEF three, four, five, six, S
<1>5. three \o <<d>> = four
  <2>1. Len(four) = Len(three) + 1 /\ \A i \in 1 .. Len(three) : four[i] = three[i]
    BY <1>1, <1>2
  <2> QED
    BY <1>1, <1>2, <2>1, OneMore
<1>6. four \o <<e>> = five
  <2>1. Len(five) = Len(four) + 1 /\ \A i \in 1 .. Len(four) : five[i] = four[i]
    BY <1>2, <1>3
  <2> QED
    BY <1>2, <1>3, <2>1, OneMore
<1>7. five \o <<f>> = six
  <2>1. Len(six) = Len(five) + 1 /\ \A i \in 1 .. Len(five) : six[i] = five[i]
    BY <1>3, <1>4
  <2> QED
    BY <1>3, <1>4, <2>1, OneMore
<1>8. three \o <<>> = three /\ four \o <<>> = four /\ five \o <<>> = five
    BY <1>1, <1>2, <1>3, ConcatEmptySeq
<1>9. /\ three \o <<>> \o <<d>> \o <<>> = four
      /\ three \o <<>> \o <<d>> \o <<e>> = five
      /\ three \o <<d>> \o <<e>> \o <<>> = five
      /\ three \o <<d>> \o <<e>> \o <<f>> = six
    BY <1>5, <1>6, <1>7, <1>8
<1> QED
    BY <1>9 DEF three, four, five, six

(* The benchmarks of each build, one after the other. *)
LEMMA Plans ==
    ASSUME program \in Programs
    PROVE  /\ ~ IsApp => Main = <<Bench("rdtscp", "app", 0), Bench("syscall", "app", 0),
                                  Bench("hypercall", "app", 0)>>
           /\ IsApp /\ program.rdtsc /\ ~ program.stats =>
                  Main = <<Bench("hello", "hello", 1), Bench("rdtscp", "app", 0),
                           Bench("ecall_empty", "ecall", 0),
                           Bench("ocall_empty", "enclave", 1)>>
           /\ IsApp /\ program.rdtsc /\ program.stats =>
                  Main = <<Bench("hello", "hello", 1), Bench("rdtscp", "app", 0),
                           Bench("ecall_empty", "ecall", 0),
                           Bench("ocall_empty", "enclave", 1), Bench("stats", "stats", 0)>>
           /\ IsApp /\ ~ program.rdtsc /\ ~ program.stats =>
                  Main = <<Bench("hello", "hello", 1), Bench("rdtscp", "app", 0),
                           Bench("ecall_empty", "ecall", 0),
                           Bench("enclave_rdtscp", "enclave", 2),
                           Bench("ocall_empty", "enclave", 3)>>
           /\ IsApp /\ ~ program.rdtsc /\ program.stats =>
                  Main = <<Bench("hello", "hello", 1), Bench("rdtscp", "app", 0),
                           Bench("ecall_empty", "ecall", 0),
                           Bench("enclave_rdtscp", "enclave", 2),
                           Bench("ocall_empty", "enclave", 3), Bench("stats", "stats", 0)>>
<1>1. CASE ~ IsApp
    BY <1>1 DEF IsApp, Main, native_bench_main
<1>2. CASE IsApp
  <2> DEFINE a == Bench("hello", "hello", 1)
             b == Bench("rdtscp", "app", 0)
             c == Bench("ecall_empty", "ecall", 0)
             f == Bench("stats", "stats", 0)
  <2>1. Main = bench_main
    BY <1>2 DEF IsApp, Main
  <2>2. CASE program.rdtsc
    <3> DEFINE d == Bench("ocall_empty", "enclave", 1)
    <3>1. 1 + 2 * RdtscpOcalls = 1
      BY <2>2 DEF RdtscpOcalls
    <3>2. /\ program.stats => bench_main = <<a, b, c>> \o <<>> \o <<d>> \o <<f>>
          /\ ~ program.stats => bench_main = <<a, b, c>> \o <<>> \o <<d>> \o <<>>
      BY <2>2, <3>1 DEF bench_main
    <3> HIDE DEF a, b, c, d, f
    <3>3. /\ program.stats => Main = <<a, b, c, d, f>>
          /\ ~ program.stats => Main = <<a, b, c, d>>
      BY <2>1, <3>2, Lists
    <3> QED
      BY <1>2, <2>2, <3>3 DEF a, b, c, d, f
  <2>3. CASE ~ program.rdtsc
    <3> DEFINE d == Bench("enclave_rdtscp", "enclave", 2)
               e == Bench("ocall_empty", "enclave", 3)
    <3>1. 2 * RdtscpOcalls = 2 /\ 1 + 2 * RdtscpOcalls = 3
      BY <2>3 DEF RdtscpOcalls
    <3>2. /\ program.stats => bench_main = <<a, b, c>> \o <<d>> \o <<e>> \o <<f>>
          /\ ~ program.stats => bench_main = <<a, b, c>> \o <<d>> \o <<e>> \o <<>>
      BY <2>3, <3>1 DEF bench_main
    <3> HIDE DEF a, b, c, d, e, f
    <3>3. /\ program.stats => Main = <<a, b, c, d, e, f>>
          /\ ~ program.stats => Main = <<a, b, c, d, e>>
      <4>1. /\ <<a, b, c>> \o <<d>> \o <<e>> \o <<f>> = <<a, b, c, d, e, f>>
            /\ <<a, b, c>> \o <<d>> \o <<e>> \o <<>> = <<a, b, c, d, e>>
        BY Lists
      <4> QED
        BY <2>1, <3>2, <4>1
    <3> QED
      BY <1>2, <2>3, <3>3 DEF a, b, c, d, e, f
  <2> QED
    BY <2>2, <2>3
<1> QED
    BY <1>1, <1>2

(* What the proofs below use of the plans. *)
LEMMA Jobs ==
    ASSUME program \in Programs
    PROVE  /\ Len(Main) \in Nat /\ Len(Main) >= 3
           /\ \A j \in 1 .. Len(Main) :
                  /\ Main[j].name \in RowNames \ {"eenter", "eexit"}
                  /\ Main[j].timer \in {"app", "ecall", "enclave", "hello", "stats"}
                  /\ Main[j].ocalls \in {0, 1, 2, 3}
                  /\ Main[j].timer \in {"hello", "enclave"} => Main[j].ocalls # 0
                  /\ Main[j].timer = "hello" => Main[j].ocalls = 1
                  /\ Main[j].timer # "app" => IsApp
                  /\ Main[j].timer = "stats" => program.stats /\ j = Len(Main)
           /\ \A j, k \in 1 .. Len(Main) : Main[j].name = Main[k].name => j = k
<1> USE DEF RowNames
<1>1. CASE ~ IsApp
  <2>1. Len(Main) = 3
    BY <1>1, Plans
  <2>2. /\ Main[1].name = "rdtscp" /\ Main[1].timer = "app" /\ Main[1].ocalls = 0
        /\ Main[2].name = "syscall" /\ Main[2].timer = "app" /\ Main[2].ocalls = 0
        /\ Main[3].name = "hypercall" /\ Main[3].timer = "app" /\ Main[3].ocalls = 0
    BY <1>1, Plans DEF Bench
  <2>3. \A j \in 1 .. Len(Main) : j = 1 \/ j = 2 \/ j = 3
    BY <2>1
  <2> QED
    BY ONLY <1>1, <2>1, <2>2, <2>3
<1>2. CASE IsApp /\ program.rdtsc /\ ~ program.stats
  <2>1. Len(Main) = 4
    BY <1>2, Plans
  <2>2. /\ Main[1].name = "hello" /\ Main[1].timer = "hello" /\ Main[1].ocalls = 1
        /\ Main[2].name = "rdtscp" /\ Main[2].timer = "app" /\ Main[2].ocalls = 0
        /\ Main[3].name = "ecall_empty" /\ Main[3].timer = "ecall" /\ Main[3].ocalls = 0
        /\ Main[4].name = "ocall_empty" /\ Main[4].timer = "enclave" /\ Main[4].ocalls = 1
    BY <1>2, Plans DEF Bench
  <2>3. \A j \in 1 .. Len(Main) : j = 1 \/ j = 2 \/ j = 3 \/ j = 4
    BY <2>1
  <2> QED
    BY ONLY <1>2, <2>1, <2>2, <2>3
<1>3. CASE IsApp /\ program.rdtsc /\ program.stats
  <2>1. Len(Main) = 5
    BY <1>3, Plans
  <2>2. /\ Main[1].name = "hello" /\ Main[1].timer = "hello" /\ Main[1].ocalls = 1
        /\ Main[2].name = "rdtscp" /\ Main[2].timer = "app" /\ Main[2].ocalls = 0
        /\ Main[3].name = "ecall_empty" /\ Main[3].timer = "ecall" /\ Main[3].ocalls = 0
        /\ Main[4].name = "ocall_empty" /\ Main[4].timer = "enclave" /\ Main[4].ocalls = 1
        /\ Main[5].name = "stats" /\ Main[5].timer = "stats" /\ Main[5].ocalls = 0
    BY <1>3, Plans DEF Bench
  <2>3. \A j \in 1 .. Len(Main) : j = 1 \/ j = 2 \/ j = 3 \/ j = 4 \/ j = 5
    BY <2>1
  <2> QED
    BY ONLY <1>3, <2>1, <2>2, <2>3
<1>4. CASE IsApp /\ ~ program.rdtsc /\ ~ program.stats
  <2>1. Len(Main) = 5
    BY <1>4, Plans
  <2>2. /\ Main[1].name = "hello" /\ Main[1].timer = "hello" /\ Main[1].ocalls = 1
        /\ Main[2].name = "rdtscp" /\ Main[2].timer = "app" /\ Main[2].ocalls = 0
        /\ Main[3].name = "ecall_empty" /\ Main[3].timer = "ecall" /\ Main[3].ocalls = 0
        /\ Main[4].name = "enclave_rdtscp" /\ Main[4].timer = "enclave" /\ Main[4].ocalls = 2
        /\ Main[5].name = "ocall_empty" /\ Main[5].timer = "enclave" /\ Main[5].ocalls = 3
    BY <1>4, Plans DEF Bench
  <2>3. \A j \in 1 .. Len(Main) : j = 1 \/ j = 2 \/ j = 3 \/ j = 4 \/ j = 5
    BY <2>1
  <2> QED
    BY ONLY <1>4, <2>1, <2>2, <2>3
<1>5. CASE IsApp /\ ~ program.rdtsc /\ program.stats
  <2>1. Len(Main) = 6
    BY <1>5, Plans
  <2>2. /\ Main[1].name = "hello" /\ Main[1].timer = "hello" /\ Main[1].ocalls = 1
        /\ Main[2].name = "rdtscp" /\ Main[2].timer = "app" /\ Main[2].ocalls = 0
        /\ Main[3].name = "ecall_empty" /\ Main[3].timer = "ecall" /\ Main[3].ocalls = 0
        /\ Main[4].name = "enclave_rdtscp" /\ Main[4].timer = "enclave" /\ Main[4].ocalls = 2
        /\ Main[5].name = "ocall_empty" /\ Main[5].timer = "enclave" /\ Main[5].ocalls = 3
        /\ Main[6].name = "stats" /\ Main[6].timer = "stats" /\ Main[6].ocalls = 0
    BY <1>5, Plans DEF Bench
  <2>3. \A j \in 1 .. Len(Main) : j = 1 \/ j = 2 \/ j = 3 \/ j = 4 \/ j = 5 \/ j = 6
    BY <2>1
  <2> QED
    BY ONLY <1>5, <2>1, <2>2, <2>3
<1> QED
    BY <1>1, <1>2, <1>3, <1>4, <1>5

(* What a benchmark adds to the entries. *)
LEMMA Costs ==
    ASSUME program \in Programs, IsApp
    PROVE  /\ Main[1].timer = "hello" /\ Before[1] = 1
           /\ \A j \in 1 .. Len(Main) : Before[j] \in Nat
           /\ \A j \in 1 .. Len(Main) - 1 :
                  /\ Main[j].timer = "hello" => Before[j + 1] = Before[j] + 2
                  /\ Main[j].timer = "app" => Before[j + 1] = Before[j]
                  /\ Main[j].timer = "ecall" => Before[j + 1] = Before[j] + Calls
                  /\ Main[j].timer = "enclave" =>
                         Before[j + 1] = Before[j] + 1 + Main[j].ocalls * Calls
           /\ program.stats /\ program.rdtsc =>
                  Before[Len(Main)] = 3 + Calls + 1 + Calls
           /\ program.stats /\ ~ program.rdtsc =>
                  Before[Len(Main)] = 3 + Calls + 1 + 2 * Calls + 1 + 3 * Calls
<1>0. Calls \in Nat
    BY TimesAssumption DEF Calls, Count
<1>5. /\ program.rdtsc =>
             /\ Before[1] = 1 /\ Before[2] = 3 /\ Before[3] = 3 /\ Before[4] = 3 + Calls
             /\ Before[5] = 3 + Calls + 1 + Calls
      /\ ~ program.rdtsc =>
             /\ Before[1] = 1 /\ Before[2] = 3 /\ Before[3] = 3 /\ Before[4] = 3 + Calls
             /\ Before[5] = 3 + Calls + 1 + 2 * Calls
             /\ Before[6] = 3 + Calls + 1 + 2 * Calls + 1 + 3 * Calls
    BY DEF Before
<1> DEFINE n == Calls
<1> HIDE DEF n
<1>6. n \in Nat /\ Calls = n
    BY <1>0 DEF n
<1>1. CASE program.rdtsc /\ ~ program.stats
  <2>1. Len(Main) = 4
    BY <1>1, Plans
  <2>2. /\ Main[1].timer = "hello" /\ Main[1].ocalls = 1
        /\ Main[2].timer = "app" /\ Main[2].ocalls = 0
        /\ Main[3].timer = "ecall" /\ Main[3].ocalls = 0
        /\ Main[4].timer = "enclave" /\ Main[4].ocalls = 1
    BY <1>1, Plans DEF Bench
  <2>3. \A j \in 1 .. Len(Main) : j = 1 \/ j = 2 \/ j = 3 \/ j = 4
    BY <2>1
  <2> QED
    BY ONLY <1>1, <1>5, <1>6, <2>1, <2>2, <2>3
<1>2. CASE program.rdtsc /\ program.stats
  <2>1. Len(Main) = 5
    BY <1>2, Plans
  <2>2. /\ Main[1].timer = "hello" /\ Main[1].ocalls = 1
        /\ Main[2].timer = "app" /\ Main[2].ocalls = 0
        /\ Main[3].timer = "ecall" /\ Main[3].ocalls = 0
        /\ Main[4].timer = "enclave" /\ Main[4].ocalls = 1
        /\ Main[5].timer = "stats" /\ Main[5].ocalls = 0
    BY <1>2, Plans DEF Bench
  <2>3. \A j \in 1 .. Len(Main) : j = 1 \/ j = 2 \/ j = 3 \/ j = 4 \/ j = 5
    BY <2>1
  <2> QED
    BY ONLY <1>2, <1>5, <1>6, <2>1, <2>2, <2>3
<1>3. CASE ~ program.rdtsc /\ ~ program.stats
  <2>1. Len(Main) = 5
    BY <1>3, Plans
  <2>2. /\ Main[1].timer = "hello" /\ Main[1].ocalls = 1
        /\ Main[2].timer = "app" /\ Main[2].ocalls = 0
        /\ Main[3].timer = "ecall" /\ Main[3].ocalls = 0
        /\ Main[4].timer = "enclave" /\ Main[4].ocalls = 2
        /\ Main[5].timer = "enclave" /\ Main[5].ocalls = 3
    BY <1>3, Plans DEF Bench
  <2>3. \A j \in 1 .. Len(Main) : j = 1 \/ j = 2 \/ j = 3 \/ j = 4 \/ j = 5
    BY <2>1
  <2> QED
    BY ONLY <1>3, <1>5, <1>6, <2>1, <2>2, <2>3
<1>4. CASE ~ program.rdtsc /\ program.stats
  <2>1. Len(Main) = 6
    BY <1>4, Plans
  <2>2. /\ Main[1].timer = "hello" /\ Main[1].ocalls = 1
        /\ Main[2].timer = "app" /\ Main[2].ocalls = 0
        /\ Main[3].timer = "ecall" /\ Main[3].ocalls = 0
        /\ Main[4].timer = "enclave" /\ Main[4].ocalls = 2
        /\ Main[5].timer = "enclave" /\ Main[5].ocalls = 3
        /\ Main[6].timer = "stats" /\ Main[6].ocalls = 0
    BY <1>4, Plans DEF Bench
  <2>3. \A j \in 1 .. Len(Main) : j = 1 \/ j = 2 \/ j = 3 \/ j = 4 \/ j = 5 \/ j = 6
    BY <2>1
  <2> QED
    BY ONLY <1>4, <1>5, <1>6, <2>1, <2>2, <2>3
<1> QED
    BY <1>1, <1>2, <1>3, <1>4

-----------------------------------------------------------------------------
(* The invariant, part by part. *)

(* The build never changes, nor what follows from it; and what job is at work. *)
LEMMA Setting ==
    ASSUME TypeInv, Placed, [Next]_vars
    PROVE  /\ program' = program /\ Main' = Main /\ Before' = Before /\ Timed' = Timed
           /\ IsApp' = IsApp
           /\ Count \in Nat /\ Count >= 1 /\ Len(Main) \in Nat /\ Len(Main) >= 3
           /\ pc = "bench" =>
                  /\ job \in 1 .. Len(Main)
                  /\ Job.name \in RowNames \ {"eenter", "eexit"}
                  /\ Job.timer \in {"app", "ecall", "enclave", "hello", "stats"}
                  /\ Job.ocalls = 0 \/ Job.ocalls = 1 \/ Job.ocalls = 2 \/ Job.ocalls = 3
                  /\ Job.timer \in {"hello", "enclave"} => Job.ocalls # 0
                  /\ Job.timer = "hello" => Job.ocalls = 1
                  /\ Job.timer # "app" => IsApp
                  /\ Job.timer = "stats" => program.stats /\ job = Len(Main)
                  /\ IsApp => Before[job] \in Nat
<1>1. program' = program
  <2>1. CASE CreateEnclave
    BY <2>1 DEF CreateEnclave
  <2>2. CASE EnclaveCreated
    BY <2>2 DEF EnclaveCreated
  <2>3. CASE CreateFails
    BY <2>3 DEF CreateFails
  <2>4. CASE OpenResults
    BY <2>4 DEF OpenResults
  <2>5. CASE CloseResults
    BY <2>5 DEF CloseResults
  <2>6. CASE Destroy
    BY <2>6 DEF Destroy
  <2>7. CASE SampleInApp
    BY <2>7 DEF SampleInApp
  <2>8. CASE EcallEnter
    BY <2>8 DEF EcallEnter
  <2>9. CASE Ocall
    BY <2>9 DEF Ocall
  <2>10. CASE OcallReturn
    BY <2>10 DEF OcallReturn
  <2>11. CASE SampleInEnclave
    BY <2>11 DEF SampleInEnclave
  <2>12. CASE HelloReturn
    BY <2>12 DEF HelloReturn
  <2>13. CASE EcallReturn
    BY <2>13 DEF EcallReturn
  <2>14. CASE EnclaveReturn
    BY <2>14 DEF EnclaveReturn
  <2>15. CASE StatsReturn
    BY <2>15 DEF StatsReturn
  <2>16. CASE BenchStats
    BY <2>16 DEF BenchStats
  <2>17. CASE HelloFails
    BY <2>17 DEF HelloFails
  <2>18. CASE EcallFails
    BY <2>18 DEF EcallFails
  <2>19. CASE EnclaveFails
    BY <2>19 DEF EnclaveFails
  <2>20. CASE StatsFails
    BY <2>20 DEF StatsFails
  <2>21. CASE LoseEnclave
    BY <2>21 DEF LoseEnclave
  <2>22. CASE UNCHANGED vars
    BY <2>22 DEF vars
  <2> QED
    BY <2>1, <2>2, <2>3, <2>4, <2>5, <2>6, <2>7, <2>8, <2>9, <2>10, <2>11, <2>12, <2>13,
       <2>14, <2>15, <2>16, <2>17, <2>18, <2>19, <2>20, <2>21, <2>22 DEF Next, Execute
<1>2. Main' = Main /\ Before' = Before /\ IsApp' = IsApp
  <2>1. RdtscpOcalls' = RdtscpOcalls
    BY <1>1 DEF RdtscpOcalls
  <2>2. bench_main' = bench_main /\ native_bench_main' = native_bench_main
    BY <1>1, <2>1 DEF bench_main, native_bench_main
  <2> QED
    BY <1>1, <2>2 DEF Main, Before, IsApp, Calls, Count
<1>3. Timed' = Timed
    BY <1>2 DEF Timed
<1>4. Count \in Nat /\ Count >= 1
    BY TimesAssumption DEF Count
<1>5. program \in Programs /\ job \in 1 .. Len(Main) + 1
    BY DEF TypeInv
<1>6. Len(Main) \in Nat /\ Len(Main) >= 3
    BY <1>5, Jobs
<1>7. ASSUME pc = "bench" PROVE job \in 1 .. Len(Main)
  <2>1. job <= Len(Main)
    BY <1>7 DEF Placed
  <2> QED
    BY ONLY <1>5, <1>6, <2>1
<1>8. ASSUME pc = "bench", IsApp PROVE Before[job] \in Nat
    BY <1>5, <1>7, <1>8, Costs
<1> QED
    BY <1>1, <1>2, <1>3, <1>4, <1>5, <1>6, <1>7, <1>8, Jobs DEF Job

(* The two lines of the report. *)
LEMMA TwoLines ==
    ASSUME rows \in Seq(RowNames)
    PROVE  /\ rows \o <<"eenter", "eexit">> \in Seq(RowNames)
           /\ Len(rows) \in Nat
           /\ Len(rows \o <<"eenter", "eexit">>) = Len(rows) + 2
           /\ \A i \in 1 .. Len(rows) : (rows \o <<"eenter", "eexit">>)[i] = rows[i]
           /\ (rows \o <<"eenter", "eexit">>)[Len(rows) + 1] = "eenter"
           /\ (rows \o <<"eenter", "eexit">>)[Len(rows) + 2] = "eexit"
<1> DEFINE two == <<"eenter", "eexit">>
           n == Len(rows)
           after == rows \o two
<1>1. two \in Seq(RowNames) /\ Len(two) = 2 /\ two[1] = "eenter" /\ two[2] = "eexit"
    BY DEF RowNames
<1>2. n \in Nat
    BY LenProperties
<1> HIDE DEF two
<1>6. /\ after \in Seq(RowNames) /\ Len(after) = n + Len(two)
      /\ \A i \in 1 .. n + Len(two) : after[i] = IF i <= n THEN rows[i] ELSE two[i - n]
    BY <1>1, ConcatProperties
<1> HIDE DEF after, n
<1>3. /\ after \in Seq(RowNames) /\ Len(after) = n + 2
      /\ \A i \in 1 .. n + 2 : after[i] = IF i <= n THEN rows[i] ELSE two[i - n]
    BY ONLY <1>1, <1>6
<1>4. \A i \in 1 .. n : after[i] = rows[i]
    BY ONLY <1>2, <1>3
<1>5. after[n + 1] = two[1] /\ after[n + 2] = two[2]
  <2>1. /\ n + 1 \in 1 .. n + 2 /\ n + 2 \in 1 .. n + 2 /\ ~ (n + 1 <= n) /\ ~ (n + 2 <= n)
        /\ (n + 1) - n = 1 /\ (n + 2) - n = 2
    BY ONLY <1>2
  <2> QED
    BY <1>3, <2>1
<1> QED
    BY <1>1, <1>2, <1>3, <1>4, <1>5 DEF after, two, n

(* What is stored of one more sample. *)
LEMMA StoreType ==
    ASSUME TypeInv, Placed, [Next]_vars, sample # Count, Store,
           UNCHANGED <<program, pc, job, enclave, rows>>,
           side' \in {"app", "enclave", "ocall"}, enters' \in Nat, exits' \in Nat
    PROVE  TypeInv'
<1>1. program' \in Programs /\ job' \in 1 .. Len(Main') + 1 /\ Count' = Count /\ Count \in Nat
    BY Setting DEF TypeInv, Count
<1>2. sample' \in -1 .. Count' /\ ocalls' \in Nat
    BY ONLY TypeInv, <1>1, sample # Count, Store DEF TypeInv, Store
<1>3. /\ DOMAIN all_cycles' = {"app", "enclave"}
      /\ \A array \in {"app", "enclave"} : DOMAIN all_cycles'[array] = 0 .. Count' - 1
    BY <1>1 DEF TypeInv, Store
<1> QED
    BY <1>1, <1>2, <1>3 DEF TypeInv

(* The benchmark after this one, or the end of the plan. *)
LEMMA NextJobType ==
    ASSUME TypeInv, Placed, [Next]_vars, pc = "bench", NextJob,
           UNCHANGED <<program, enclave, all_cycles>>, rows' \in Seq(RowNames),
           side' \in {"app", "enclave", "ocall"}, enters' \in Nat, exits' \in Nat
    PROVE  TypeInv'
<1>1. /\ program' \in Programs /\ job' \in 1 .. Len(Main') + 1
      /\ Count' = Count /\ Count \in Nat
    BY Setting DEF TypeInv, NextJob, Count
<1>2. /\ sample' \in -1 .. Count' /\ ocalls' \in Nat
      /\ pc' \in {"create", "open", "bench", "close", "destroy", "exited"}
    BY ONLY <1>1, NextJob, pc = "bench" DEF NextJob
<1> QED
    BY ONLY TypeInv, <1>1, <1>2, UNCHANGED <<enclave, all_cycles>>, rows' \in Seq(RowNames),
            side' \in {"app", "enclave", "ocall"}, enters' \in Nat, exits' \in Nat
       DEF TypeInv

(* Variables keep their types: the sample never passes the last one. *)
LEMMA NextType ==
    ASSUME TypeInv, Placed, [Next]_vars
    PROVE  TypeInv'
<1> USE DEF TypeInv
<1>1. CASE CreateEnclave
    BY <1>1, Setting DEF CreateEnclave, crossing, results, Placed, Job
<1>2. CASE EnclaveCreated
    BY <1>2, Setting DEF EnclaveCreated, crossing, results, Placed, Job
<1>3. CASE CreateFails
    BY <1>3, Setting DEF CreateFails, Exit, crossing, results, Placed, Job
<1>4. CASE OpenResults
    BY <1>4, Setting DEF OpenResults, crossing, results, Placed, Job
<1>5. CASE CloseResults
    BY <1>5, Setting DEF CloseResults, crossing, results, Placed, Job
<1>6. CASE Destroy
    BY <1>6, Setting DEF Destroy, crossing, results, Placed, Job
<1>7. CASE SampleInApp
  <2>1. /\ sample # Count /\ Store /\ exits' \in Nat /\ enters' \in Nat
        /\ UNCHANGED <<program, pc, job, enclave, rows>>
        /\ side' \in {"app", "enclave", "ocall"}
    BY <1>7 DEF SampleInApp, AllTaken, crossing, results
  <2> QED
    BY <2>1, StoreType
<1>8. CASE EcallEnter
    BY <1>8, Setting DEF EcallEnter, Running, AllTaken, crossing, results, Placed, Job
<1>9. CASE Ocall
    BY <1>9, Setting DEF Ocall, Running, AllTaken, crossing, results, Placed, Job
<1>10. CASE OcallReturn
    BY <1>10, Setting DEF OcallReturn, crossing, results, Placed, Job
<1>11. CASE SampleInEnclave
  <2>1. /\ sample # Count /\ Store /\ exits' \in Nat /\ enters' \in Nat
        /\ UNCHANGED <<program, pc, job, enclave, rows>>
        /\ side' \in {"app", "enclave", "ocall"}
    BY <1>11 DEF SampleInEnclave, AllTaken, crossing, results
  <2> QED
    BY <2>1, StoreType
<1>12. CASE HelloReturn
  <2>1. /\ pc = "bench" /\ NextJob /\ exits' \in Nat /\ enters' \in Nat
        /\ UNCHANGED <<program, enclave, all_cycles>>
        /\ side' \in {"app", "enclave", "ocall"}
    BY <1>12 DEF HelloReturn, Running, Leave
  <2>2. rows' \in Seq(RowNames)
    BY <1>12 DEF HelloReturn, results
  <2> QED
    BY <2>1, <2>2, NextJobType
<1>13. CASE EcallReturn
  <2>1. /\ sample # Count /\ Store /\ exits' \in Nat /\ enters' \in Nat
        /\ UNCHANGED <<program, pc, job, enclave, rows>>
        /\ side' \in {"app", "enclave", "ocall"}
    BY <1>13 DEF EcallReturn, Running, Leave, Placed, results
  <2> QED
    BY <2>1, StoreType
<1>14. CASE EnclaveReturn
    BY <1>14, Setting DEF EnclaveReturn, Running, AllTaken, Leave, crossing, results,
           Placed, Job
<1>15. CASE StatsReturn
  <2>1. /\ pc = "bench" /\ NextJob /\ exits' \in Nat /\ enters' \in Nat
        /\ UNCHANGED <<program, enclave, all_cycles>>
        /\ side' \in {"app", "enclave", "ocall"}
    BY <1>15 DEF StatsReturn, Running, Leave
  <2>2. rows' \in Seq(RowNames)
    BY <1>15, TwoLines DEF StatsReturn
  <2> QED
    BY <2>1, <2>2, NextJobType
<1>16. CASE BenchStats
  <2>1. /\ pc = "bench" /\ NextJob /\ exits' \in Nat /\ enters' \in Nat
        /\ UNCHANGED <<program, enclave, all_cycles>>
        /\ side' \in {"app", "enclave", "ocall"}
    BY <1>16 DEF BenchStats, Running, crossing
  <2>2. rows' \in Seq(RowNames)
    BY <1>16, Setting DEF BenchStats, Running
  <2> QED
    BY <2>1, <2>2, NextJobType
<1>17. CASE HelloFails
  <2>1. /\ pc = "bench" /\ NextJob /\ exits' \in Nat /\ enters' \in Nat
        /\ UNCHANGED <<program, enclave, all_cycles>>
        /\ side' \in {"app", "enclave", "ocall"}
    BY <1>17 DEF HelloFails, Running, crossing
  <2>2. rows' \in Seq(RowNames)
    BY <1>17 DEF HelloFails, results
  <2> QED
    BY <2>1, <2>2, NextJobType
<1>18. CASE EcallFails
  <2>1. /\ sample # Count /\ Store /\ exits' \in Nat /\ enters' \in Nat
        /\ UNCHANGED <<program, pc, job, enclave, rows>>
        /\ side' \in {"app", "enclave", "ocall"}
    BY <1>18 DEF EcallFails, AllTaken, crossing, results
  <2> QED
    BY <2>1, StoreType
<1>19. CASE EnclaveFails
    BY <1>19, Setting DEF EnclaveFails, Running, AllTaken, Exit, crossing, results,
           Placed, Job
<1>20. CASE StatsFails
  <2>1. /\ pc = "bench" /\ NextJob /\ exits' \in Nat /\ enters' \in Nat
        /\ UNCHANGED <<program, enclave, all_cycles>>
        /\ side' \in {"app", "enclave", "ocall"}
    BY <1>20 DEF StatsFails, Running, crossing
  <2>2. rows' \in Seq(RowNames)
    BY <1>20, TwoLines DEF StatsFails
  <2> QED
    BY <2>1, <2>2, NextJobType
<1>21. CASE LoseEnclave
    BY <1>21, Setting DEF LoseEnclave, crossing, results, Placed, Job
<1>22. CASE UNCHANGED vars
    BY <1>22, Setting DEF vars, Placed, Job
<1> QED
    BY <1>1, <1>2, <1>3, <1>4, <1>5, <1>6, <1>7, <1>8, <1>9, <1>10, <1>11, <1>12, <1>13,
       <1>14, <1>15, <1>16, <1>17, <1>18, <1>19, <1>20, <1>21, <1>22 DEF Next, Execute

(* The enclave is entered only where the program calls it. *)
LEMMA NextPlaced ==
    ASSUME TypeInv, Placed, Counted, [Next]_vars
    PROVE  Placed'
<1>1. CASE CreateEnclave
    BY <1>1, Setting DEF CreateEnclave, crossing, results, TypeInv, Placed, Job, Counted
<1>2. CASE EnclaveCreated
    BY <1>2, Setting DEF EnclaveCreated, crossing, results, TypeInv, Placed, Job, Counted
<1>3. CASE CreateFails
    BY <1>3, Setting DEF CreateFails, Exit, crossing, results, TypeInv, Placed, Job,
           Counted
<1>4. CASE OpenResults
    BY <1>4, Setting DEF OpenResults, crossing, results, TypeInv, Placed, Job, Counted
<1>5. CASE CloseResults
    BY <1>5, Setting DEF CloseResults, crossing, results, TypeInv, Placed, Job, Counted
<1>6. CASE Destroy
    BY <1>6, Setting DEF Destroy, crossing, results, TypeInv, Placed, Job, Counted
<1>7. CASE SampleInApp
  <2>1. /\ pc = "bench" /\ Job.timer = "app" /\ ocalls' = 0
        /\ UNCHANGED <<program, pc, job, side, enclave>>
    BY <1>7 DEF SampleInApp, Store, Running, crossing
  <2>2. Job' = Job /\ Main' = Main /\ IsApp' = IsApp
    BY <2>1, Setting DEF Job
  <2> QED
    BY <2>1, <2>2 DEF Placed
<1>8. CASE EcallEnter
    BY <1>8, Setting DEF EcallEnter, Running, AllTaken, crossing, results, TypeInv,
           Placed, Job, Counted
<1>9. CASE Ocall
    BY <1>9, Setting DEF Ocall, Running, AllTaken, crossing, results, TypeInv, Placed,
           Job, Counted
<1>10. CASE OcallReturn
    BY <1>10, Setting DEF OcallReturn, crossing, results, TypeInv, Placed, Job, Counted
<1>11. CASE SampleInEnclave
    BY <1>11, Setting DEF SampleInEnclave, Store, Running, AllTaken, crossing, results,
           TypeInv, Placed, Job, Counted
<1>12. CASE HelloReturn
    BY <1>12, Setting DEF HelloReturn, Running, Leave, NextJob, crossing, results,
           TypeInv, Placed, Job, Counted
<1>13. CASE EcallReturn
    BY <1>13, Setting DEF EcallReturn, Running, Leave, Store, crossing, results, TypeInv,
           Placed, Job, Counted
<1>14. CASE EnclaveReturn
    BY <1>14, Setting DEF EnclaveReturn, Running, AllTaken, Leave, crossing, results,
           TypeInv, Placed, Job, Counted
<1>15. CASE StatsReturn
    BY <1>15, Setting DEF StatsReturn, Running, Leave, NextJob, crossing, results,
           TypeInv, Placed, Job, Counted
<1>16. CASE BenchStats
    BY <1>16, Setting DEF BenchStats, Running, AllTaken, NextJob, Statistics, crossing,
           results, TypeInv, Placed, Job, Counted
<1>17. CASE HelloFails
    BY <1>17, Setting DEF HelloFails, Running, NextJob, crossing, results, TypeInv,
           Placed, Job, Counted
<1>18. CASE EcallFails
    BY <1>18, Setting DEF EcallFails, Running, AllTaken, Store, crossing, results,
           TypeInv, Placed, Job, Counted
<1>19. CASE EnclaveFails
    BY <1>19, Setting DEF EnclaveFails, Running, AllTaken, Exit, crossing, results,
           TypeInv, Placed, Job, Counted
<1>20. CASE StatsFails
    BY <1>20, Setting DEF StatsFails, Running, NextJob, crossing, results, TypeInv,
           Placed, Job, Counted
<1>21. CASE LoseEnclave
    BY <1>21, Setting DEF LoseEnclave, crossing, results, TypeInv, Placed, Job, Counted
<1>22. CASE UNCHANGED vars
    BY <1>22, Setting DEF vars, TypeInv, Placed, Job, Counted
<1> QED
    BY <1>1, <1>2, <1>3, <1>4, <1>5, <1>6, <1>7, <1>8, <1>9, <1>10, <1>11, <1>12, <1>13,
       <1>14, <1>15, <1>16, <1>17, <1>18, <1>19, <1>20, <1>21, <1>22 DEF Next, Execute

(* A way in is paired with a way out before the next. *)
LEMMA NextBalanced ==
    ASSUME TypeInv, Placed, Balanced, [Next]_vars
    PROVE  Balanced'
<1>1. CASE CreateEnclave
    BY <1>1, TypeInv, Placed, Balanced DEF CreateEnclave, crossing, results, TypeInv,
           Placed, Balanced
<1>2. CASE EnclaveCreated
    BY <1>2, TypeInv, Placed, Balanced DEF EnclaveCreated, crossing, results, TypeInv,
           Placed, Balanced
<1>3. CASE CreateFails
    BY <1>3, TypeInv, Placed, Balanced DEF CreateFails, Exit, crossing, results, TypeInv,
           Placed, Balanced
<1>4. CASE OpenResults
    BY <1>4, TypeInv, Placed, Balanced DEF OpenResults, crossing, results, TypeInv,
           Placed, Balanced
<1>5. CASE CloseResults
    BY <1>5, TypeInv, Placed, Balanced DEF CloseResults, crossing, results, TypeInv,
           Placed, Balanced
<1>6. CASE Destroy
    BY <1>6, TypeInv, Placed, Balanced DEF Destroy, crossing, results, TypeInv, Placed,
           Balanced
<1>7. CASE SampleInApp
    BY <1>7, TypeInv, Placed, Balanced DEF SampleInApp, Store, Running, AllTaken,
           crossing, results, TypeInv, Placed, Balanced
<1>8. CASE EcallEnter
    BY <1>8, TypeInv, Placed, Balanced DEF EcallEnter, Running, AllTaken, crossing,
           results, TypeInv, Placed, Balanced
<1>9. CASE Ocall
    BY <1>9, TypeInv, Placed, Balanced DEF Ocall, Running, AllTaken, crossing, results,
           TypeInv, Placed, Balanced
<1>10. CASE OcallReturn
    BY <1>10, TypeInv, Placed, Balanced DEF OcallReturn, crossing, results, TypeInv,
           Placed, Balanced
<1>11. CASE SampleInEnclave
    BY <1>11, TypeInv, Placed, Balanced DEF SampleInEnclave, Store, Running, AllTaken,
           crossing, results, TypeInv, Placed, Balanced
<1>12. CASE HelloReturn
    BY <1>12, TypeInv, Placed, Balanced DEF HelloReturn, Running, Leave, NextJob,
           crossing, results, TypeInv, Placed, Balanced
<1>13. CASE EcallReturn
    BY <1>13, TypeInv, Placed, Balanced DEF EcallReturn, Running, Leave, Store, crossing,
           results, TypeInv, Placed, Balanced
<1>14. CASE EnclaveReturn
    BY <1>14, TypeInv, Placed, Balanced DEF EnclaveReturn, Running, AllTaken, Leave,
           crossing, results, TypeInv, Placed, Balanced
<1>15. CASE StatsReturn
    BY <1>15, TypeInv, Placed, Balanced DEF StatsReturn, Running, Leave, NextJob,
           crossing, results, TypeInv, Placed, Balanced
<1>16. CASE BenchStats
    BY <1>16, TypeInv, Placed, Balanced DEF BenchStats, Running, AllTaken, NextJob,
           Statistics, crossing, results, TypeInv, Placed, Balanced
<1>17. CASE HelloFails
    BY <1>17, TypeInv, Placed, Balanced DEF HelloFails, Running, NextJob, crossing,
           results, TypeInv, Placed, Balanced
<1>18. CASE EcallFails
    BY <1>18, TypeInv, Placed, Balanced DEF EcallFails, Running, AllTaken, Store,
           crossing, results, TypeInv, Placed, Balanced
<1>19. CASE EnclaveFails
    BY <1>19, TypeInv, Placed, Balanced DEF EnclaveFails, Running, AllTaken, Exit,
           crossing, results, TypeInv, Placed, Balanced
<1>20. CASE StatsFails
    BY <1>20, TypeInv, Placed, Balanced DEF StatsFails, Running, NextJob, crossing,
           results, TypeInv, Placed, Balanced
<1>21. CASE LoseEnclave
    BY <1>21, TypeInv, Placed, Balanced DEF LoseEnclave, crossing, results, TypeInv,
           Placed, Balanced
<1>22. CASE UNCHANGED vars
    BY <1>22, TypeInv, Placed, Balanced DEF vars, TypeInv, Placed, Balanced
<1> QED
    BY <1>1, <1>2, <1>3, <1>4, <1>5, <1>6, <1>7, <1>8, <1>9, <1>10, <1>11, <1>12, <1>13,
       <1>14, <1>15, <1>16, <1>17, <1>18, <1>19, <1>20, <1>21, <1>22 DEF Next, Execute

(* One sample more. *)
LEMMA Stores ==
    ASSUME TypeInv, Stored, pc = "bench", sample # Count, Store, Main' = Main,
           UNCHANGED <<program, pc, job>>, Count \in Nat
    PROVE  Stored'
<1> DEFINE a == Array
<1>1. sample \in -1 .. Count - 1 /\ a \in {"app", "enclave"}
    BY DEF TypeInv, Array
<1>2. Job' = Job /\ Array' = a /\ pc' = "bench" /\ sample' = sample + 1
    BY DEF Job, Array, Store
<1>3. /\ DOMAIN all_cycles = {"app", "enclave"}
      /\ DOMAIN all_cycles[a] = 0 .. Count - 1
    BY <1>1 DEF TypeInv
<1>4. \A i \in 0 .. sample - 1 : all_cycles[a][i] = <<Job.name, i>>
    BY DEF Stored
<1> HIDE DEF a
<1>5. ASSUME NEW i \in 0 .. sample PROVE all_cycles'[a][i] = <<Job.name, i>>
  <2>1. sample \in 0 .. Count - 1 /\ i \in 0 .. Count - 1
    BY ONLY <1>1, i \in 0 .. sample, Count \in Nat
  <2>2. all_cycles' = [all_cycles EXCEPT ![a][sample] = <<Job.name, sample>>]
    BY <2>1 DEF Store, a
  <2>3. CASE i = sample
    BY <1>1, <1>3, <2>1, <2>2, <2>3
  <2>4. CASE i # sample
    <3>1. i \in 0 .. sample - 1
      BY <2>1, <2>4
    <3> QED
      BY <1>1, <1>3, <1>4, <2>1, <2>2, <2>4, <3>1
  <2> QED
    BY <2>3, <2>4
<1>6. \A i \in 0 .. sample' - 1 : all_cycles'[a][i] = <<Job.name, i>>
    BY <1>1, <1>2, <1>5
<1> QED
    BY <1>2, <1>6 DEF Stored

(* A sample is kept at its own index, and its predecessors stay. *)
LEMMA NextStored ==
    ASSUME TypeInv, Placed, Stored, [Next]_vars
    PROVE  Stored'
<1>1. CASE CreateEnclave
    BY <1>1, Setting DEF CreateEnclave, crossing, results, TypeInv, Placed, Stored, Job,
           Array
<1>2. CASE EnclaveCreated
    BY <1>2, Setting DEF EnclaveCreated, crossing, results, TypeInv, Placed, Stored, Job,
           Array
<1>3. CASE CreateFails
    BY <1>3, Setting DEF CreateFails, Exit, crossing, results, TypeInv, Placed, Stored,
           Job, Array
<1>4. CASE OpenResults
    BY <1>4, Setting DEF OpenResults, crossing, results, TypeInv, Placed, Stored, Job,
           Array
<1>5. CASE CloseResults
    BY <1>5, Setting DEF CloseResults, crossing, results, TypeInv, Placed, Stored, Job,
           Array
<1>6. CASE Destroy
    BY <1>6, Setting DEF Destroy, crossing, results, TypeInv, Placed, Stored, Job, Array
<1>7. CASE SampleInApp
  <2>1. pc = "bench" /\ Store /\ sample # Count /\ UNCHANGED <<program, pc, job>>
    BY <1>7 DEF SampleInApp, Running, AllTaken
  <2> QED
    BY <2>1, Setting, Stores
<1>8. CASE EcallEnter
    BY <1>8, Setting DEF EcallEnter, Running, AllTaken, crossing, results, TypeInv,
           Placed, Stored, Job, Array
<1>9. CASE Ocall
    BY <1>9, Setting DEF Ocall, Running, AllTaken, crossing, results, TypeInv, Placed,
           Stored, Job, Array
<1>10. CASE OcallReturn
    BY <1>10, Setting DEF OcallReturn, crossing, results, TypeInv, Placed, Stored, Job,
           Array
<1>11. CASE SampleInEnclave
  <2>1. pc = "bench" /\ Store /\ sample # Count /\ UNCHANGED <<program, pc, job>>
    BY <1>11 DEF SampleInEnclave, Running, AllTaken
  <2> QED
    BY <2>1, Setting, Stores
<1>12. CASE HelloReturn
    BY <1>12, Setting DEF HelloReturn, Running, Leave, NextJob, crossing, results,
           TypeInv, Placed, Stored, Job, Array
<1>13. CASE EcallReturn
  <2>1. pc = "bench" /\ Store /\ sample # Count /\ UNCHANGED <<program, pc, job>>
    BY <1>13 DEF EcallReturn, Running, Leave, Placed
  <2> QED
    BY <2>1, Setting, Stores
<1>14. CASE EnclaveReturn
    BY <1>14, Setting DEF EnclaveReturn, Running, AllTaken, Leave, crossing, results,
           TypeInv, Placed, Stored, Job, Array
<1>15. CASE StatsReturn
    BY <1>15, Setting DEF StatsReturn, Running, Leave, NextJob, crossing, results,
           TypeInv, Placed, Stored, Job, Array
<1>16. CASE BenchStats
    BY <1>16, Setting DEF BenchStats, Running, AllTaken, NextJob, Statistics, crossing,
           results, TypeInv, Placed, Stored, Job, Array
<1>17. CASE HelloFails
    BY <1>17, Setting DEF HelloFails, Running, NextJob, crossing, results, TypeInv,
           Placed, Stored, Job, Array
<1>18. CASE EcallFails
  <2>1. pc = "bench" /\ Store /\ sample # Count /\ UNCHANGED <<program, pc, job>>
    BY <1>18 DEF EcallFails, Running, AllTaken
  <2> QED
    BY <2>1, Setting, Stores
<1>19. CASE EnclaveFails
    BY <1>19, Setting DEF EnclaveFails, Running, AllTaken, Exit, crossing, results,
           TypeInv, Placed, Stored, Job, Array
<1>20. CASE StatsFails
    BY <1>20, Setting DEF StatsFails, Running, NextJob, crossing, results, TypeInv,
           Placed, Stored, Job, Array
<1>21. CASE LoseEnclave
    BY <1>21, Setting DEF LoseEnclave, crossing, results, TypeInv, Placed, Stored, Job,
           Array
<1>22. CASE UNCHANGED vars
    BY <1>22, Setting DEF vars, TypeInv, Placed, Stored, Job, Array
<1> QED
    BY <1>1, <1>2, <1>3, <1>4, <1>5, <1>6, <1>7, <1>8, <1>9, <1>10, <1>11, <1>12, <1>13,
       <1>14, <1>15, <1>16, <1>17, <1>18, <1>19, <1>20, <1>21, <1>22 DEF Next, Execute

(* A file is written when its array is full of its own samples. *)
LEMMA NextFiles ==
    ASSUME TypeInv, Placed, Stored, FilesExact, [Next]_vars
    PROVE  FilesExact'
<1>1. CASE CreateEnclave
    BY <1>1, Setting DEF CreateEnclave, crossing, results, FilesExact
<1>2. CASE EnclaveCreated
    BY <1>2, Setting DEF EnclaveCreated, crossing, results, FilesExact
<1>3. CASE CreateFails
    BY <1>3, Setting DEF CreateFails, Exit, crossing, results, FilesExact
<1>4. CASE OpenResults
    BY <1>4, Setting DEF OpenResults, crossing, results, FilesExact
<1>5. CASE CloseResults
    BY <1>5, Setting DEF CloseResults, crossing, results, FilesExact
<1>6. CASE Destroy
    BY <1>6, Setting DEF Destroy, crossing, results, FilesExact
<1>7. CASE SampleInApp
    BY <1>7, Setting DEF SampleInApp, Store, Running, AllTaken, crossing, results,
           FilesExact
<1>8. CASE EcallEnter
    BY <1>8, Setting DEF EcallEnter, Running, AllTaken, crossing, results, FilesExact
<1>9. CASE Ocall
    BY <1>9, Setting DEF Ocall, Running, AllTaken, crossing, results, FilesExact
<1>10. CASE OcallReturn
    BY <1>10, Setting DEF OcallReturn, crossing, results, FilesExact
<1>11. CASE SampleInEnclave
    BY <1>11, Setting DEF SampleInEnclave, Store, Running, AllTaken, crossing, results,
           FilesExact
<1>12. CASE HelloReturn
    BY <1>12, Setting DEF HelloReturn, Running, Leave, NextJob, crossing, results,
           FilesExact
<1>13. CASE EcallReturn
    BY <1>13, Setting DEF EcallReturn, Running, Leave, Store, crossing, results,
           FilesExact
<1>14. CASE EnclaveReturn
    BY <1>14, Setting DEF EnclaveReturn, Running, AllTaken, Leave, crossing, results,
           FilesExact
<1>15. CASE StatsReturn
    BY <1>15, Setting DEF StatsReturn, Running, Leave, NextJob, crossing, results,
           FilesExact
<1>16. CASE BenchStats
  <2>1. pc = "bench" /\ sample = Count
    BY <1>16 DEF BenchStats, Running, AllTaken
  <2>2. \A i \in 0 .. Count - 1 : all_cycles[Array][i] = <<Job.name, i>>
    BY <2>1 DEF Stored
  <2>3. ASSUME NEW i \in 1 .. TestTimes
        PROVE  Statistics(all_cycles[Array])[i] = <<Job.name, WarmupTimes + i - 1>>
    <3> DEFINE m == i - 1 + WarmupTimes
    <3>1. m \in 0 .. Count - 1 /\ m = WarmupTimes + i - 1
      BY TimesAssumption DEF Count
    <3>2. Statistics(all_cycles[Array])[i] = all_cycles[Array][m]
      BY DEF Statistics
    <3> HIDE DEF m
    <3> QED
      BY <2>2, <3>1, <3>2
  <2>4. Statistics(all_cycles[Array]) =
            [i \in 1 .. TestTimes |-> <<Job.name, WarmupTimes + i - 1>>]
    BY <2>3 DEF Statistics
  <2>5. files' = files \union {[name |-> Job.name, samples |-> Statistics(all_cycles[Array])]}
    BY <1>16 DEF BenchStats
  <2> QED
    <3> DEFINE taken == Statistics(all_cycles[Array])
    <3>1. /\ files' = files \union {[name |-> Job.name, samples |-> taken]}
          /\ taken = [i \in 1 .. TestTimes |-> <<Job.name, WarmupTimes + i - 1>>]
      BY <2>4, <2>5
    <3> HIDE DEF taken
    <3>2. ASSUME NEW f \in files'
          PROVE  f.samples = [i \in 1 .. TestTimes |-> <<f.name, WarmupTimes + i - 1>>]
      <4>1. CASE f \in files
        BY <4>1 DEF FilesExact
      <4>2. CASE f \notin files
        <5>1. f = [name |-> Job.name, samples |-> taken]
          BY <3>1, <4>2
        <5>2. f.name = Job.name /\ f.samples = taken
          BY <5>1
        <5> QED
          BY <3>1, <5>2
      <4> QED
        BY <4>1, <4>2
    <3> QED
      BY <3>2 DEF FilesExact
<1>17. CASE HelloFails
    BY <1>17, Setting DEF HelloFails, Running, NextJob, crossing, results, FilesExact
<1>18. CASE EcallFails
    BY <1>18, Setting DEF EcallFails, Running, AllTaken, Store, crossing, results,
           FilesExact
<1>19. CASE EnclaveFails
    BY <1>19, Setting DEF EnclaveFails, Running, AllTaken, Exit, crossing, results,
           FilesExact
<1>20. CASE StatsFails
    BY <1>20, Setting DEF StatsFails, Running, NextJob, crossing, results, FilesExact
<1>21. CASE LoseEnclave
    BY <1>21, Setting DEF LoseEnclave, crossing, results, FilesExact
<1>22. CASE UNCHANGED vars
    BY <1>22, Setting DEF vars, FilesExact
<1> QED
    BY <1>1, <1>2, <1>3, <1>4, <1>5, <1>6, <1>7, <1>8, <1>9, <1>10, <1>11, <1>12, <1>13,
       <1>14, <1>15, <1>16, <1>17, <1>18, <1>19, <1>20, <1>21, <1>22 DEF Next, Execute

(* Entries that one more sample, with its ocalls, adds. *)
LEMMA Times ==
    ASSUME NEW o, o = 0 \/ o = 1 \/ o = 2 \/ o = 3, NEW n \in Int
    PROVE  /\ o * n \in Int /\ o * (n + 1) = o * n + o
           /\ o * (-1 + 1) = 0
    OBVIOUS

(* The next benchmark finds the entries of all before it. *)
LEMMA NextBase ==
    ASSUME TypeInv, Placed, [Next]_vars, pc = "bench", NextJob, side' = "app",
           enters' = enters, enclave' = enclave,
           \/ ~ IsApp
           \/ Main[job].timer = "hello" /\ enters = Before[job] + 2
           \/ Main[job].timer = "app" /\ enters = Before[job]
           \/ Main[job].timer = "ecall" /\ enters = Before[job] + Calls
           \/ Main[job].timer = "enclave" /\ enters = Before[job] + 1 + Main[job].ocalls * Calls
    PROVE  Counted'
<1>1. /\ Main' = Main /\ Before' = Before /\ IsApp' = IsApp /\ Len(Main) \in Nat
      /\ Count \in Nat /\ Count >= 1 /\ job \in 1 .. Len(Main)
    BY Setting
<1>2. job' = job + 1 /\ sample' = -1 /\ ocalls' = 0
    BY DEF NextJob
<1>3. CASE job = Len(Main)
  <2>1. pc' = "close"
    BY <1>3 DEF NextJob
  <2> QED
    BY <2>1 DEF Counted
<1>4. CASE job # Len(Main)
  <2>1. pc' = "bench" /\ job \in 1 .. Len(Main) - 1
    BY <1>1, <1>4 DEF NextJob
  <2>2. CASE ~ IsApp
    <3>1. enclave # "live"
      BY <2>2 DEF Placed
    <3> QED
      BY <2>1, <3>1 DEF Counted
  <2>3. CASE IsApp
    <3>1. enters' = Before'[job']
      BY <1>1, <1>2, <2>1, <2>3, Costs DEF TypeInv
    <3>2. ~ AllTaken'
      BY <1>1, <1>2 DEF AllTaken, Count
    <3>3. ocalls' <= Job'.ocalls
      <4>1. job' \in 1 .. Len(Main) /\ Job' = Main[job']
        BY <1>1, <1>2, <2>1 DEF Job
      <4>2. Main[job'].ocalls \in {0, 1, 2, 3}
        BY <4>1, Jobs DEF TypeInv
      <4> QED
        BY <1>2, <4>1, <4>2
    <3>4. Before'[job'] \in Nat
      BY <1>1, <1>2, <2>1, <2>3, Costs DEF TypeInv
    <3>5. enters' = Before'[job'] + sample' + 1
      BY ONLY <1>2, <3>1, <3>4
    <3>6. sample' = -1 /\ ocalls' = 0 /\ side' = "app" /\ pc' = "bench"
      BY <1>2, <2>1
    <3> QED
      BY ONLY <3>1, <3>2, <3>3, <3>5, <3>6 DEF Counted
  <2> QED
    BY <2>2, <2>3
<1> QED
    BY <1>3, <1>4

(* A benchmark leaves the counter where the next one starts, and a sample moves it by
   what a sample costs. *)
LEMMA NextCounted ==
    ASSUME TypeInv, Placed, Balanced, Counted, [Next]_vars
    PROVE  Counted'
<1>1. CASE CreateEnclave
    BY <1>1, Setting DEF CreateEnclave, crossing, results, TypeInv, Placed, Counted, Job,
           AllTaken
<1>2. CASE EnclaveCreated
    BY <1>2, Setting DEF EnclaveCreated, crossing, results, TypeInv, Placed, Counted, Job,
           AllTaken
<1>3. CASE CreateFails
    BY <1>3, Setting DEF CreateFails, Exit, crossing, results, TypeInv, Placed, Counted,
           Job, AllTaken
<1>4. CASE OpenResults
  <2>1. pc = "open" /\ job = 1 /\ (IsApp <=> enclave = "live")
    BY <1>4 DEF OpenResults, Placed
  <2>2. /\ pc' = "bench" \/ pc' = "destroy"
        /\ UNCHANGED <<job, sample, ocalls, side, enters, enclave>>
    BY <1>4 DEF OpenResults, crossing
  <2>3. CASE pc' = "bench" /\ IsApp
    <3>1. Job.timer = "hello" /\ Before[job] = 1 /\ enters = 1
      BY <2>1, <2>3, Costs DEF Job, Counted, TypeInv
    <3>2. sample = -1 /\ ocalls = 0 /\ side = "app" /\ ~ AllTaken /\ 0 <= Job.ocalls
      <4>1. 1 \in 1 .. Len(Main)
        BY Setting
      <4>2. Job.ocalls \in {0, 1, 2, 3}
        BY <2>1, <4>1, Jobs DEF Job, TypeInv
      <4> QED
        BY <2>1, <4>2, Setting DEF Placed, AllTaken
    <3>3. /\ Job' = Job /\ Before' = Before /\ (AllTaken' <=> AllTaken)
      BY <2>2, Setting DEF Job, AllTaken, Count
    <3> QED
      BY <2>1, <2>2, <2>3, <3>1, <3>2, <3>3 DEF Counted
  <2>4. CASE ~ (pc' = "bench" /\ IsApp)
    <3>1. pc' = "bench" => enclave' # "live"
      BY <2>1, <2>2, <2>4
    <3> QED
      BY <2>2, <3>1 DEF Counted
  <2> QED
    BY <2>3, <2>4
<1>5. CASE CloseResults
    BY <1>5, Setting DEF CloseResults, crossing, results, TypeInv, Placed, Counted, Job,
           AllTaken
<1>6. CASE Destroy
    BY <1>6, Setting DEF Destroy, crossing, results, TypeInv, Placed, Counted, Job,
           AllTaken
<1>7. CASE SampleInApp
    BY <1>7, Setting DEF SampleInApp, Store, Running, AllTaken, crossing, results,
           TypeInv, Placed, Counted, Job
<1>8. CASE EcallEnter
  <2>1. /\ pc = "bench" /\ Job.timer \in {"hello", "ecall", "enclave", "stats"}
        /\ side = "app" /\ enclave = "live"
        /\ Job.timer = "ecall" => ~AllTaken
        /\ Job.timer \in {"hello", "enclave"} => sample = -1 /\ ocalls = 0
    BY <1>8 DEF EcallEnter, Running
  <2>2. /\ side' = "enclave" /\ enters' = enters + 1
        /\ UNCHANGED <<pc, job, sample, ocalls, enclave>>
    BY <1>8 DEF EcallEnter
  <2>3. /\ Main' = Main /\ Before' = Before /\ Job' = Job /\ (AllTaken' <=> AllTaken)
        /\ Count \in Nat /\ Before[job] \in Nat /\ sample \in Int
    BY <2>1, <2>2, Setting DEF Job, AllTaken, Count, TypeInv
  <2>4. CASE Job.timer = "ecall"
    <3>1. enters = Before[job] + sample + 1
      BY <2>1, <2>4 DEF Counted
    <3>2. enters' = Before[job] + sample + 2
      BY ONLY <2>2, <2>3, <3>1
    <3> QED
      BY <2>1, <2>2, <2>3, <2>4, <3>2 DEF Counted
  <2>5. CASE Job.timer = "stats"
    <3>1. enters' = Before[job] + 1
      BY <2>1, <2>2, <2>5 DEF Counted
    <3> QED
      BY <2>1, <2>2, <2>3, <2>5, <3>1 DEF Counted
  <2>6. CASE Job.timer \in {"hello", "enclave"}
    <3>1. ~ AllTaken /\ sample = -1 /\ ocalls = 0 /\ enters = Before[job]
      BY <2>1, <2>3, <2>6 DEF Counted, AllTaken
    <3>2. Job.ocalls * (sample + 1) = 0 /\ ocalls <= Job.ocalls
      BY <2>1, <3>1, Setting, Times
    <3>3. enters' = Before[job] + 1 + Job.ocalls * (sample + 1) + ocalls
      BY <2>2, <2>3, <3>1, <3>2
    <3>4. Job'.ocalls * (sample' + 1) = Job.ocalls * (sample + 1)
      BY <2>2, <2>3
    <3> QED
      BY <2>1, <2>2, <2>3, <2>6, <3>1, <3>2, <3>3, <3>4 DEF Counted
  <2> QED
    BY <2>1, <2>4, <2>5, <2>6
<1>9. CASE Ocall
    BY <1>9, Setting DEF Ocall, Running, AllTaken, crossing, results, TypeInv, Placed,
           Counted, Job
<1>10. CASE OcallReturn
  <2>1. pc = "bench" /\ Job.timer \in {"hello", "enclave"} /\ ocalls < Job.ocalls
    BY <1>10 DEF OcallReturn, Placed, TypeInv
  <2>2. /\ side' = "enclave" /\ enters' = enters + 1 /\ ocalls' = ocalls + 1
        /\ UNCHANGED <<pc, job, sample, enclave>>
    BY <1>10 DEF OcallReturn
  <2>3. Main' = Main /\ Before' = Before /\ Job' = Job /\ (AllTaken' <=> AllTaken)
    BY <2>2, Setting DEF Job, AllTaken, Count
  <2>4. ocalls \in Nat /\ Job.ocalls \in Nat /\ Before[job] \in Nat /\ sample \in Int
    BY <2>1, Setting DEF TypeInv
  <2>5. CASE enclave # "live"
    BY <2>1, <2>2, <2>5 DEF Counted
  <2>6. CASE enclave = "live"
    <3> DEFINE held == Job.ocalls * (sample + 1)
    <3>1. held \in Int
      BY <2>1, <2>4, Setting, Times
    <3>2. enters = Before[job] + 1 + held + ocalls /\ (AllTaken => ocalls = 0)
      BY <1>10, <2>1, <2>6 DEF Counted, OcallReturn
    <3>3. ~ AllTaken
      BY <1>10, <2>1 DEF Placed, OcallReturn, AllTaken
    <3> HIDE DEF held
    <3>4. enters' = Before[job] + 1 + held + ocalls' /\ ocalls' <= Job.ocalls
      BY ONLY <2>1, <2>2, <2>4, <3>1, <3>2
    <3>5. Job'.ocalls * (sample' + 1) = held
      BY <2>2, <2>3 DEF held
    <3> QED
      BY <2>1, <2>2, <2>3, <3>3, <3>4, <3>5 DEF Counted
  <2> QED
    BY <2>5, <2>6
<1>11. CASE SampleInEnclave
  <2>1. /\ pc = "bench" /\ Job.timer = "enclave" /\ side = "enclave" /\ ocalls = Job.ocalls
        /\ ~ AllTaken
    BY <1>11 DEF SampleInEnclave, Running
  <2>2. /\ sample' = sample + 1 /\ ocalls' = 0
        /\ UNCHANGED <<pc, job, side, enters, enclave>>
    BY <1>11 DEF SampleInEnclave, Store, crossing
  <2>3. Main' = Main /\ Before' = Before /\ Job' = Job
    BY <2>2, Setting DEF Job
  <2>4. Job.ocalls \in Nat /\ Before[job] \in Nat /\ sample \in Int
    BY <2>1, Setting DEF TypeInv
  <2>5. CASE enclave # "live"
    BY <2>1, <2>2, <2>5 DEF Counted
  <2>6. CASE enclave = "live"
    <3> DEFINE held == Job.ocalls * (sample + 1)
               more == Job.ocalls * (sample + 1 + 1)
    <3>1. held \in Int /\ more = held + Job.ocalls
      BY <2>1, <2>4, Setting, Times
    <3>2. enters = Before[job] + 1 + held + ocalls
      BY <2>1, <2>6 DEF Counted
    <3> HIDE DEF held, more
    <3>3. enters' = Before[job] + 1 + more + ocalls' /\ ocalls' <= Job.ocalls
      BY ONLY <2>1, <2>2, <2>4, <3>1, <3>2
    <3>4. Job'.ocalls * (sample' + 1) = more
      BY <2>2, <2>3 DEF more
    <3> QED
      BY <2>1, <2>2, <2>3, <3>3, <3>4 DEF Counted
  <2> QED
    BY <2>5, <2>6
<1>12. CASE HelloReturn
  <2>1. /\ pc = "bench" /\ Job.timer = "hello" /\ side = "enclave" /\ ocalls = Job.ocalls
        /\ sample = -1 /\ Job.ocalls = 1 /\ enclave = "live"
    BY <1>12, Setting DEF HelloReturn, Running, Leave, Placed
  <2>2. enters = Before[job] + 1 + Job.ocalls * (sample + 1) + ocalls /\ Before[job] \in Nat
    BY <2>1, Setting DEF Counted
  <2>3. Job.ocalls * (sample + 1) = 0
    BY <2>1, Times
  <2>4. enters = Before[job] + 2
    BY <2>1, <2>2, <2>3
  <2>5. enters' = enters /\ enclave' = enclave /\ side' = "app" /\ NextJob
    BY <1>12 DEF HelloReturn, Leave
  <2> QED
    BY <1>12, <2>1, <2>4, <2>5, NextBase DEF Job
<1>13. CASE EcallReturn
  <2>1. pc = "bench" /\ Job.timer = "ecall" /\ side = "enclave" /\ enclave = "live"
    BY <1>13 DEF EcallReturn, Running, Leave, Placed
  <2>2. enters = Before[job] + sample + 2 /\ Before[job] \in Nat /\ sample \in Int
    BY <2>1, Setting DEF Counted, TypeInv
  <2>3. /\ sample' = sample + 1 /\ side' = "app"
        /\ UNCHANGED <<pc, job, enters, enclave>>
    BY <1>13 DEF EcallReturn, Leave, Store
  <2>4. Main' = Main /\ Before' = Before /\ Job' = Job
    BY <2>3, Setting DEF Job
  <2>5. enters' = Before[job] + sample' + 1
    BY ONLY <2>2, <2>3
  <2>6. Job'.timer = "ecall" /\ side' = "app" /\ pc' = "bench" /\ Before'[job'] = Before[job]
    BY ONLY <2>1, <2>3, <2>4
  <2> QED
    BY ONLY <2>5, <2>6, <2>3 DEF Counted
<1>14. CASE EnclaveReturn
  <2>1. /\ pc = "bench" /\ Job.timer = "enclave" /\ side = "enclave" /\ AllTaken
        /\ side' = "app" /\ UNCHANGED <<program, pc, job, sample, ocalls, enters, enclave>>
    BY <1>14 DEF EnclaveReturn, Running, Leave
  <2>2. Before' = Before /\ Job' = Job /\ AllTaken'
    BY <2>1, Setting DEF Job, AllTaken, Count
  <2>3. CASE enclave # "live"
    BY <2>1, <2>3 DEF Counted
  <2>4. CASE enclave = "live"
    <3> DEFINE calls == Job.ocalls * (sample + 1)
    <3>1. enters = Before[job] + 1 + calls + ocalls /\ ocalls = 0 /\ ocalls <= Job.ocalls
      BY <2>1, <2>4 DEF Counted
    <3>2. Before[job] \in Nat /\ calls \in Int
      BY <2>1, Setting DEF Placed, TypeInv
    <3> HIDE DEF calls
    <3>3. enters = Before[job] + 1 + calls
      BY ONLY <3>1, <3>2
    <3>4. enters' = Before'[job'] + 1 + Job'.ocalls * (sample' + 1)
      BY <2>1, <2>2, <3>3 DEF calls
    <3> QED
      BY ONLY <2>1, <2>2, <3>1, <3>4 DEF Counted
  <2> QED
    BY <2>3, <2>4
<1>15. CASE StatsReturn
    BY <1>15, Setting DEF StatsReturn, Running, Leave, NextJob, crossing, results,
           TypeInv, Placed, Counted, Job, AllTaken
<1>16. CASE BenchStats
  <2>1. /\ pc = "bench" /\ Job.timer \in {"app", "ecall", "enclave"} /\ side = "app"
        /\ sample = Count
    BY <1>16 DEF BenchStats, Running, AllTaken
  <2>2. enters' = enters /\ enclave' = enclave /\ side' = "app" /\ NextJob
    BY <1>16, <2>1 DEF BenchStats, crossing
  <2>3. CASE enclave # "live"
    <3>1. pc' \in {"bench", "close"} /\ enclave' # "live"
      BY <2>1, <2>2, <2>3 DEF NextJob
    <3> QED
      BY <3>1 DEF Counted
  <2>4. CASE enclave = "live"
    <3>1. CASE Job.timer = "app"
      <4>1. enters = Before[job]
        BY <2>1, <2>4, <3>1 DEF Counted
      <4> QED
        BY <1>16, <2>1, <2>2, <3>1, <4>1, NextBase DEF Job
    <3>2. CASE Job.timer = "ecall"
      <4>1. enters = Before[job] + Calls
        BY <2>1, <2>4, <3>2, Setting DEF Counted, Calls
      <4> QED
        BY <1>16, <2>1, <2>2, <3>2, <4>1, NextBase DEF Job
    <3>3. CASE Job.timer = "enclave"
      <4>1. enters = Before[job] + 1 + Job.ocalls * Calls
        BY <2>1, <2>4, <3>3 DEF Counted, AllTaken, Calls
      <4> QED
        BY <1>16, <2>1, <2>2, <3>3, <4>1, NextBase DEF Job
    <3> QED
      BY <2>1, <3>1, <3>2, <3>3
  <2> QED
    BY <2>3, <2>4
<1>17. CASE HelloFails
    BY <1>17, Setting DEF HelloFails, Running, NextJob, crossing, results, TypeInv,
           Placed, Counted, Job, AllTaken
<1>18. CASE EcallFails
    BY <1>18, Setting DEF EcallFails, Running, AllTaken, Store, crossing, results,
           TypeInv, Placed, Counted, Job
<1>19. CASE EnclaveFails
    BY <1>19, Setting DEF EnclaveFails, Running, AllTaken, Exit, crossing, results,
           TypeInv, Placed, Counted, Job
<1>20. CASE StatsFails
    BY <1>20, Setting DEF StatsFails, Running, NextJob, crossing, results, TypeInv,
           Placed, Counted, Job, AllTaken
<1>21. CASE LoseEnclave
    BY <1>21, Setting DEF LoseEnclave, crossing, results, TypeInv, Placed, Counted, Job,
           AllTaken
<1>22. CASE UNCHANGED vars
    BY <1>22, Setting DEF vars, TypeInv, Placed, Counted, Job, AllTaken
<1> QED
    BY <1>1, <1>2, <1>3, <1>4, <1>5, <1>6, <1>7, <1>8, <1>9, <1>10, <1>11, <1>12, <1>13,
       <1>14, <1>15, <1>16, <1>17, <1>18, <1>19, <1>20, <1>21, <1>22 DEF Next, Execute

(* The report is what the counters say at the end of the last ecall. *)
LEMMA NextReported ==
    ASSUME TypeInv, Placed, Balanced, Counted, Reported, [Next]_vars
    PROVE  Reported'
<1>1. CASE CreateEnclave
    BY <1>1, Setting DEF CreateEnclave, crossing, results, Reported
<1>2. CASE EnclaveCreated
    BY <1>2, Setting DEF EnclaveCreated, crossing, results, Reported
<1>3. CASE CreateFails
    BY <1>3, Setting DEF CreateFails, Exit, crossing, results, Reported
<1>4. CASE OpenResults
    BY <1>4, Setting DEF OpenResults, crossing, results, Reported
<1>5. CASE CloseResults
    BY <1>5, Setting DEF CloseResults, crossing, results, Reported
<1>6. CASE Destroy
    BY <1>6, Setting DEF Destroy, crossing, results, Reported
<1>7. CASE SampleInApp
    BY <1>7, Setting DEF SampleInApp, Store, Running, AllTaken, crossing, results,
           Reported
<1>8. CASE EcallEnter
    BY <1>8, Setting DEF EcallEnter, Running, AllTaken, crossing, results, Reported
<1>9. CASE Ocall
    BY <1>9, Setting DEF Ocall, Running, AllTaken, crossing, results, Reported
<1>10. CASE OcallReturn
    BY <1>10, Setting DEF OcallReturn, crossing, results, Reported
<1>11. CASE SampleInEnclave
    BY <1>11, Setting DEF SampleInEnclave, Store, Running, AllTaken, crossing, results,
           Reported
<1>12. CASE HelloReturn
    BY <1>12, Setting DEF HelloReturn, Running, Leave, NextJob, crossing, results,
           Reported
<1>13. CASE EcallReturn
    BY <1>13, Setting DEF EcallReturn, Running, Leave, Store, crossing, results, Reported
<1>14. CASE EnclaveReturn
    BY <1>14, Setting DEF EnclaveReturn, Running, AllTaken, Leave, crossing, results,
           Reported
<1>15. CASE StatsReturn
  <2>1. /\ pc = "bench" /\ Job.timer = "stats" /\ side = "enclave" /\ enclave = "live"
    BY <1>15 DEF StatsReturn, Running, Leave, Placed
  <2>2. report' = [eenter |-> enters, eexit |-> exits + 1]
    BY <1>15 DEF StatsReturn
  <2>3. /\ enters = Before[job] + 1 /\ enters = exits + 1
        /\ IsApp /\ program.stats /\ job = Len(Main)
    BY <2>1, Setting DEF Counted, Balanced
  <2>4. report'.eenter = Before[Len(Main)] + 1 /\ report'.eexit = report'.eenter
    BY <2>2, <2>3
  <2> QED
    BY <2>3, <2>4, Setting DEF Reported
<1>16. CASE BenchStats
    BY <1>16, Setting DEF BenchStats, Running, AllTaken, NextJob, Statistics, crossing,
           results, Reported
<1>17. CASE HelloFails
    BY <1>17, Setting DEF HelloFails, Running, NextJob, crossing, results, Reported
<1>18. CASE EcallFails
    BY <1>18, Setting DEF EcallFails, Running, AllTaken, Store, crossing, results,
           Reported
<1>19. CASE EnclaveFails
    BY <1>19, Setting DEF EnclaveFails, Running, AllTaken, Exit, crossing, results,
           Reported
<1>20. CASE StatsFails
    BY <1>20, Setting DEF StatsFails, Running, NextJob, crossing, results, Reported
<1>21. CASE LoseEnclave
    BY <1>21, Setting DEF LoseEnclave, crossing, results, Reported
<1>22. CASE UNCHANGED vars
    BY <1>22, Setting DEF vars, Reported
<1> QED
    BY <1>1, <1>2, <1>3, <1>4, <1>5, <1>6, <1>7, <1>8, <1>9, <1>10, <1>11, <1>12, <1>13,
       <1>14, <1>15, <1>16, <1>17, <1>18, <1>19, <1>20, <1>21, <1>22 DEF Next, Execute

(* Status 0 is given by CloseResults alone, and by a lost enclave. *)
LEMMA NextEnded ==
    ASSUME TypeInv, Placed, Ended, [Next]_vars
    PROVE  Ended'
<1>1. CASE CreateEnclave
    BY <1>1, Setting DEF CreateEnclave, crossing, results, Placed, Ended
<1>2. CASE EnclaveCreated
    BY <1>2, Setting DEF EnclaveCreated, crossing, results, Placed, Ended
<1>3. CASE CreateFails
    BY <1>3, Setting DEF CreateFails, Exit, crossing, results, Placed, Ended
<1>4. CASE OpenResults
    BY <1>4, Setting DEF OpenResults, crossing, results, Placed, Ended
<1>5. CASE CloseResults
    BY <1>5, Setting DEF CloseResults, crossing, results, Placed, Ended
<1>6. CASE Destroy
    BY <1>6, Setting DEF Destroy, crossing, results, Placed, Ended
<1>7. CASE SampleInApp
    BY <1>7, Setting DEF SampleInApp, Store, Running, AllTaken, crossing, results, Placed,
           Ended
<1>8. CASE EcallEnter
    BY <1>8, Setting DEF EcallEnter, Running, AllTaken, crossing, results, Placed, Ended
<1>9. CASE Ocall
    BY <1>9, Setting DEF Ocall, Running, AllTaken, crossing, results, Placed, Ended
<1>10. CASE OcallReturn
    BY <1>10, Setting DEF OcallReturn, crossing, results, Placed, Ended
<1>11. CASE SampleInEnclave
    BY <1>11, Setting DEF SampleInEnclave, Store, Running, AllTaken, crossing, results,
           Placed, Ended
<1>12. CASE HelloReturn
    BY <1>12, Setting DEF HelloReturn, Running, Leave, NextJob, crossing, results, Placed,
           Ended
<1>13. CASE EcallReturn
    BY <1>13, Setting DEF EcallReturn, Running, Leave, Store, crossing, results, Placed,
           Ended
<1>14. CASE EnclaveReturn
    BY <1>14, Setting DEF EnclaveReturn, Running, AllTaken, Leave, crossing, results,
           Placed, Ended
<1>15. CASE StatsReturn
    BY <1>15, Setting DEF StatsReturn, Running, Leave, NextJob, crossing, results, Placed,
           Ended
<1>16. CASE BenchStats
    BY <1>16, Setting DEF BenchStats, Running, AllTaken, NextJob, Statistics, crossing,
           results, Placed, Ended
<1>17. CASE HelloFails
    BY <1>17, Setting DEF HelloFails, Running, NextJob, crossing, results, Placed, Ended
<1>18. CASE EcallFails
    BY <1>18, Setting DEF EcallFails, Running, AllTaken, Store, crossing, results, Placed,
           Ended
<1>19. CASE EnclaveFails
    BY <1>19, Setting DEF EnclaveFails, Running, AllTaken, Exit, crossing, results,
           Placed, Ended
<1>20. CASE StatsFails
    BY <1>20, Setting DEF StatsFails, Running, NextJob, crossing, results, Placed, Ended
<1>21. CASE LoseEnclave
    BY <1>21, Setting DEF LoseEnclave, crossing, results, Placed, Ended
<1>22. CASE UNCHANGED vars
    BY <1>22, Setting DEF vars, Placed, Ended
<1> QED
    BY <1>1, <1>2, <1>3, <1>4, <1>5, <1>6, <1>7, <1>8, <1>9, <1>10, <1>11, <1>12, <1>13,
       <1>14, <1>15, <1>16, <1>17, <1>18, <1>19, <1>20, <1>21, <1>22 DEF Next, Execute

(* A step that prints nothing and keeps the job. *)
LEMMA LinesSame ==
    ASSUME Lines, TypeInv, Placed, [Next]_vars, UNCHANGED <<rows, files, job>>
    PROVE  Lines'
<1>1. Main' = Main /\ Timed' = Timed
    BY Setting
<1>2. \A b : Printed(b)' <=> Printed(b)
    BY <1>1 DEF Printed
<1> QED
    BY <1>1, <1>2 DEF Lines

(* A step that prints nothing and passes a job that is not timed. *)
LEMMA LinesStay ==
    ASSUME Lines, TypeInv, Placed, [Next]_vars, UNCHANGED <<rows, files>>,
           job' = job + 1, job \notin Timed
    PROVE  Lines'
<1>1. Main' = Main /\ Timed' = Timed
    BY Setting
<1>2. \A b : Printed(b)' <=> Printed(b)
    BY <1>1 DEF Printed
<1>3. \A b \in Timed : b \in Nat
  <2>1. Len(Main) \in Nat /\ DOMAIN Main = 1 .. Len(Main)
    BY Setting DEF TypeInv
  <2> QED
    BY <2>1 DEF Timed
<1>4. job \in Nat
    BY Setting DEF TypeInv
<1>5. \A b \in Timed : (b < job' <=> b < job)
    BY <1>3, <1>4
<1> QED
    BY <1>1, <1>2, <1>5 DEF Lines

(* What is used of the timed benchmarks. *)
LEMMA TimedJobs ==
    ASSUME TypeInv
    PROVE  /\ \A b \in Timed : b \in Nat /\ Main[b].name \notin {"eenter", "eexit"}
           /\ \A a, b \in Timed : Main[a].name = Main[b].name => a = b
           /\ rows \in Seq(RowNames) /\ Len(rows) \in Nat /\ DOMAIN rows = 1 .. Len(rows)
<1>1. program \in Programs /\ rows \in Seq(RowNames)
    BY DEF TypeInv
<1>2. Len(Main) \in Nat
    BY <1>1, Jobs
<1>3. \A b \in Timed : b \in 1 .. Len(Main)
    BY DEF Timed
<1>4. Len(rows) \in Nat /\ DOMAIN rows = 1 .. Len(rows)
    BY <1>1, LenProperties
<1> QED
    BY <1>1, <1>2, <1>3, <1>4, Jobs

(* The report is no benchmark's line. *)
LEMMA LinesReport ==
    ASSUME Lines, TypeInv, Placed, [Next]_vars, files' = files,
           rows' = rows \o <<"eenter", "eexit">>, job' = job + 1, job \notin Timed
    PROVE  Lines'
<1>1. Main' = Main /\ Timed' = Timed
    BY Setting
<1> DEFINE n == Len(rows)
<1>2. /\ n \in Nat /\ DOMAIN rows = 1 .. n /\ DOMAIN rows' = 1 .. n + 2
      /\ \A i \in 1 .. n : rows'[i] = rows[i]
      /\ rows'[n + 1] = "eenter" /\ rows'[n + 2] = "eexit"
  <2>1. rows \in Seq(RowNames)
    BY DEF TypeInv
  <2>2. rows' \in Seq(RowNames) /\ Len(rows') = n + 2
    BY <2>1, TwoLines
  <2> QED
    BY <2>1, <2>2, TwoLines, LenProperties
<1> HIDE DEF n
<1>3. \A i \in 1 .. n + 2 : i \in 1 .. n \/ i = n + 1 \/ i = n + 2
    BY ONLY <1>2
<1>4. job \in Nat /\ \A b \in Timed : b \in Nat /\ (b < job + 1 => b < job)
  <2>1. job \in Nat /\ \A b \in Timed : b \in Nat /\ b # job
    BY Setting, TimedJobs DEF TypeInv
  <2> QED
    BY ONLY <2>1
<1>5. ASSUME NEW i \in DOMAIN rows', rows'[i] \notin {"eenter", "eexit"}
      PROVE  /\ \E b \in Timed : b < job + 1 /\ rows'[i] = Main[b].name
             /\ \E f \in files : f.name = rows'[i]
  <2>1. i \in DOMAIN rows /\ rows'[i] = rows[i]
    BY <1>2, <1>3, <1>5
  <2>2. \E b \in Timed : b < job /\ rows[i] = Main[b].name
    BY <1>5, <2>1 DEF Lines
  <2>3. \E b \in Timed : b < job + 1 /\ rows[i] = Main[b].name
    BY <1>4, <2>2
  <2> QED
    BY <1>5, <2>1, <2>3 DEF Lines
<1>6. ASSUME NEW b \in Timed, b < job + 1
      PROVE  \E i \in DOMAIN rows' : rows'[i] = Main[b].name
  <2>1. PICK i \in DOMAIN rows : rows[i] = Main[b].name
    BY <1>4, <1>6 DEF Lines, Printed
  <2>2. i \in DOMAIN rows' /\ rows'[i] = rows[i]
    BY <1>2
  <2> QED
    BY <2>1, <2>2
<1>7. ASSUME NEW i \in DOMAIN rows', NEW k \in DOMAIN rows', NEW a \in Timed, NEW b \in Timed,
             rows'[i] = Main[a].name, rows'[k] = Main[b].name
      PROVE  i < k <=> a < b
  <2>1. Main[a].name \notin {"eenter", "eexit"} /\ Main[b].name \notin {"eenter", "eexit"}
    BY TimedJobs
  <2>2. i \in 1 .. n /\ k \in 1 .. n
    BY <1>2, <1>3, <1>7, <2>1
  <2>3. rows'[i] = rows[i] /\ rows'[k] = rows[k] /\ i \in DOMAIN rows /\ k \in DOMAIN rows
    BY <1>2, <2>2
  <2> QED
    BY <1>7, <2>3 DEF Lines
<1> QED
  <2>1. \A i \in DOMAIN rows' :
            rows'[i] \notin {"eenter", "eexit"} =>
                /\ \E b \in Timed' : b < job' /\ rows'[i] = Main'[b].name
                /\ \E f \in files' : f.name = rows'[i]
    BY ONLY <1>1, <1>5, job' = job + 1, files' = files
  <2>2. \A b \in Timed' : b < job' => \E i \in DOMAIN rows' : rows'[i] = Main'[b].name
    BY ONLY <1>1, <1>6, job' = job + 1
  <2>3. \A i, k \in DOMAIN rows', a, b \in Timed' :
            rows'[i] = Main'[a].name /\ rows'[k] = Main'[b].name => (i < k <=> a < b)
    BY ONLY <1>1, <1>7
  <2> QED
    BY ONLY <2>1, <2>2, <2>3 DEF Lines, Printed

(* One line more, that of the benchmark whose file was written. *)
LEMMA LineMore ==
    ASSUME Lines, TypeInv, Placed, [Next]_vars, pc = "bench", NEW taken,
           files' = files \union {[name |-> Job.name, samples |-> taken]},
           rows' = Append(rows, Job.name), job' = job + 1, job \in Timed
    PROVE  Lines'
<1>1. Main' = Main /\ Timed' = Timed
    BY Setting
<1> DEFINE n == Len(rows)
<1>2. /\ n \in Nat /\ DOMAIN rows = 1 .. n /\ DOMAIN rows' = 1 .. n + 1
      /\ \A i \in 1 .. n : rows'[i] = rows[i]
      /\ rows'[n + 1] = Main[job].name
  <2>1. rows \in Seq(RowNames) /\ Job.name \in RowNames
    BY Setting DEF TypeInv
  <2>2. /\ rows' \in Seq(RowNames) /\ Len(rows') = n + 1
        /\ \A i \in 1 .. n : rows'[i] = rows[i]
        /\ rows'[n + 1] = Job.name
    BY <2>1, AppendProperties
  <2> QED
    BY <2>1, <2>2, LenProperties DEF Job
<1> HIDE DEF n
<1>3. \A i \in 1 .. n + 1 : i \in 1 .. n \/ i = n + 1
    BY ONLY <1>2
<1>4. job \in Nat /\ \A b \in Timed : b \in Nat /\ (b < job + 1 <=> b < job \/ b = job)
  <2>1. job \in Nat /\ \A b \in Timed : b \in Nat
    BY Setting, TimedJobs DEF TypeInv
  <2> QED
    BY ONLY <2>1
<1>5. ASSUME NEW i \in DOMAIN rows', rows'[i] \notin {"eenter", "eexit"}
      PROVE  /\ \E b \in Timed : b < job + 1 /\ rows'[i] = Main[b].name
             /\ \E f \in files' : f.name = rows'[i]
  <2>1. CASE i \in 1 .. n
    <3>1. i \in DOMAIN rows /\ rows'[i] = rows[i]
      BY <1>2, <2>1
    <3>2. \E b \in Timed : b < job /\ rows[i] = Main[b].name
      BY <1>5, <3>1 DEF Lines
    <3>3. \E b \in Timed : b < job + 1 /\ rows[i] = Main[b].name
      BY <1>4, <3>2
    <3>4. \E f \in files : f.name = rows[i]
      BY <1>5, <3>1 DEF Lines
    <3> QED
      BY <3>1, <3>3, <3>4
  <2>2. CASE i = n + 1
    <3>1. rows'[i] = Main[job].name
      BY <1>2, <2>2
    <3> DEFINE f == [name |-> Job.name, samples |-> taken]
    <3>2. f \in files' /\ f.name = rows'[i]
      BY <3>1 DEF Job
    <3> HIDE DEF f
    <3> QED
      BY <1>4, <3>1, <3>2
  <2> QED
    BY <1>2, <1>3, <2>1, <2>2
<1>6. ASSUME NEW b \in Timed, b < job + 1
      PROVE  \E i \in DOMAIN rows' : rows'[i] = Main[b].name
  <2>1. CASE b < job
    <3>1. PICK i \in DOMAIN rows : rows[i] = Main[b].name
      BY <2>1 DEF Lines, Printed
    <3>2. i \in DOMAIN rows' /\ rows'[i] = rows[i]
      BY <1>2
    <3> QED
      BY <3>1, <3>2
  <2>2. CASE b = job
    <3>1. n + 1 \in DOMAIN rows'
      BY ONLY <1>2
    <3> QED
      BY <1>2, <2>2, <3>1
  <2> QED
    BY <1>4, <1>6, <2>1, <2>2
<1>7. ASSUME NEW i \in 1 .. n, NEW a \in Timed, rows[i] = Main[a].name
      PROVE  a < job
  <2>1. rows[i] \notin {"eenter", "eexit"} /\ i \in DOMAIN rows
    BY <1>2, <1>7, TimedJobs
  <2>2. PICK b \in Timed : b < job /\ rows[i] = Main[b].name
    BY <2>1 DEF Lines
  <2>3. a = b
    BY <1>7, <2>2, TimedJobs
  <2> QED
    BY <2>2, <2>3
<1>8. ASSUME NEW a \in Timed, Main[job].name = Main[a].name
      PROVE  a = job
    BY <1>8, TimedJobs
<1>9. ASSUME NEW i \in DOMAIN rows', NEW k \in DOMAIN rows', NEW a \in Timed, NEW b \in Timed,
             rows'[i] = Main[a].name, rows'[k] = Main[b].name
      PROVE  i < k <=> a < b
  <2>0. a \in Nat /\ b \in Nat
    BY <1>4
  <2>1. CASE i \in 1 .. n /\ k \in 1 .. n
    <3>1. rows[i] = Main[a].name /\ rows[k] = Main[b].name /\ i \in DOMAIN rows /\ k \in DOMAIN rows
      BY <1>2, <1>9, <2>1
    <3> QED
      BY <3>1 DEF Lines
  <2>2. CASE i \in 1 .. n /\ k = n + 1
    <3>1. a < job /\ b = job
      BY <1>2, <1>7, <1>8, <1>9, <2>2
    <3> QED
      BY ONLY <1>2, <1>4, <2>0, <2>2, <3>1
  <2>3. CASE i = n + 1 /\ k \in 1 .. n
    <3>1. b < job /\ a = job
      BY <1>2, <1>7, <1>8, <1>9, <2>3
    <3> QED
      BY ONLY <1>2, <1>4, <2>0, <2>3, <3>1
  <2>4. CASE i = n + 1 /\ k = n + 1
    <3>1. a = job /\ b = job
      BY <1>2, <1>8, <1>9, <2>4
    <3> QED
      BY ONLY <1>2, <1>4, <2>4, <3>1
  <2> QED
    BY <1>2, <1>3, <2>1, <2>2, <2>3, <2>4
<1> QED
  <2>1. \A i \in DOMAIN rows' :
            rows'[i] \notin {"eenter", "eexit"} =>
                /\ \E b \in Timed' : b < job' /\ rows'[i] = Main'[b].name
                /\ \E f \in files' : f.name = rows'[i]
    BY ONLY <1>1, <1>5, job' = job + 1
  <2>2. \A b \in Timed' : b < job' => \E i \in DOMAIN rows' : rows'[i] = Main'[b].name
    BY ONLY <1>1, <1>6, job' = job + 1
  <2>3. \A i, k \in DOMAIN rows', a, b \in Timed' :
            rows'[i] = Main'[a].name /\ rows'[k] = Main'[b].name => (i < k <=> a < b)
    BY ONLY <1>1, <1>9
  <2> QED
    BY ONLY <2>1, <2>2, <2>3 DEF Lines, Printed

(* bench_stats prints the line of the benchmark that ends, after all lines before. *)
LEMMA NextLines ==
    ASSUME TypeInv, Placed, Lines, [Next]_vars
    PROVE  Lines'
<1>1. CASE CreateEnclave
  <2>1. UNCHANGED <<rows, files, job>>
    BY <1>1 DEF CreateEnclave, results
  <2> QED
    BY <2>1, LinesSame
<1>2. CASE EnclaveCreated
  <2>1. UNCHANGED <<rows, files, job>>
    BY <1>2 DEF EnclaveCreated, results
  <2> QED
    BY <2>1, LinesSame
<1>3. CASE CreateFails
  <2>1. UNCHANGED <<rows, files, job>>
    BY <1>3 DEF CreateFails, results
  <2> QED
    BY <2>1, LinesSame
<1>4. CASE OpenResults
  <2>1. UNCHANGED <<rows, files, job>>
    BY <1>4 DEF OpenResults, results
  <2> QED
    BY <2>1, LinesSame
<1>5. CASE CloseResults
  <2>1. UNCHANGED <<rows, files, job>>
    BY <1>5 DEF CloseResults, results
  <2> QED
    BY <2>1, LinesSame
<1>6. CASE Destroy
  <2>1. UNCHANGED <<rows, files, job>>
    BY <1>6 DEF Destroy, results
  <2> QED
    BY <2>1, LinesSame
<1>7. CASE SampleInApp
  <2>1. UNCHANGED <<rows, files, job>>
    BY <1>7 DEF SampleInApp, Store, results
  <2> QED
    BY <2>1, LinesSame
<1>8. CASE EcallEnter
  <2>1. UNCHANGED <<rows, files, job>>
    BY <1>8 DEF EcallEnter, results
  <2> QED
    BY <2>1, LinesSame
<1>9. CASE Ocall
  <2>1. UNCHANGED <<rows, files, job>>
    BY <1>9 DEF Ocall, results
  <2> QED
    BY <2>1, LinesSame
<1>10. CASE OcallReturn
  <2>1. UNCHANGED <<rows, files, job>>
    BY <1>10 DEF OcallReturn, results
  <2> QED
    BY <2>1, LinesSame
<1>11. CASE SampleInEnclave
  <2>1. UNCHANGED <<rows, files, job>>
    BY <1>11 DEF SampleInEnclave, Store, results
  <2> QED
    BY <2>1, LinesSame
<1>12. CASE HelloReturn
  <2>1. pc = "bench" /\ Job.timer = "hello" /\ UNCHANGED <<rows, files>> /\ job' = job + 1
    BY <1>12 DEF HelloReturn, Running, NextJob, results
  <2>2. job \notin Timed
    BY <2>1 DEF Timed, Job
  <2> QED
    BY <2>1, <2>2, LinesStay
<1>13. CASE EcallReturn
  <2>1. UNCHANGED <<rows, files, job>>
    BY <1>13 DEF EcallReturn, Store, results
  <2> QED
    BY <2>1, LinesSame
<1>14. CASE EnclaveReturn
  <2>1. UNCHANGED <<rows, files, job>>
    BY <1>14 DEF EnclaveReturn, results
  <2> QED
    BY <2>1, LinesSame
<1>15. CASE StatsReturn
  <2>1. /\ Job.timer = "stats" /\ files' = files /\ job' = job + 1
        /\ rows' = rows \o <<"eenter", "eexit">>
    BY <1>15 DEF StatsReturn, Running, NextJob
  <2>2. job \notin Timed
    BY <2>1 DEF Timed, Job
  <2> QED
    BY <2>1, <2>2, LinesReport
<1>16. CASE BenchStats
  <2>1. /\ pc = "bench" /\ Job.timer \in {"app", "ecall", "enclave"} /\ job' = job + 1
        /\ rows' = Append(rows, Job.name)
        /\ files' = files \union {[name |-> Job.name, samples |-> Statistics(all_cycles[Array])]}
    BY <1>16 DEF BenchStats, Running, NextJob
  <2>2. job \in Timed
    BY <2>1, Setting DEF Timed, Job
  <2> QED
    BY <2>1, <2>2, LineMore
<1>17. CASE HelloFails
  <2>1. pc = "bench" /\ Job.timer = "hello" /\ UNCHANGED <<rows, files>> /\ job' = job + 1
    BY <1>17 DEF HelloFails, Running, NextJob, results
  <2>2. job \notin Timed
    BY <2>1 DEF Timed, Job
  <2> QED
    BY <2>1, <2>2, LinesStay
<1>18. CASE EcallFails
  <2>1. UNCHANGED <<rows, files, job>>
    BY <1>18 DEF EcallFails, Store, results
  <2> QED
    BY <2>1, LinesSame
<1>19. CASE EnclaveFails
  <2>1. UNCHANGED <<rows, files, job>>
    BY <1>19 DEF EnclaveFails, results
  <2> QED
    BY <2>1, LinesSame
<1>20. CASE StatsFails
  <2>1. /\ Job.timer = "stats" /\ files' = files /\ job' = job + 1
        /\ rows' = rows \o <<"eenter", "eexit">>
    BY <1>20 DEF StatsFails, Running, NextJob
  <2>2. job \notin Timed
    BY <2>1 DEF Timed, Job
  <2> QED
    BY <2>1, <2>2, LinesReport
<1>21. CASE LoseEnclave
  <2>1. UNCHANGED <<rows, files, job>>
    BY <1>21 DEF LoseEnclave, results
  <2> QED
    BY <2>1, LinesSame
<1>22. CASE UNCHANGED vars
  <2>1. UNCHANGED <<rows, files, job>>
    BY <1>22 DEF vars
  <2> QED
    BY <2>1, LinesSame
<1> QED
    BY <1>1, <1>2, <1>3, <1>4, <1>5, <1>6, <1>7, <1>8, <1>9, <1>10, <1>11, <1>12, <1>13,
       <1>14, <1>15, <1>16, <1>17, <1>18, <1>19, <1>20, <1>21, <1>22 DEF Next, Execute

(* Nothing is counted, stored or printed at first. *)
LEMMA InitIInv == Init => IInv
<1> SUFFICES ASSUME Init PROVE IInv
    OBVIOUS
<1>1. program \in Programs /\ Len(Main) \in Nat /\ Len(Main) >= 3 /\ Count \in Nat
    BY Jobs, TimesAssumption DEF Init, Count
<1>2. /\ job = 1 /\ sample = -1 /\ ocalls = 0 /\ side = "app" /\ enclave = "none"
      /\ enters = 0 /\ exits = 0 /\ files = {} /\ rows = <<>> /\ status = -2
      /\ report.eenter = 0
    BY DEF Init
<1>8. \/ pc = "create" /\ IsApp
      \/ pc = "open" /\ ~ IsApp
  <2>1. pc = IF program.main = "App" THEN "create" ELSE "open"
    BY DEF Init
  <2>2. CASE program.main = "App"
    BY ONLY <2>1, <2>2 DEF IsApp
  <2>3. CASE program.main # "App"
    BY ONLY <2>1, <2>3 DEF IsApp
  <2> QED
    BY <2>2, <2>3
<1>3. /\ DOMAIN all_cycles = {"app", "enclave"}
      /\ \A array \in {"app", "enclave"} : DOMAIN all_cycles[array] = 0 .. Count - 1
    BY DEF Init
<1>4. TypeInv
  <2>1. rows \in Seq(RowNames)
    BY <1>2
  <2> QED
    BY <1>1, <1>2, <1>3, <1>8, <2>1 DEF TypeInv
<1>5. Placed /\ Balanced /\ Counted
    BY <1>2, <1>8 DEF Placed, Balanced, Counted
<1>6. Reported /\ Stored /\ FilesExact /\ Ended
    BY <1>2, <1>8 DEF Reported, Stored, FilesExact, Ended
<1>7. Lines
  <2>1. DOMAIN rows = {}
    BY <1>2
  <2>2. \A b \in Timed : ~ (b < job)
    BY <1>1, <1>2 DEF Timed
  <2> QED
    BY <2>1, <2>2 DEF Lines
<1> QED
    BY <1>4, <1>5, <1>6, <1>7 DEF IInv

(* No step breaks the invariant. *)
LEMMA NextIInv == IInv /\ [Next]_vars => IInv'
    BY NextType, NextPlaced, NextBalanced, NextCounted, NextReported, NextStored, NextFiles,
       NextLines, NextEnded DEF IInv

(* In every state the crossings, the samples, the files and the lines are those of the
   benchmarks that are over and of the part of the present one that is (App.cpp). *)
THEOREM InvHolds == Spec => []IInv
    BY InitIInv, NextIInv, PTL DEF Spec

-----------------------------------------------------------------------------
(* A complete run of any build with EENTER_EEXIT_STATS reports exactly what its plan
   costs, as many entries as exits, for any number of warm-ups and samples
   (App.cpp, bench_main; README of the benchmark). *)
THEOREM ReportIsExact == Spec => []ReportExact
<1>1. IInv => ReportExact
  <2> SUFFICES ASSUME IInv, program.stats, report.eenter # 0 PROVE ReportExact
    BY DEF ReportExact
  <2>1. /\ IsApp /\ report.eenter = Before[Len(Main)] + 1 /\ report.eexit = report.eenter
        /\ program \in Programs
    BY DEF IInv, Reported, TypeInv
  <2>2. Count \in Nat /\ Calls = Count + 1
    BY TimesAssumption DEF Count, Calls
  <2>3. CASE program.rdtsc
    <3>1. report.eenter = 3 + Calls + 1 + Calls + 1
      BY <2>1, <2>3, Costs
    <3>2. report.eenter = 1 + 2 + (Count + 1) + 0 + (1 + (Count + 1) * 1) + 1
      BY ONLY <2>2, <3>1
    <3> QED
      BY <2>1, <2>3, <3>2 DEF ReportExact
  <2>4. CASE ~ program.rdtsc
    <3>1. report.eenter = 3 + Calls + 1 + 2 * Calls + 1 + 3 * Calls + 1
      BY <2>1, <2>4, Costs
    <3>2. report.eenter =
              1 + 2 + (Count + 1) + (1 + 2 * (Count + 1)) + (1 + (Count + 1) * 3) + 1
      BY ONLY <2>2, <3>1
    <3> QED
      BY <2>1, <2>4, <3>2 DEF ReportExact
  <2> QED
    BY <2>3, <2>4
<1> QED
    BY <1>1, InvHolds, PTL

(* A file never holds a warm-up, or a sample that another benchmark left in the static
   array it is written from (App.cpp, App.h). *)
THEOREM FilesAreExact == Spec => []FilesExact
<1>1. IInv => FilesExact
    BY DEF IInv
<1> QED
    BY <1>1, InvHolds, PTL

(* The lines of stats.csv are those of bench_main's plan, in its order and with their
   files, up to where the run ended; a run that returned 0 with its enclave has all. *)
THEOREM LinesHaveFiles == Spec => []RowsHaveFiles
<1>1. IInv => RowsHaveFiles
  <2> SUFFICES ASSUME IInv PROVE RowsHaveFiles
    OBVIOUS
  <2>1. /\ \A a, b \in Timed : Main[a].name = Main[b].name => a = b
        /\ \A b \in Timed : b \in Nat /\ Main[b].name \notin {"eenter", "eexit"}
        /\ job \in Nat /\ Len(Main) \in Nat
    BY TimedJobs, Jobs DEF IInv, TypeInv
  <2>2. \A i \in DOMAIN rows :
            rows[i] \notin {"eenter", "eexit"} =>
                /\ \E b \in Timed : b < job /\ rows[i] = Main[b].name
                /\ \E f \in files : f.name = rows[i]
    BY DEF IInv, Lines
  <2>3. \A b \in Timed : b < job => Printed(b)
    BY DEF IInv, Lines
  <2>4. ASSUME NEW a \in Timed, NEW b \in Timed, a < b, Printed(b)
        PROVE  Printed(a)
    <3>1. PICK i \in DOMAIN rows : rows[i] = Main[b].name
      BY <2>4 DEF Printed
    <3>2. PICK c \in Timed : c < job /\ rows[i] = Main[c].name
      BY <2>1, <2>2, <3>1
    <3>3. c = b /\ a \in Nat /\ b \in Nat
      BY <2>1, <3>1, <3>2
    <3>4. a < job
      BY ONLY <2>1, <2>4, <3>2, <3>3
    <3> QED
      BY <2>3, <3>4
  <2>5. ASSUME pc = "exited", status = 0, enclave # "lost", NEW b \in Timed
        PROVE  Printed(b)
    <3>1. job = Len(Main) + 1
      BY <2>5 DEF IInv, Ended
    <3>2. b \in 1 .. Len(Main)
      BY DEF Timed
    <3>3. b < job
      BY ONLY <2>1, <3>1, <3>2
    <3> QED
      BY <2>3, <3>3
  <2>6. \A i, k \in DOMAIN rows, a, b \in Timed :
            rows[i] = Main[a].name /\ rows[k] = Main[b].name => (i < k <=> a < b)
    BY DEF IInv, Lines
  <2> QED
    BY <2>2, <2>4, <2>5, <2>6 DEF RowsHaveFiles
<1> QED
    BY <1>1, InvHolds, PTL

-----------------------------------------------------------------------------
(* Up to the first ecall that takes samples only two benchmarks have printed a line.  Once
   a sample was missed, the enclave is lost for good, and that ecall does not end. *)
Spoiled ==
    /\ IsApp /\ job <= 4 =>
           /\ \A i \in DOMAIN rows : rows[i] \in {"rdtscp", "ecall_empty"}
           /\ report = [eenter |-> 0, eexit |-> 0]
    /\ missed # {} =>
           /\ IsApp /\ job \in {3, 4} /\ (job = 4 => sample # Count)
           /\ pc \in {"bench", "exited"} /\ enclave = "lost"

(* The first benchmarks of the App are the same in every build. *)
LEMMA FirstFour ==
    ASSUME program \in Programs, IsApp
    PROVE  /\ Len(Main) \in Nat /\ Len(Main) >= 4
           /\ Main[1].timer = "hello"
           /\ Main[2].timer = "app" /\ Main[2].name = "rdtscp"
           /\ Main[3].timer = "ecall" /\ Main[3].name = "ecall_empty"
           /\ Main[4].timer = "enclave"
           /\ \A j \in 1 .. Len(Main) : Main[j].timer = "ecall" => j = 3
<1>1. CASE program.rdtsc /\ ~ program.stats
  <2>1. Main = <<Bench("hello", "hello", 1), Bench("rdtscp", "app", 0),
                 Bench("ecall_empty", "ecall", 0), Bench("ocall_empty", "enclave", 1)>>
    BY <1>1, Plans
  <2> QED
    BY <2>1 DEF Bench
<1>2. CASE program.rdtsc /\ program.stats
  <2>1. Main = <<Bench("hello", "hello", 1), Bench("rdtscp", "app", 0),
                 Bench("ecall_empty", "ecall", 0), Bench("ocall_empty", "enclave", 1),
                 Bench("stats", "stats", 0)>>
    BY <1>2, Plans
  <2> QED
    BY <2>1 DEF Bench
<1>3. CASE ~ program.rdtsc /\ ~ program.stats
  <2>1. Main = <<Bench("hello", "hello", 1), Bench("rdtscp", "app", 0),
                 Bench("ecall_empty", "ecall", 0), Bench("enclave_rdtscp", "enclave", 2),
                 Bench("ocall_empty", "enclave", 3)>>
    BY <1>3, Plans
  <2> QED
    BY <2>1 DEF Bench
<1>4. CASE ~ program.rdtsc /\ program.stats
  <2>1. Main = <<Bench("hello", "hello", 1), Bench("rdtscp", "app", 0),
                 Bench("ecall_empty", "ecall", 0), Bench("enclave_rdtscp", "enclave", 2),
                 Bench("ocall_empty", "enclave", 3), Bench("stats", "stats", 0)>>
    BY <1>4, Plans
  <2> QED
    BY <2>1 DEF Bench
<1> QED
    BY <1>1, <1>2, <1>3, <1>4

(* A step that prints nothing and stays at its benchmark, before a sample is missed or
   with the enclave lost. *)
LEMMA SpoiledSame ==
    ASSUME Spoiled, IsApp' = IsApp, UNCHANGED <<job, rows, report, missed>>,
           missed # {} => /\ (job = 4 => sample' # Count)
                          /\ pc' \in {"bench", "exited"} /\ UNCHANGED enclave
    PROVE  Spoiled'
    BY TimesAssumption DEF Spoiled, Count

(* No step prints a further line, or finds the enclave again, once a sample was missed. *)
LEMMA NextSpoiled == TypeInv /\ Placed /\ Spoiled /\ [Next]_vars => Spoiled'
<1> SUFFICES ASSUME TypeInv, Placed, Spoiled, [Next]_vars PROVE Spoiled'
    OBVIOUS
<1>0. /\ IsApp' = IsApp /\ Main' = Main /\ Count \in Nat /\ Count >= 1
      /\ job \in Nat /\ Len(Main) \in Nat
      /\ pc = "bench" => job \in 1 .. Len(Main)
      /\ pc = "bench" /\ Job.timer # "app" => IsApp
      /\ pc = "bench" /\ Job.timer = "stats" => job = Len(Main)
  <2>1. job \in 1 .. Len(Main) + 1
    BY DEF TypeInv
  <2> QED
    BY <2>1, Setting
<1>f. IsApp => /\ Len(Main) >= 4
               /\ Main[1].timer = "hello"
               /\ Main[2].timer = "app" /\ Main[2].name = "rdtscp"
               /\ Main[3].timer = "ecall" /\ Main[3].name = "ecall_empty"
               /\ Main[4].timer = "enclave"
               /\ \A j \in 1 .. Len(Main) : Main[j].timer = "ecall" => j = 3
    BY FirstFour DEF TypeInv
<1>e. missed # {} => pc \in {"bench", "exited"} /\ enclave = "lost" /\ side = "app"
    BY DEF Spoiled, Placed
<1>1. CASE CreateEnclave
  <2>1. UNCHANGED <<job, rows, report, missed>> /\ (missed # {} => FALSE)
    BY <1>1, <1>e DEF CreateEnclave, results
  <2> QED
    BY <2>1, <1>0, SpoiledSame
<1>2. CASE EnclaveCreated
  <2>1. UNCHANGED <<job, rows, report, missed>> /\ (missed # {} => FALSE)
    BY <1>2, <1>e DEF EnclaveCreated, results
  <2> QED
    BY <2>1, <1>0, SpoiledSame
<1>3. CASE CreateFails
  <2>1. UNCHANGED <<job, rows, report, missed>> /\ (missed # {} => FALSE)
    BY <1>3, <1>e DEF CreateFails, results
  <2> QED
    BY <2>1, <1>0, SpoiledSame
<1>4. CASE OpenResults
  <2>1. UNCHANGED <<job, rows, report, missed>> /\ (missed # {} => FALSE)
    BY <1>4, <1>e DEF OpenResults, results
  <2> QED
    BY <2>1, <1>0, SpoiledSame
<1>5. CASE CloseResults
  <2>1. UNCHANGED <<job, rows, report, missed>> /\ (missed # {} => FALSE)
    BY <1>5, <1>e DEF CloseResults, results
  <2> QED
    BY <2>1, <1>0, SpoiledSame
<1>6. CASE Destroy
  <2>1. UNCHANGED <<job, rows, report, missed>> /\ (missed # {} => FALSE)
    BY <1>6, <1>e DEF Destroy, results
  <2> QED
    BY <2>1, <1>0, SpoiledSame
<1>7. CASE EcallEnter
  <2>1. UNCHANGED <<job, rows, report, missed>> /\ (missed # {} => FALSE)
    BY <1>7, <1>e DEF EcallEnter, results
  <2> QED
    BY <2>1, <1>0, SpoiledSame
<1>8. CASE Ocall
  <2>1. UNCHANGED <<job, rows, report, missed>> /\ (missed # {} => FALSE)
    BY <1>8, <1>e DEF Ocall, results
  <2> QED
    BY <2>1, <1>0, SpoiledSame
<1>9. CASE OcallReturn
  <2>1. UNCHANGED <<job, rows, report, missed>> /\ (missed # {} => FALSE)
    BY <1>9, <1>e DEF OcallReturn, results
  <2> QED
    BY <2>1, <1>0, SpoiledSame
<1>10. CASE SampleInEnclave
  <2>1. UNCHANGED <<job, rows, report, missed>> /\ (missed # {} => FALSE)
    BY <1>10, <1>e DEF SampleInEnclave, Store, results
  <2> QED
    BY <2>1, <1>0, SpoiledSame
<1>11. CASE EcallReturn
  <2>1. UNCHANGED <<job, rows, report, missed>> /\ (missed # {} => FALSE)
    BY <1>11, <1>e DEF EcallReturn, Leave, Store, results
  <2> QED
    BY <2>1, <1>0, SpoiledSame
<1>12. CASE EnclaveReturn
  <2>1. UNCHANGED <<job, rows, report, missed>> /\ (missed # {} => FALSE)
    BY <1>12, <1>e DEF EnclaveReturn, Leave, results
  <2> QED
    BY <2>1, <1>0, SpoiledSame
<1>13. CASE LoseEnclave
  <2>1. UNCHANGED <<job, rows, report, missed>> /\ (missed # {} => FALSE)
    BY <1>13, <1>e DEF LoseEnclave, results
  <2> QED
    BY <2>1, <1>0, SpoiledSame
<1>14. CASE SampleInApp
  <2>1. /\ UNCHANGED <<job, rows, report, missed, pc, enclave>>
        /\ pc = "bench" /\ Job.timer = "app"
    BY <1>14 DEF SampleInApp, Running, Store, results
  <2>2. missed # {} => FALSE
    BY <2>1, <1>f DEF Spoiled, Job
  <2> QED
    BY <2>1, <2>2, <1>0, SpoiledSame
<1>15. CASE HelloReturn \/ HelloFails
  <2>1. /\ UNCHANGED <<rows, report, missed>> /\ job' = job + 1
        /\ pc = "bench" /\ Job.timer = "hello"
    BY <1>15 DEF HelloReturn, HelloFails, Running, NextJob, Leave, results
  <2>2. missed # {} => FALSE
    BY <2>1, <1>f DEF Spoiled, Job
  <2>3. job' <= 4 => job <= 4
    BY ONLY <1>0, <2>1
  <2> QED
    BY <2>1, <2>2, <2>3, <1>0 DEF Spoiled
<1>16. CASE EcallFails
  <2>1. /\ UNCHANGED <<job, rows, report, pc, enclave>>
        /\ pc = "bench" /\ Job.timer = "ecall" /\ enclave = "lost"
    BY <1>16 DEF EcallFails, Running, Store
  <2>2. IsApp /\ job = 3
    BY <2>1, <1>0, <1>f DEF Job
  <2> QED
    BY <2>1, <2>2, <1>0 DEF Spoiled
<1>17. CASE EnclaveFails
  <2>1. UNCHANGED <<job, rows, report, missed, sample, enclave>> /\ pc' = "exited"
    BY <1>17 DEF EnclaveFails, Exit, results
  <2>2. missed # {} => (job = 4 => sample' # Count)
    BY <2>1 DEF Spoiled
  <2> QED
    BY <2>1, <2>2, <1>0, SpoiledSame
<1>18. CASE StatsReturn \/ StatsFails
  <2>1. /\ UNCHANGED missed /\ job' = job + 1 /\ pc = "bench" /\ Job.timer = "stats"
    BY <1>18 DEF StatsReturn, StatsFails, Running, NextJob, Leave
  <2>2. IsApp /\ job = Len(Main) /\ job # 3 /\ job # 4
    BY <2>1, <1>0, <1>f DEF Job
  <2>3. ~ (job' <= 4)
    BY ONLY <1>0, <1>f, <2>1, <2>2
  <2> QED
    BY <2>1, <2>2, <2>3, <1>0 DEF Spoiled
<1>19. CASE BenchStats
  <2>1. /\ UNCHANGED <<missed, report, enclave>> /\ job' = job + 1 /\ sample' = -1
        /\ pc = "bench" /\ sample = Count /\ Job.timer \in {"app", "ecall", "enclave"}
        /\ rows' = Append(rows, Job.name)
        /\ pc' = IF job = Len(Main) THEN "close" ELSE pc
    BY <1>19 DEF BenchStats, Running, AllTaken, NextJob
  <2>2. ASSUME IsApp', job' <= 4
        PROVE  /\ \A i \in DOMAIN rows' : rows'[i] \in {"rdtscp", "ecall_empty"}
               /\ report' = [eenter |-> 0, eexit |-> 0]
    <3>1. job = 1 \/ job = 2 \/ job = 3
      BY ONLY <1>0, <2>1, <2>2
    <3>2. Job.name \in {"rdtscp", "ecall_empty"}
      BY <1>0, <1>f, <2>1, <2>2, <3>1 DEF Job
    <3>3. /\ rows \in Seq(RowNames)
          /\ \A i \in DOMAIN rows : rows[i] \in {"rdtscp", "ecall_empty"}
          /\ report = [eenter |-> 0, eexit |-> 0]
      BY <1>0, <2>2, <3>1 DEF TypeInv, Spoiled
    <3> DEFINE name == Job.name
    <3>4. name \in RowNames
      BY <3>2 DEF RowNames
    <3> HIDE DEF name
    <3>5. \A i \in DOMAIN Append(rows, name) : Append(rows, name)[i] \in {"rdtscp", "ecall_empty"}
      BY <3>2, <3>3, <3>4, AppendProperties DEF name
    <3> QED
      BY <2>1, <3>3, <3>5 DEF name
  <2>3. ASSUME missed' # {}
        PROVE  /\ IsApp' /\ job' \in {3, 4} /\ (job' = 4 => sample' # Count)
               /\ Count' = Count
               /\ pc' \in {"bench", "exited"} /\ enclave' = "lost"
    <3>1. IsApp /\ job = 3 /\ enclave = "lost"
      BY <2>1, <2>3 DEF Spoiled
    <3> QED
      BY <1>0, <1>f, <2>1, <3>1 DEF Count
  <2> QED
    BY <2>2, <2>3 DEF Spoiled
<1>20. CASE UNCHANGED vars
  <2>1. UNCHANGED <<job, rows, report, missed, pc, sample, enclave>>
    BY <1>20 DEF vars
  <2> QED
    BY <2>1, <1>0, SpoiledSame DEF Spoiled
<1> QED
    BY <1>1, <1>2, <1>3, <1>4, <1>5, <1>6, <1>7, <1>8, <1>9, <1>10, <1>11,
       <1>12, <1>13, <1>14, <1>15, <1>16, <1>17, <1>18, <1>19, <1>20 DEF Next, Execute

(* A stats.csv that ends with other lines than those of the first two benchmarks, or with
   counts, holds no sample of an ecall that failed (App.cpp:191, bench.h:85). *)
THEOREM LossIsSeen == Spec => []LossEndsTheRun
<1>1. Init => Spoiled
    BY DEF Init, Spoiled
<1>2. Spoiled => LossEndsTheRun
  <2> SUFFICES ASSUME Spoiled, missed # {} PROVE LossEndsTheRun
    BY DEF LossEndsTheRun
  <2>1. IsApp /\ job <= 4
    BY DEF Spoiled
  <2> QED
    BY <2>1 DEF Spoiled, LossEndsTheRun
<1>3. IInv => TypeInv /\ Placed
    BY DEF IInv
<1> QED
    BY <1>1, <1>2, <1>3, NextSpoiled, InvHolds, PTL DEF Spec
==============================================================================
