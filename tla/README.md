# A verification project for the HyperEnclave artifact

This directory holds TLA+ models of the programs in this repository, the TLC
configurations that check them on small instances, and proofs that TLAPS checks
for every instance. Paths are relative to `src/`; in the sections about one
program, to its directory.

Contents: [the system](#the-system), [plan](#plan), [modules](#modules-and-the-code),
[runs](#runs), [bounds](#bounds), [fairness](#fairness), [proofs](#proofs),
[only model-checked](#only-model-checked), [findings](#findings),
[not modelled](#not-modelled), [running it](#running-it).

## The system

The repository is the evaluation artifact of HyperEnclave. The hypervisor
(RustMonitor) and the kernel module are in it only as binaries; what is here as
source are the programs that run on top of them and around them.

| Part | Where | State | Operations | What is hard | What makes it correct |
|---|---|---|---|---|---|
| P-Enclave exception benchmark | `server/exception/exception_p_enclave/Enclave/Enclave.cpp`, `signal.h`, `paging.h` | counters, the IDT, `g_handler`, `g_cached_cr3`, leaf page-table entries, the trap frame | `ecall_exception`, `exception_handler`, `mprotect` | faults, interrupts and NMIs interleave with the program and with each other; stale translations; errors that are not looked at | the counts are the work; interrupts are passed on once, in order; a protected page faults; traps nest boundedly |
| Page-table edit | `.../paging.h` | four levels of tables | `get_entry`, `mprotect_page`, `mprotect` | one page of several failing; wrap-around of the end address; large pages | exactly the leaves of the range change; the result means what the caller takes it for |
| Exception entry | `.../exception.S`, `signal.h` | the stack and the registers | 256 stubs, `common_exception_entry` | a stub must agree with the CPU on who pushes an error code; an NMI on the same stack | the handler sees the interrupted context, and the interrupted code gets it back |
| GU-Enclave and SGX exception benchmarks | `exception_gu_enclave/`, `exception_sgx/` | counters, the registered handler | `ecall_exception`, `exception_handler` | every path out of the ecall; a handler that continues after what it did not handle | the count is the work; no handler is left behind |
| Exception App | `exception_*/App/App.cpp` | enclave id, the two results of the ecall, `sgx_errlist` | `main`, `initialize_enclave`, `benchmark_exception_ecall`, `print_error_message`, the ocalls | failures whose return value is dropped; an enclave lost or aborted while it is called | a time printed means work done; the error told is what happened; the enclave is given back |
| Edge-call benchmark | `server/edge-calls/{App,Enclave,Include,Native}` | run counters, the sample arrays, the result files | ecalls, ocalls, `run_bench`, `bench_stats` | nesting of ecalls and ocalls, losing the enclave midway, an array shared by the benchmarks | a file holds its own samples; the counts are what the plan costs |
| Transition counters of the SDK | `server/linux-sgx/eenter-eexit-stats.patch` | `g_eenter_count`, `g_eexit_count` and their cycles | entry and exit of the enclave, the two readers | two counters on two sides of a boundary, updated by several threads, read one after the other | each crossing is counted once on each side; a reader is short, or in excess, by no more than the other threads account for |
| Hypercall ABI of the SDK | `server/linux-sgx/hu-enclave.patch` | registers | `egetkey`, `ereport`, quote | `syscall` clobbers `rcx` and `r11` | no argument is lost |
| Host scripts | `host/*.sh`, `host/test_hypercall.c` | firmware file, kernel module and its memory, `enabled` | launch, stop, test | scripts that go on after an error, are interrupted and started again | memory given away is reserved; status 0 means something runs; a launch without a fault runs what it was given |
| Clients | `client/redis`, `client/lighttpd` | options, the database, lists of samples, result tables | `benchmark.sh` | option parsing, commands that fail in the middle, missing results, a `flushall` nobody looks at | tables are complete or absent; failure is reported; a round is measured on its own records |
| Plots | `plots/*.py` | curves, the legend | load, normalise, drop near points | missing and interrupted results | the other curves are drawn; like is compared with like; the legend names its lines |
| Builds, images, patches of third-party programs, result data | Makefiles, Dockerfiles, `*.patch`, `paper-results` | - | - | - | - |

How they interact. The App (untrusted) enters the enclave by an ecall and is
entered by ocalls; every crossing passes through the SDK's counters. In a
GU-Enclave (and in SGX) an exception leaves the enclave, comes back through the
SDK, which enters the enclave a second time to note it, and reaches the
registered handler when the enclave is resumed. In a P-Enclave the enclave has
its own IDT and page tables: the CPU calls its stubs directly, the stubs call
`common_exception_handler`, which calls whatever is in `g_handler`; a maskable
interrupt is handed back to RustMonitor by `vmmcall 0x80002333`, and the handler
edits the same leaf entries the timed loop depends on. The clients measure
servers that run in such enclaves, and the plots read the clients' tables.
What is shared, and by whom: the trap stack (program, traps, NMIs), the leaf
entries and the TLB (program, handler, CPU), the four counters (all threads), the
sample arrays (all benchmarks of a run), the result files (runs and plots).

The hazards these interactions bring are listed line by line in `PROJECT.json`.

## Plan

The order is that of the risk: what interleaves first, what is sequential last.

1. Done: `PEnclave` with its abstract specification `ExceptionBench`; `WorldSwitch`
   with `SwitchCounters`; `Paging`; `ExceptionEntry`; `EdgeCalls`; `ExceptionApp`; `ClientBenchmark`; `Plots`. Proofs of the
   cores of `PEnclave` and of all of `WorldSwitch`.
2. Done: the model extended.
   - `PEnclaveApp`: the App composed with the P-Enclave, as one process that still
     implements `ExceptionBench`; `SgxErrors`, the table of statuses all Apps share.
   - `ExceptionApp`: the two results of the ecall, the clock and the times printed,
     a lost and an aborted enclave, every error of its creation.
   - `HostLaunch`: launch, stop and relaunch, with commands that fail,
     interrupts and reboots.
   - `ClientBenchmark`: the Redis database under `flushall`, load and run.
   - `Plots`: the memory curve of fig8b, and the legends.
   - `WorldSwitch`: any set of started threads, so that the benchmark's one
     thread is a case of it and needs no run of its own.
   Two items of the plan were given up. The hypercall ABI of `hu-enclave.patch`:
   what RustMonitor, a binary, takes from `rcx` cannot be told
   (see [not modelled](#not-modelled)). Two runs in the same second: `mkdir`,
   buffered writes and the file system of two processes would be modelled from
   nothing in this code. A trap as `ExceptionEntry` runs it is not formally composed
   with `PEnclave`: `Resumed` and `FrameFaithful` say what `PEnclave`
   takes for granted of one.
3. Done: the proofs of every safety property of every module, the refinements of
   `ExceptionBench` and of `SwitchCounters`, and the action property `Resumed`. What had to
   change in the models on the way:
   `ExceptionApp` let a trap go on while no ecall was running (`Trapped` rules it out);
   `ReportExact` of `PEnclave` did not count pages that are present but not writable;
   `ReservedRanges`, `MemmapParameter` and `RowsHaveFiles` were stated with `SelectSeq` and
   `MedianTwice` with `SortSeq`, of which no prover knows anything; `Paging` said nothing of
   what RustMonitor has to see to for `ExactlyTheLeaves` to hold (`FourLevels`: a page
   table that maps one of its own tables would change under the walk); and `Plots` took it
   for granted that the files of one figure have their rows at the same places
   (`ResultsAssumption`), without which a slowdown compares nothing.

How the modules build on each other:

    ExceptionBench <--implements-- PEnclave
            ^                         ^ |  (leaf entries)      (delivery, iretq)
            |                         | Paging                 ExceptionEntry
            +-------implements-- PEnclaveApp --> SgxErrors <-- ExceptionApp
    SwitchCounters <--implements-- WorldSwitch
    EdgeCalls         HostLaunch        ClientBenchmark      Plots

A module `XProofs` extends `X` and holds its theorems. `PEnclaveProofs` extends
`PEnclaveApp`, and so has those of the enclave and of its process; `ResultsProofs` extends
`ClientBenchmark` and `Plots`, whose names are kept apart for that. An `MC` module gives the constants of
`X` their values for TLC.

`PEnclave` takes a page walk's result as given where `Paging` models the walk, and a
trap's delivery and return as one step each where `ExceptionEntry` models every
instruction.

## Modules and the code

`PROJECT.json` maps every definition to its lines. A definition whose comment
begins with "Mutant" is a plausible mistake in the definition that follows it;
no specification uses it.

### PEnclave, ExceptionBench

`rip` is where the CPU is, cut at the points another actor can observe: the
pieces of `ecall_exception` (`init_exception`, `register`, `cache_cr3`, `touch`,
`mprotect`, `invlpg`, `read`, `write`, `ud2`, `report_intr`, `report_ud`, `report_pf`,
`return`), of the handler (`common`,
`switch`, `pf`, `pf_invlpg`, `vmmcall`, `iretq`), and `done` or `aborted`. `frames`
is the stack of trap frames. The program's variables keep their names; `i` is the
loop variable; the counters wrap at `Modulus` (2^32 in the code). `pte` is the
leaf entry of each page of `test_buf`, `layout.upper` what the walk finds above it
(a table, nothing, a large page), and `tlb` what the CPU has cached.

The actions are the code's pieces, each with everything it does: `InitException`
(`lidt`; whether interrupts are enabled is RustMonitor's choice, the code's own
`sti` is commented out), `RegisterHandler`, `CacheCr3`, `Touch` and `Write` (a store:
it succeeds through the TLB or faults), `ProtectPage` (the body of `mprotect`'s
loop up to the write of the entry, its early return and its abort), `InvalidatePage`,
`ReadBack` (`get_entry` for the message), the `ud2` and its successor, the three prints of
the counts and the return (`ReportIntr`, `ReportUd`, `ReportPf`, `Return`);
`CommonHandler` (is `g_handler` set?), `HandleUd`, `HandlePf`, `HandleInterrupt`,
`HandleUnexpected`, `Unprotect`, `InvalidateFaulting`, `Forward`, `Iretq`. The
environment is the CPU's and the host's: `TlbFill` and `TlbEvict` at any time,
`RaiseInterrupt`, `AcceptInterrupt` when IF allows, `AcceptNmi` when not blocked;
the first NMI to find a handler registered aborts, since its vector is neither 6
nor 14 nor above 31.

`ExceptionBench` is the same benchmark as its user sees it: a store to a protected
page costs one #PF and is done, a `ud2` costs one #UD and is skipped; there are no
handlers, no TLB, no interrupts. `Implements` maps a `PEnclave` state by where
the program is, whatever traps are on top of it (`Phase`, `Iterations`), by what the page
tables allow (`Unmapped`, `Unwritable`), and by the faults whose entry has been looked at
(`Faults`: the handler counts before it looks).

### PEnclaveApp, SgxErrors

The process: `main` of the P-Enclave's App up to the ecall, then the enclave's own
actions (`Inside`), then what the App makes of the results. It extends `PEnclave`, whose
variables hold what the image is loaded with until the ecall and stay as they are after
it. `LoseEnclave` may come between any two steps of the enclave, in the middle of a
trap as well; an aborted enclave makes the call fail. `ret` is the status of
the call and `retval` what the enclave returned, which is written only when it
does; before, it is any of `Garbage`. `log` is what the App prints: lines, and for a
status the ones `print_error_message` looks up. `SgxErrors` has the table, which is the
same in all copies, and takes what is said of a status that is not in it as a
parameter.

### ExceptionEntry

One instruction a step: the frame the CPU pushes (with the stack aligned to 16
bytes first), the stub's error code and vector, the fifteen pushes, the call of
the C handler, the fifteen pops, the two words skipped, `iretq`. A word is named
by what it is, so that a value restored to the wrong register shows. The C
handler returns with caller-saved registers changed, which is what the assembly has to
survive. An NMI may land between any two instructions and starts the same
sequence again on the same stack.

### Paging

`mprotect(addr, len, flags)` on any range of a small address space, with a table a
function from indices to entries. One step a page: index at every level, absent
tables (the -1 the loop drops), large pages (abort), the leaf (`flags` replaced,
address kept). The properties say which addresses a leaf has by adding the
indices up, without the shifts of the code: a path is the four indices from the
root down to the leaf. `Span` is how much an entry of each level maps, and takes the
place of the shifts. `FourLevels` is what the code relies on RustMonitor for: the tables it
reaches are in four levels, and none of them is used at two.

### WorldSwitch, SwitchCounters

Each thread is at one of the places between two instructions of the patched SDK
that another thread can observe: before and after each crossing, between the two
locked adds on each side, and between any two reads of the readers. The
application is any: ecalls that do any number of ocalls, by the threads in `active`, which
are the ones it started. `meanwhile` is a history variable: for a thread that reads the
counters, how many crossings the others have counted since its first reading. What it is told
may be short of a count by the threads between two adds, and exceed it by as
much as the others go on in the meantime (`ReportWithin`). `SwitchCounters` counts a thread in,
then out.

### EdgeCalls

`main` of the App for the four combinations of `ENCLAVE_RDTSC` and
`EENTER_EEXIT_STATS`, and of Native; `run_bench` and each benchmark sample by
sample with the ecalls and ocalls it makes, the two static sample arrays with
what earlier benchmarks left in them, `stats.csv` and the files. `LoseEnclave`
may happen between any two ecalls of the benchmarks, not inside one (a power event
destroys an enclave's memory): the next ecall then fails, and each caller does with the failure
what it does in the code, be it `exit(0)`, a message or nothing. `missed` is a history variable,
the samples of `ecall_empty` whose ecall failed. A crossing and its count are one step here;
that they are is the business of `WorldSwitch`. The `fopen` of a sample file
(`bench.h:56`), which is not checked, is taken to succeed.

### ExceptionApp

`main` with every early return, and the ecall of the GU-Enclave or SGX enclave:
register, touch, mprotect, write, ud2, unregister (SGX has only the `ud2` loop). A trap goes `outside`,
where RustMonitor may resolve a page fault (`MonitorResolves`) or hand it to the
enclave (`Inject`), then `noted`, then `handler`, whose switch knows only #UD. It goes on only
while the enclave does (`Trapped`): one that is lost or crashes takes its trap with it.
`tsc` counts traps, which is all the properties ask of a clock: a time is right
if it spans the traps it is divided by. The constant the code takes off for reading the
clock is left out.

### HostLaunch

One action a command of `launch_hyperenclave.sh`, under its own name; `stop_hyperenclave.sh`
is its `disable` alone. A command works, is refused for a reason the state shows
(no module, a module in use, no usable image), or fails for none (`faults`), and
the script goes on regardless. Between any two commands somebody may interrupt the
script or reboot, with another command line. Of a range only where it starts
and whether it has a `$` is kept; `ReservedRanges` is the loop over them, with what `res`
holds after each. The kernel module is a binary: that
`rmmod` is refused while RustMonitor runs, that enabling what is enabled changes
nothing, and that the image is read when it is enabled are assumptions, the last
one from the log `README.md` shows.

### ClientBenchmark

The two `benchmark.sh` in one module, with `client` telling them apart: options
as `getopts` and the `case` treat them, the checks, the rounds over the targets,
each command that may fail, results with missing lines, medians as `stats`
computes them, the tables. `sort -n` is any way to put the lines in order (`Orders`), since
lines it may swap have the same value. Of the command lines only that the number given to `-r` is
a number is assumed (`LinesAssumption`): what `seq` prints for something else is not
modelled. `cli` is the server that `$REDIS_CLI` reaches: the default one, unless the user
has put a host or a port into the variable. `<<address, port>>` is the one that `-a` and `-p` name, which is loaded and measured, and `db`
the set of rounds whose records are in its database. `flushall` empties it only where the two
are the same (`Flushed`). What the shell does with a failed command is what
is written after it: `|| exit $?` or nothing. `WriteTables` writes both tables in one step, and
neither it nor the `mkdir` before the rounds fails in the model. `MedianTwice` is twice the
median; awk prints it with six significant digits, so that an even median may be rounded.

### Plots

`load_result` of each script, `normalize`, and the loop over the variants. A point
is a place and a value; which of them are drawn, and which are compared, is the
question. The rows of the files of one figure are taken to be the same places in the same
order (`ResultsAssumption`), as `WriteTables` of `ClientBenchmark` writes them, a row a
target, and as all files in `paper-results` have them; what a missing row in the middle of one file would do to the slowdowns is
not looked at. `labels` and `handlers` are the keys and the values of `legends`, which the
scripts reorder as two lists.

## Runs

| Run | Configuration | What it shows |
|---|---|---|
| `penclave` | `MCPEnclave.cfg`, 263k states | Two maskable interrupts and one NMI at any point of a run on a well-mapped buffer: no page that was protected is writable through a stale translation (`TlbCoherent`); each interrupt is forwarded once and in order, or found no handler (`InterruptsForwarded`); traps nest at most twice and with IF clear (`NestingBounded`); nothing but an NMI makes it abort (`NoSpuriousAbort`). No deadlock. |
| `penclave_app` | `MCPEnclaveApp.cfg`, 2.25M | App and enclave on each shape of the page tables the code has a branch for, with an interrupt, an NMI and a power transition: the printed counts are the work, and the interrupts those forwarded by the time their count is printed (`ReportExact`), the timed loop runs over pages that are protected though `mprotect`'s result says nothing of it (`TimedLoopFaults`), the App's output tells what became of the enclave (`OutcomeTold`), the abstract benchmark is implemented (`Implements`), the process ends (`AppTerminates`) unless the walk to a page ends above its leaf: such a page faults for ever. |
| `entry` | `MCExceptionEntry.cfg`, 517k | Three traps through any stub, NMIs between any two instructions: `AlignedAtCall`, `FrameFaithful`, `Resumed`. |
| `paging` | `MCPaging.cfg`, 116k | Any range, aligned or not, on 36 shapes of the tables: exactly the right entries change (`ExactlyTheLeaves`); 0 and -1 mean what they can be taken for, and the abort comes at the first large page and only there (`ReturnMeans`). |
| `switches` | `MCWorldSwitch.cfg`, 7.29M with symmetry | Up to three threads on two TCSs: `Balanced`, `CyclesFollowCounts`, `ReportWithin`, and `SwitchCounters` is implemented; the benchmark's one thread is told exact numbers (`ReportAlone`). |
| `edge_calls` | `MCEdgeCalls.cfg`, 647 | Every build, the enclave lost between any two ecalls: the reported counts are the cost of the plan (`ReportExact`; with the README's parameters that is its 2020007), files hold their own samples (`FilesExact`), the lines of `stats.csv` have theirs and follow the plan, none left out or twice (`RowsHaveFiles`), a run with a sample of a failed ecall prints nothing after it but that benchmark's line (`LossEndsTheRun`), it ends (`Terminates`). |
| `exception_app` | `MCExceptionApp.cfg`, 4.2k | All paths of the App on GU-Enclave and SGX: the count of #UD is exact (`UdExact`), so are the times (`TimesExact`), a time means work done (`ElapsedMeansWork`), the error told is what happened (`DiagnosisIsTheCause`), neither handler nor enclave is left behind (`NothingLeftBehind`), `Terminates`. |
| `host` | `MCHostLaunch.cfg`, 5.5k | Up to three scripts: memory given to RustMonitor is reserved (`MemoryIsReserved`); status 0 means that one runs, or that ERROR was said, and a launch none of whose own commands had a fault runs the image it was given on the whole parameter, whatever the ones before left behind (`LaunchSwitches`). No deadlock. |
| `clients` | `MCClientBenchmark.cfg`, 5.82M | Both scripts with failing commands and results with missing lines: `RowsAreRounds`, `MedianIsMiddle`, `FailureReported`; Redis is measured on this round's records unless this round's `flushall` failed, if the server is the one that `redis-cli` reaches, and on top of all earlier ones if it is not (`FreshIfFlushed`). |
| `client_workload` | `MCClientWorkload.cfg` | Finding: the documented option `-w` is not accepted. |
| `plots` | `MCPlots.cfg`, 56k | fig8b to fig8d with files left out, interrupted or saturating: `CurvesAreTheGiven`, `SlowdownsCompareLikes`, `LegendNamesCurves`. |
| `plots_nbench` | `MCPlotsNbench.cfg` | Finding: fig8a without a baseline draws no curve of that machine. |

Deadlock is checked in `penclave`, where only `done` and `aborted` may stop, and in
`host`, whose scripts can always be started or the machine rebooted; the other systems end, or reach the bound on calls or crossings, and
say `CHECK_DEADLOCK FALSE`; that those that must end do is a liveness property.

## Bounds

- `NPages = 2`: the loops distinguish the pages before, at and after the position;
  with two pages each pair of these occurs, and the first and the last iteration differ.
  `NPages = 3` in `ExceptionApp`, where it is cheap.
- `Arguments = {-1, 0, 1}` in `penclave_app`: no exception, one, and the largest count,
  which -1 becomes. `CreateErrors` is every listed status and one that is not;
  `Garbage` a stack that looks like success and one that looks like a failure.
- `Modulus = 7` in `ExceptionApp`: with three pages, three faults handed on
  and at most six exceptions the clock wraps, the differences do not.
- `Modulus = 5` is the smallest that is larger than `2 * NPages`, the most faults a
  run counts on a buffer that can be mapped; on one that cannot, the counter wraps. `nrepeats` takes every value below it.
- `MaxIntr = 2`, `MaxNmi = 1`: with IF clear in every handler a second interrupt can
  only follow, never nest; the second shows order and doubling. The NMI is the only
  one to nest, and ends the run unless it came before the handler was registered.
  Neither bound is in the proofs' way: they hold for any value. `penclave_app` has one
  of each: what a second interrupt shows does not depend on the page tables.
- `Vectors` of `ExceptionEntry`: each exception, since each has a stub of its own
  kind, and the first, one and the last of the other 224 stubs, which differ in
  nothing but the number. `MaxDepth = 1` gives a stack of either alignment,
  `MaxTraps = 3` a trap, an NMI in it, and a trap after both.
- `PGSIZE = 2`, `FANOUT = 2`: 16 pages and 32 addresses, with every range, aligned
  or not, over every boundary of every level; two entries let one of each
  table lead on while the other is absent or large. One call: what a call does
  depends on the tables only, and the tables it may find are enumerated.
- Three threads, any of them started, on two TCSs: one waits for a TCS while two interleave; four
  crossings let one thread do an ocall between the others' crossings. Symmetric
  in the threads, which no liveness property is about in that run.
- `WarmupTimes = 2`, `TestTimes = 3`: different from each other and from the one
  call that `batched_bench` adds, so that taking one for the other shows.
- `MaxScripts = 3`: a launch, a stop or a second one, and one that meets what both left
  behind. Four command lines: no parameter, one with two ranges, one whose ranges
  reserve nothing in front of one that would, one with ranges of both kinds.
- Eight command lines, up to three rounds over two targets, two values: lists of
  length 0 to 3, of both parities, with gaps. Two servers `redis-cli` may reach, and command lines
  that name the one, the other and a third.
- Three curves' worth of points, from two to four a file: enough for an
  interrupted file, a tail that is dropped and one that is dropped to a point.

## Fairness

- `PEnclaveApp`: `WF(AppExecute)`: the process is scheduled outside, and inside the CPU
  goes on executing the enclave. Interrupts, NMIs and the loss of the enclave are not obliged
  to come and are bounded or end it; the TLB fills and evicts as it likes, and
  never disables a step of the program.
- `EdgeCalls`, `ExceptionApp`: `WF(Execute)`: the process is scheduled. Losing the
  enclave is not fair. In `ExceptionApp` the SDK hands back what it was given, and RustMonitor hands on
  only finitely many page faults (`MaxInject`); it could hand on the same
  one for ever, and then the enclave would not end.
- The other specifications state none; they have only safety properties. Scripts,
  loops and stubs without a way back end by their shape, and a liveness property of the
  lock-free counters would be vacuous.

## Proofs

All theorems hold for every value of the constants that satisfies the modules'
assumptions; each assumption is evaluated by a run as well. Each proof is made of an
inductive invariant that implies the property, of the lemma that it holds initially
(`Init...`), and of one that no step breaks it (`Next...`), with a case an action. The
invariants were checked by TLC on the runs' instances before they were proved.

Three theorems have a hypothesis of their own, `CurvesFollow` of `Plots` (see there) and two on the width of an `int` or of the clock:
`ReportIsExact` of `PEnclave` needs `MaxIntr < Modulus` (2^32 interrupts in one
call make `g_intr_count` wrap, and the count printed is then not the number forwarded), and
`TimesAreExact` needs `NPages + MaxInject < Modulus` (2^64 cycles in one loop). The
configurations satisfy both.

### PEnclaveProofs

Any number of pages, any modulus above twice that number, any vectors from 32 on, any
page tables, any number of interrupts and NMIs.

- `TypeCorrect`, `NestingIsBounded`. The inductive invariant is `TypeInv == TypeOK /\
  StackShape /\ LoopPosition`. `TypeOK` alone is not inductive: `Iretq` sets
  `rip` from the frame, the loop body uses `i` as a page. `StackShape` says which
  frames can be on the stack for each `rip` (a program location: none; a handler's:
  one, or two with the upper an NMI and blocked), that IF is clear while there is
  one, and which vector a handler at `vmmcall` has. `LoopPosition` bounds `i` by
  the location beneath all traps.
- `InterruptsAreForwarded`. `ForwardInv == TypeInv /\ HandlerRegistered /\
  InterruptsForwarded`. `HandlerRegistered` is needed for order: the dropped
  interrupts are a prefix of the accepted ones only because nothing is
  forwarded before `g_handler` is set and it is never reset.
- `TlbIsCoherent`, `TimedLoopAlwaysFaults`. `MemoryInv == TypeInv /\ FaultInv /\ TlbExact /\
  BufferInv`. The two properties depend on each other: the TLB is right because each entry
  written is invalidated before anybody uses it (`TlbExact`, with the two windows, the
  program's and the handler's), the handler repairs the right entry because a page fault is
  always one of the page the loop is at (`FaultInv`), and which pages can
  be written at each place follows from both (`BufferInv`). The program's place is taken
  beneath all traps (`ProgramRip`) and the handler's beneath an NMI (`HandlerRip`):
  the `...Control` lemmas say how each action moves these two, so that no later
  proof looks at frames again.
- `ReportIsExact`. `UdInv`, `PfInv` and `IntrInv` say what each counter is at each place, and
  `PrintInv` what has been printed of them; an interrupt may still come between two of the prints. For
  page faults it is the number of pages already repaired: `Cardinality` of the
  read-only pages the first loop has made writable, and of the pages the timed
  loop has. On a page table with a page that can never be mapped the first loop
  never ends and its counter wraps; `PfInv` says nothing of it, since it is not the place
  from which a report is reached. The counter that can wrap on the way to a report is the
  interrupts': `Len(accepted) + Cardinality(pending) = raised` bounds it.
- `NoAbortIsSpurious`. `AbortInv`: before the first NMI no frame is one, and each other way
  to `aborted` is excluded by `MemoryInv`.
- `ImplementsBenchmark`. `BenchInv == MemoryInv /\ UdInv /\ PfInv`. Each action is mapped to
  one of `ExceptionBench` or a stutter: a store that gets through is the store, the
  repair of an entry is the fault, `HandleUd` is the trap, and everything else
  moves neither the phase nor the counts.

The same holds for the process, and any arguments, errors and stack. A step of the process is a
step of the enclave or leaves the enclave's variables alone (`AppStepsEnclave`), so that the
invariants above hold in the process, in which the enclave may be lost at any
time: `AppTypeCorrect`, `AppNestingIsBounded`, `AppForwardsInterrupts`, `AppTlbIsCoherent`,
`AppTimedLoopFaults`, `AppReportIsExact`, `AppImplementsBenchmark`. `AppTellsTheOutcome` is
about the App: `LogInv` keeps, at each of its places, the lines printed so far next to
how the ecall ended.

### WorldSwitchProofs

Any finite set of threads, of which any subset is started and stays so (`NextQuiet`), any
number of TCSs and crossings.

- `CardMove` is the counting lemma: a thread that moves changes the number of
  threads in a set by whether its old and new places are in it.
- `CountersBalance`, `CyclesFollow`: from `Tally`, the conjunction of the two, which
  is inductive with `TypeOK`: each locked add moves a thread into or out of the set counted.
- `CountsEachCrossingOnce`: `WorldSwitch` implements `SwitchCounters`: `EntryCount`
  maps to `Enter`, `ExitCount` to `Leave`, everything else to a stutter.
- `ReportsAreWithin`. The lower bounds are from `ReportInv`, which bounds what a reader has
  read so far at every place between its reads. The numbers are old values of counters that
  only grow (`StepMonotone`), each was exact but for the threads between two adds when it
  was read, and the reader itself is not one of those (`Bystanders`). The upper bounds are from
  `UpperInv`: a counter never exceeds what was read of it by more than `meanwhile`
  (`StepOthersUpper`), and no cycles exceed their count, nor exits the entries (`TallyBounds`).
- `ReportsAloneAreExact`: for a lone thread both bounds are zero (`Unseen`).

### ExceptionEntryProofs

Any vectors the assumption allows, any depth of the interrupted stack, any number of
traps. `IInv == TypeInv /\ Nested`: the first trap interrupted the program, each other one
the entry code of the one before. `Level` says for one trap and each place of its
entry code what is on the stack above the interrupted one, and what is in the registers: it is
a disjunction over the nine kinds of places (`InStub` to `InIretq`). An NMI in between adds a
level and leaves those below alone; `iretq` removes one, and what is then on the stack is
what the level below says. `CallsAreAligned` comes from the fixed distance between the
aligned stack and the call (22 words), `FramesAreFaithful` from `Saved` and `Numbered` at
the place of the handler, and `TrapsResume` is the action property: each `iretq`
restores the context its level belongs to. Only the first trap may be a #UD, so that no
place of the entry code is ever skipped: that is part of `Nested`.

### EdgeCallsProofs

Any warm-ups and samples, any set of builds. `IInv` has nine conjuncts, `TypeInv` first, in the order in
which they depend on each other: where the enclave is entered (`Placed`), entries and exits
paired (`Balanced`), the entries so far as those of the benchmarks before, `Before[job]`, and
of the part of the present one that is over (`Counted`), what is reported of them
(`Reported`), the samples of the present benchmark in their array (`Stored`), the files, the
lines printed (`Lines`), and how a run may have ended (`Ended`). `Plans`, `Jobs` and `Costs` are the
lemmas about the builds' lists of benchmarks. `ReportIsExact`, `FilesAreExact`,
`LinesHaveFiles` follow. `LossIsSeen` has an invariant of its own, `Spoiled`: once a sample was
missed the enclave is lost for good, and the benchmark after it does not get through its samples.

### ExceptionAppProofs

Any buffer, number of faults handed on, arguments, errors and stack.
`Inv == TypeInv /\ BodyInv /\ UdTimeInv /\ EnclaveInv /\ ResultInv`. `BodyInv` says what
the ecall has done at each place, with a trap on its way or not; `ResultInv` that an ecall ends
in one of four ways, with what each leaves. `UdCountIsExact` and `NothingIsLeftBehind`
follow. `TimesAreExact` needs the traps as the clock's reading (`WriteTimeInv`; in the
second loop, `UdTimeInv`, modulo one wrap of the clock). `ElapsedIsWork` and `DiagnosisIsRight` add
`LogInv`: the set of lines printed is the account of one of the four ends.

### HostLaunchProofs

Any command lines, images and number of scripts. `MemoryGivenIsReserved` is `MemoryInv`: what
is about to be given, or is given, is what the command line reserves, across interrupts
and reboots. `LaunchesSwitch` adds `LaunchInv`: where a launch stands at each of its commands
as long as none had a fault. The loop that filters ranges is a recursive function of the
number of ranges, whose existence is a lemma (by the least length for which there is none).

### PagingProofs

Any size of pages and of tables, any number of both, any contents that are in four levels,
and any range. The provers' arithmetic is linear and `PGSIZE * FANOUT * ...` is not, so that
the first part is lemmas about division: `WayDown` takes an address apart level by level, and
`PathOfPage` and `PageOfPath` say that the addresses of pages and the paths through the
tables correspond one to one, which is that the four shifts add up. `WalkOf` is what
`LastTable` finds for a page in terms of its path.

`IInv == TypeInv /\ LoopInv /\ ExactlyTheLeaves /\ ReturnMeans`. The two properties are
inductive only together with where the loop is. The step is `NextPage`: the memory that
`ExactlyTheLeaves` describes for the pages so far, with one more entry written, is the one it
describes for one page more. For that the walk, which is of the memory as it is now, must
find what it would have found when the call began: `SameWalk` says so, and is where
`FourLevels` is needed, since the entries written are those of tables of the last level.
`LeavesCorrect` and `ReturnCorrect` follow.

### ResultsProofs

The clients, for any targets, command lines and values. `TablesHoldRounds` is from `LoopInv` and `ListsInv`: a
list has a sample of the round that runs only if the loop is past its target.
`FailuresAreReported` is `EndInv`, `RunsAreFresh` is `FreshInv`: at a load, the database of the
server that `redis-cli` reaches is empty unless the flush of that round failed, and the one of another
server holds all earlier rounds (`EarlierGrows`: one more with each run). `MediansAreMiddles` is from `RowsInv`, that a row
holds a list and its median, and `MedianSplits`, which is about `stats` alone: every list can
be sorted (`SortExists`, by insertion, on the least length that could not be), at least half of the places are
on either side of the middle one, and sorting keeps the number of samples below a value.

The plots, for any files. `PlotsInv` has four parts: where the script is and what it
loaded (`PlacesInv`), that a curve is drawn in its own turn and never touched again
(`DrawnInv`), `SlowdownsCompareLikes` itself (`NotesInv`), and `LegendNamesCurves` as it is
between the steps (`LegendInv`). The lemmas are about the lists: what `load_result` drops (`Shortened`,
`Loaded`), what `zip` relates (`Normalized`, `SamePlaces`), and that two lists that match still
do with an entry added or reordered (`AddedMatch`, `ReorderedMatch`). `CurvesFollow` has the
hypothesis that fig8a is not one of the figures: for that one the property is false, which is
the second finding.

## Only model-checked

- Liveness (`Terminates`, `AppTerminates`), which is beyond the prover. Every other property
  of a run that passes is a theorem.

## Findings

1. `client/redis/benchmark.sh:11` documents `-w <WORKLOAD>`, and `getopts` knows
   the letter, but the `case` has no `w)`: the pattern `h | ?)` of line 31 takes
   it, the usage is printed and the script exits with 0. Run `client_workload`.
   The workload can be chosen by the environment variable `workload` only.
2. `README.md:493` says that the curves of empty arguments are not plotted. In
   fig8a all curves of a machine are normalised to its baseline by a `zip`
   (`plots/common.py:14`), so that without the baseline none of them is plotted.
   Run `plots_nbench`.

Things the models show that no document contradicts: the options `-a` and `-p` of
`client/redis/benchmark.sh:9-10` reach `ycsb` (lines 93-94) but not `$REDIS_CLI flushall`
(line 108), so that a plain `redis-cli` flushes the default server, and the given one is
measured on top of everything it held before (`FreshIfFlushed` says so; to flush it, the
user has to repeat host and port in `REDIS_CLI`); `mprotect` returns 0 though pages of
the range have no entry; a range up to the end of the address space is treated as
empty; a page without a leaf table makes the P-Enclave fault for ever; the App
prints `Done.` and returns 0 after a failed benchmark; the edge-call App returns
0 with its enclave lost; a launch whose `sysctl` to 0 fails ends with 0 and leaves the old
RustMonitor running; a failed `flushall` lets Redis be measured on other rounds' records
and the result looks like any other; a sample of `ecall_empty` may be the time of a call that
failed; a result that is missing moves the later rounds of its row to the left, under
the numbers of other rounds. The App of SGX prints the elapsed time like the other two, though the
sample output in `server/exception/README.md` ends without it.

## Not modelled

- RustMonitor and the kernel module: binaries. What they do to the programs here
  (mapping pages, injecting exceptions, taking `vmmcall`) is modelled from how
  the code uses it and marked external.
- Makefiles, Dockerfiles, patches and configurations of third-party programs
  (nbench, SQLite, Lighttpd, Redis, Occlum), result data: build inputs and data; no state of a running
  program whose source is here.
- Times: cycles are units, elapsed times, means and deviations are left out. That
  two CPUs' time stamp counters differ is not covered.
- `dump_pgtable`, which nothing calls; logging and layout; the axes of the plots.
- The hypercall ABI of `hu-enclave.patch`. Five `vmmcall` become `syscall`, which
  destroys `rcx` and `r11`. In `vmcall_egetkey` and `vmcall_ereport` the patch shows an argument moved into
  `rcx` right before it. Whether it is lost depends on where RustMonitor takes it from, which is a binary.
- Failures of `mkdir` and of writing the tables in the clients, and of the unchecked `fopen` of a sample
  file in the edge-call benchmark.
- `host/test_hypercall.c` keeps no state: it times one hypercall.
- Two runs in the same second, which share a result directory: see the plan.
- The red zone of leaf functions under the CPU's frame: the model's interrupted stack ends at `rsp`.
- Vectors 21, 29 and 30 (#CP, #VC, #SX): the stubs push an error code of their
  own where newer processors push one. They need features the enclave does not
  turn on, and `VectorsAssumption` excludes them.

## Running it

    tlc -workers 2 -config MCPEnclave.cfg MCPEnclave
    tlapm PEnclaveProofs.tla
    tlapm PagingProofs.tla
    tlapm WorldSwitchProofs.tla
    tlapm ExceptionEntryProofs.tla
    tlapm EdgeCallsProofs.tla
    tlapm ExceptionAppProofs.tla
    tlapm HostLaunchProofs.tla
    tlapm ResultsProofs.tla

Each run takes between a second and two minutes on two cores, each proof module at most about two.
