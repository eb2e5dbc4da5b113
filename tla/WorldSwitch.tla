----------------------------- MODULE WorldSwitch -----------------------------
(* The world switches of the SDK as eenter-eexit-stats.patch leaves them: every
   thread reads the time stamp counter, crosses, adds one to a counter of the
   side it arrives on and then the elapsed cycles to another; ecall_get_eenter_
   stats and sgx_get_eexit_stats read the four of them one at a time.

   A crossing costs one cycle, so that g_eenter_cycles counts the crossings whose
   time was added.  What lies between the crossings is the application's: an
   ecall that does any number of ocalls, none of which may call back in, since
   the EDL allows no ecall from an ocall. *)
EXTENDS Integers, FiniteSets

CONSTANTS
    Threads,
    TcsNum,     \* TCSNum of Enclave.config.xml
    MaxEnter    \* bound: crossings into the enclave in a run

ASSUME ThreadsAssumption == IsFiniteSet(Threads)
ASSUME BoundsAssumption == TcsNum \in Nat \ {0} /\ MaxEnter \in Nat

VARIABLES
    active,             \* threads the App starts; never changes
    at,                 \* where each thread is
    cmd,                \* "ERET" or "OCALL": why it leaves; "STATS": what it does
    g_eenter_count, g_eenter_cycles,    \* in the enclave
    g_eexit_count, g_eexit_cycles,      \* outside
    report,             \* what bench_main was given, per thread
    meanwhile           \* history: crossings of others counted while a thread reads

entry_stats == <<g_eenter_count, g_eenter_cycles>>
exit_stats  == <<g_eexit_count, g_eexit_cycles>>
vars == <<active, at, cmd, entry_stats, exit_stats, report, meanwhile>>

(* Locations outside that belong to no ecall, and those of bench_main. *)
Idle == {"app", "eexit_count", "eexit_cycles"}
(* Locations between the two counters of one visit. *)
Counted == {"entry_cycles", "enclave", "eenter_count", "eenter_cycles", "eexit",
            "exit_count"}
Locations == Idle \union Counted
             \union {"eenter", "entry_count", "exit_cycles", "dispatch", "ocall"}
Commands == {"none", "STATS", "ERET", "OCALL"}

NoReport == [eenter_count |-> 0, eenter_cycles |-> 0, eexit_count |-> 0,
             eexit_cycles |-> 0, complete |-> FALSE]

Report == [eenter_count : Nat, eenter_cycles : Nat, eexit_count : Nat,
           eexit_cycles : Nat, complete : BOOLEAN]

TypeOK ==
    /\ active \subseteq Threads
    /\ at \in [Threads -> Locations]
    /\ cmd \in [Threads -> Commands]
    /\ g_eenter_count \in Nat
    /\ g_eenter_cycles \in Nat
    /\ g_eexit_count \in Nat
    /\ g_eexit_cycles \in Nat
    /\ report \in [Threads -> Report]
    /\ meanwhile \in [Threads -> Nat]

Init ==
    /\ active \in SUBSET Threads
    /\ at = [t \in Threads |-> "app"]
    /\ cmd = [t \in Threads |-> "none"]
    /\ g_eenter_count = 0
    /\ g_eenter_cycles = 0
    /\ g_eexit_count = 0
    /\ g_eexit_cycles = 0
    /\ report = [t \in Threads |-> NoReport]
    /\ meanwhile = [t \in Threads |-> 0]

-----------------------------------------------------------------------------
Goes(t, from, to) == at[t] = from /\ at' = [at EXCEPT ![t] = to]

BoundTcs == {t \in Threads : at[t] \notin Idle}

(* Crossings that are on their way in count against the bound. *)
InBound ==
    g_eenter_count + Cardinality({t \in Threads : at[t] \in {"eenter", "entry_count"}})
        < MaxEnter

(* sgx_ecall binds a TCS, or returns without crossing when all are taken; rdtscp
   comes right before EENTER. *)
Ecall(t) ==
    /\ Cardinality(BoundTcs) < TcsNum
    /\ InBound
    /\ Goes(t, "app", "eenter")
    /\ \E c \in {"none", "STATS"} : cmd' = [cmd EXCEPT ![t] = c]
    /\ UNCHANGED <<entry_stats, exit_stats, report>>

(* The ocall's function is over: EENTER again, with ECMD_ORET. *)
OcallReturn(t) ==
    /\ InBound
    /\ Goes(t, "ocall", "eenter")
    /\ cmd' = [cmd EXCEPT ![t] = "none"]
    /\ UNCHANGED <<entry_stats, exit_stats, report>>

Eenter(t) ==
    /\ Goes(t, "eenter", "entry_count")
    /\ UNCHANGED <<cmd, entry_stats, exit_stats, report>>

(* Mutant: add without the lock prefix loses an update to a concurrent one. *)
EntryCountUnlocked(t) ==
    /\ Goes(t, "entry_count", "entry_cycles")
    /\ g_eenter_count' \in {g_eenter_count + 1}
           \union (IF \E u \in Threads \ {t} : at[u] = "entry_count"
                     THEN {g_eenter_count} ELSE {})
    /\ UNCHANGED <<cmd, g_eenter_cycles, exit_stats, report>>

(* lock add $1, g_eenter_count *)
EntryCount(t) ==
    /\ Goes(t, "entry_count", "entry_cycles")
    /\ g_eenter_count' = g_eenter_count + 1
    /\ UNCHANGED <<cmd, g_eenter_cycles, exit_stats, report>>

(* lock add %rdx, g_eenter_cycles; enclave_entry goes on to the ecall. *)
EntryCycles(t) ==
    /\ Goes(t, "entry_cycles", "enclave")
    /\ g_eenter_cycles' = g_eenter_cycles + 1
    /\ UNCHANGED <<cmd, g_eenter_count, exit_stats, report>>

Ocall(t) ==
    /\ cmd[t] = "none"
    /\ Goes(t, "enclave", "eexit")
    /\ cmd' = [cmd EXCEPT ![t] = "OCALL"]
    /\ UNCHANGED <<entry_stats, exit_stats, report>>

EcallReturn(t) ==
    /\ cmd[t] = "none"
    /\ Goes(t, "enclave", "eexit")
    /\ cmd' = [cmd EXCEPT ![t] = "ERET"]
    /\ UNCHANGED <<entry_stats, exit_stats, report>>

(* ecall_get_eenter_stats; the caller has set its four results to 0. *)
StatsEcall(t) ==
    /\ cmd[t] = "STATS"
    /\ Goes(t, "enclave", "eenter_count")
    /\ report' = [report EXCEPT ![t] = NoReport]
    /\ UNCHANGED <<cmd, entry_stats, exit_stats>>

GetEenterCount(t) ==
    /\ Goes(t, "eenter_count", "eenter_cycles")
    /\ report' = [report EXCEPT ![t].eenter_count = g_eenter_count]
    /\ UNCHANGED <<cmd, entry_stats, exit_stats>>

GetEenterCycles(t) ==
    /\ Goes(t, "eenter_cycles", "eexit")
    /\ report' = [report EXCEPT ![t].eenter_cycles = g_eenter_cycles]
    /\ UNCHANGED <<cmd, entry_stats, exit_stats>>

Eexit(t) ==
    /\ Goes(t, "eexit", "exit_count")
    /\ UNCHANGED <<cmd, entry_stats, exit_stats, report>>

(* Mutant: only the exits that return from an ecall are counted. *)
ExitCountEretOnly(t) ==
    /\ Goes(t, "exit_count", "exit_cycles")
    /\ g_eexit_count' = g_eexit_count + IF cmd[t] = "OCALL" THEN 0 ELSE 1
    /\ UNCHANGED <<cmd, entry_stats, g_eexit_cycles, report>>

(* lock add $1, g_eexit_count *)
ExitCount(t) ==
    /\ Goes(t, "exit_count", "exit_cycles")
    /\ g_eexit_count' = g_eexit_count + 1
    /\ UNCHANGED <<cmd, entry_stats, g_eexit_cycles, report>>

(* Mutant: the cycles are added only on the way out of an ecall. *)
ExitCyclesEretOnly(t) ==
    /\ Goes(t, "exit_cycles", "dispatch")
    /\ g_eexit_cycles' = g_eexit_cycles + IF cmd[t] = "OCALL" THEN 0 ELSE 1
    /\ UNCHANGED <<cmd, entry_stats, g_eexit_count, report>>

(* lock add %rdx, g_eexit_cycles *)
ExitCycles(t) ==
    /\ Goes(t, "exit_cycles", "dispatch")
    /\ g_eexit_cycles' = g_eexit_cycles + 1
    /\ UNCHANGED <<cmd, entry_stats, g_eexit_count, report>>

(* cmp $OCMD_ERET, %xdi: back to the caller, or the bridge of the ocall. *)
Dispatch(t) ==
    /\ at[t] = "dispatch"
    /\ at' = [at EXCEPT ![t] = IF cmd[t] = "OCALL" THEN "ocall"
                               ELSE IF cmd[t] = "STATS" THEN "eexit_count"
                               ELSE "app"]
    /\ UNCHANGED <<cmd, entry_stats, exit_stats, report>>

(* sgx_get_eexit_stats: *count = g_eexit_count, then *cycles. *)
GetEexitCount(t) ==
    /\ Goes(t, "eexit_count", "eexit_cycles")
    /\ report' = [report EXCEPT ![t].eexit_count = g_eexit_count]
    /\ UNCHANGED <<cmd, entry_stats, exit_stats>>

GetEexitCycles(t) ==
    /\ Goes(t, "eexit_cycles", "app")
    /\ report' = [report EXCEPT ![t].eexit_cycles = g_eexit_cycles,
                                ![t].complete = TRUE]
    /\ UNCHANGED <<cmd, entry_stats, exit_stats>>

Step(t) ==
    \/ Ecall(t) \/ Eenter(t) \/ EntryCount(t) \/ EntryCycles(t)
    \/ Ocall(t) \/ OcallReturn(t) \/ EcallReturn(t)
    \/ StatsEcall(t) \/ GetEenterCount(t) \/ GetEenterCycles(t)
    \/ Eexit(t) \/ ExitCount(t) \/ ExitCycles(t) \/ Dispatch(t)
    \/ GetEexitCount(t) \/ GetEexitCycles(t)

(* Where a thread is from its first reading of a counter to its last. *)
Leaving(t) == at[t] \in {"eexit", "exit_count", "exit_cycles", "dispatch"}
              /\ cmd[t] = "STATS"
Reading(t) == Leaving(t) \/ at[t] \in {"eenter_cycles", "eexit_count", "eexit_cycles"}

(* The crossing that the step of t counts, if it does, is one more for whoever is
   reading; a thread that begins to read has seen none. *)
Meanwhile(t) ==
    meanwhile' = [u \in Threads |->
        IF u = t THEN IF at[t] = "eenter_count" THEN 0 ELSE meanwhile[u]
        ELSE IF Reading(u) /\ at[t] \in {"entry_count", "exit_count"}
          THEN meanwhile[u] + 1 ELSE meanwhile[u]]

Next == \E t \in active : Step(t) /\ Meanwhile(t) /\ UNCHANGED active

Spec == Init /\ [][Next]_vars

-----------------------------------------------------------------------------
(* Properties. *)

At(location) == Cardinality({t \in Threads : at[t] = location})

(* At any instant the entries counted exceed the exits counted by exactly the
   threads between the two adds, the one that reads the counters included. *)
Balanced ==
    g_eenter_count =
        g_eexit_count + Cardinality({t \in Threads : at[t] \in Counted})

(* A counter is ahead of its cycles by exactly the threads between the two locked
   adds, so an average taken while nobody crosses is over complete crossings. *)
CyclesFollowCounts ==
    /\ g_eenter_count = g_eenter_cycles + At("entry_cycles")
    /\ g_eexit_count = g_eexit_cycles + At("exit_cycles")

(* What a thread is told while others go on crossing (App.cpp prints the two counts
   side by side).  From below, the exits and the cycles are short of the counts by
   at most the other threads, each between two adds.  From above there is no such
   bound: they may exceed the counts, read before them, but by no more than the
   crossings that the others counted between the first reading and the last. *)
ReportWithin ==
    \A t \in Threads : report[t].complete =>
        LET r == report[t]
            others == Cardinality(active) - 1
        IN /\ r.eexit_count - r.eenter_count \in -others .. meanwhile[t]
           /\ r.eenter_cycles - r.eenter_count \in -others .. meanwhile[t]
           /\ r.eexit_cycles - r.eexit_count \in -others .. meanwhile[t]

(* A thread that is alone, like the benchmark's, is told equal numbers of entries
   and exits, its own ecall for the numbers included, all with their cycles:
   the reading order (inside first, outside after the exit) is what makes it so. *)
ReportAlone ==
    Cardinality(active) = 1 =>
        \A t \in Threads : report[t].complete =>
            LET r == report[t] IN
            /\ r.eexit_count = r.eenter_count
            /\ r.eenter_cycles = r.eenter_count
            /\ r.eexit_cycles = r.eexit_count

(* The crossings of all threads are counted once on each side. *)
Counters == INSTANCE SwitchCounters WITH
    inside <- {t \in Threads : at[t] \in Counted},
    eenter <- g_eenter_count,
    eexit  <- g_eexit_count

Implements == Counters!Spec
=============================================================================
