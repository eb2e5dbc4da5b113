--------------------------- MODULE ExceptionBench ---------------------------
(* What the exception benchmark of the P-Enclave promises, with the handling of
   a trap as one step: a store to a protected page costs exactly one #PF and is
   then done, a ud2 costs exactly one #UD and is skipped. *)
EXTENDS Integers

CONSTANT NPages     \* pages of test_buf

Pages == 0 .. NPages - 1

VARIABLES
    nrepeats,   \* ud2 instructions to run, chosen once
    unmapped,   \* pages that no repair can map, chosen once
    phase,      \* where the benchmark stands
    n,          \* iterations of the phase's loop that are over
    protected,  \* pages that may not be written
    faults,     \* page faults counted
    traps       \* invalid opcodes counted

vars == <<nrepeats, unmapped, phase, n, protected, faults, traps>>

Init ==
    /\ nrepeats \in Nat
    /\ phase = "setup"
    /\ n = 0
    /\ unmapped \in SUBSET Pages
    /\ protected \in SUBSET Pages
    /\ faults = 0
    /\ traps = 0

Start ==
    /\ phase = "setup"
    /\ phase' = "touch"
    /\ UNCHANGED <<nrepeats, unmapped, n, protected, faults, traps>>

(* One iteration of a loop over the pages is over. *)
Advance(next) ==
    /\ n' = IF n + 1 < NPages THEN n + 1 ELSE 0
    /\ phase' = IF n + 1 < NPages THEN phase ELSE next

Store(loop, next) ==
    /\ phase = loop
    /\ n \notin protected
    /\ Advance(next)
    /\ UNCHANGED <<nrepeats, unmapped, protected, faults, traps>>

(* A store to a protected page is a fault; the page is writable after it. *)
Repair ==
    /\ phase \in {"touch", "write"}
    /\ n \in protected \ unmapped
    /\ protected' = protected \ {n}
    /\ faults' = faults + 1
    /\ UNCHANGED <<nrepeats, unmapped, phase, n, traps>>

(* A page that cannot be mapped faults again and again and is never passed. *)
Refault ==
    /\ phase = "touch"
    /\ n \in protected \intersect unmapped
    /\ faults' \in Nat
    /\ UNCHANGED <<nrepeats, unmapped, phase, n, protected, traps>>

Protect ==
    /\ phase = "protect"
    /\ n \notin protected
    /\ protected' = protected \union {n}
    /\ UNCHANGED <<nrepeats, unmapped, phase, n, faults, traps>>

Protected ==
    /\ phase = "protect"
    /\ n \in protected
    /\ Advance("read")
    /\ UNCHANGED <<nrepeats, unmapped, protected, faults, traps>>

Read ==
    /\ phase = "read"
    /\ phase' = "write"
    /\ UNCHANGED <<nrepeats, unmapped, n, protected, faults, traps>>

Trap ==
    /\ phase = "ud2"
    /\ n < nrepeats
    /\ n' = n + 1
    /\ traps' = traps + 1
    /\ UNCHANGED <<nrepeats, unmapped, phase, protected, faults>>

Trapped ==
    /\ phase = "ud2"
    /\ n = nrepeats
    /\ phase' = "report"
    /\ UNCHANGED <<nrepeats, unmapped, n, protected, faults, traps>>

Report ==
    /\ phase = "report"
    /\ phase' = "done"
    /\ UNCHANGED <<nrepeats, unmapped, n, protected, faults, traps>>

Abort ==
    /\ phase # "done"
    /\ phase' = "aborted"
    /\ UNCHANGED <<nrepeats, unmapped, n, protected, faults, traps>>

Next ==
    \/ Start \/ Store("touch", "protect") \/ Repair \/ Refault \/ Protect \/ Protected
    \/ Read \/ Store("write", "ud2") \/ Trap \/ Trapped \/ Report \/ Abort

Spec == Init /\ [][Next]_vars
=============================================================================
