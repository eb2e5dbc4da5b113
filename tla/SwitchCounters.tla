--------------------------- MODULE SwitchCounters ---------------------------
(* What the statistics patch of the SDK promises: every way into the enclave is
   counted once, every way out is counted once, and nothing else is counted. *)
EXTENDS Naturals

CONSTANT Threads

VARIABLES
    inside,     \* threads counted in and not yet counted out
    eenter,
    eexit

vars == <<inside, eenter, eexit>>

Init ==
    /\ inside = {}
    /\ eenter = 0
    /\ eexit = 0

Enter(t) ==
    /\ t \notin inside
    /\ inside' = inside \union {t}
    /\ eenter' = eenter + 1
    /\ UNCHANGED eexit

Leave(t) ==
    /\ t \in inside
    /\ inside' = inside \ {t}
    /\ eexit' = eexit + 1
    /\ UNCHANGED eenter

Next == \E t \in Threads : Enter(t) \/ Leave(t)

Spec == Init /\ [][Next]_vars
=============================================================================
