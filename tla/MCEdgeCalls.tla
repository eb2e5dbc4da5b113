----------------------------- MODULE MCEdgeCalls -----------------------------
(* Model values for EdgeCalls. *)
EXTENDS EdgeCalls

MCPrograms ==
    [main : {"App"}, rdtsc : BOOLEAN, stats : BOOLEAN]
    \union {[main |-> "Native", rdtsc |-> FALSE, stats |-> FALSE]}
=============================================================================
