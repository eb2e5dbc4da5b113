----------------------------- MODULE MCPEnclave -----------------------------
(* Model values for PEnclave: a buffer mapped the way the README's numbers need
   it.  (Module MCPEnclaveApp has the other shapes.) *)
EXTENDS PEnclave

MCMappedLayouts ==
    {[upper |-> [p \in Pages |-> "table"],
      pte   |-> [p \in Pages |-> [addr |-> 1, flags |-> {"P", "W"}]]]}

(* The first vector that is not an exception, and the timer's. *)
MCVectors == {32, 236}
=============================================================================
