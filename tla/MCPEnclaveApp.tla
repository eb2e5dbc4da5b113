---------------------------- MODULE MCPEnclaveApp ----------------------------
(* Model values for PEnclaveApp: every shape of the page tables. *)
EXTENDS PEnclaveApp

Mapped == [upper |-> "table",  pte |-> [addr |-> 1, flags |-> {"P", "W"}]]
NoLeaf == [upper |-> "table",  pte |-> [addr |-> 0, flags |-> {}]]
NoWalk == [upper |-> "absent", pte |-> [addr |-> 0, flags |-> {}]]
Large  == [upper |-> "large",  pte |-> [addr |-> 0, flags |-> {}]]

(* Present, but not writable before the handler has repaired it. *)
Frozen == [upper |-> "table",  pte |-> [addr |-> 1, flags |-> {"P"}]]

MCLayouts ==
    {[upper |-> [p \in Pages |-> kind[p].upper],
      pte   |-> [p \in Pages |-> kind[p].pte]]
        : kind \in [Pages -> {Mapped, NoLeaf, NoWalk, Large, Frozen}]}

MCVectors == {32}
(* -1 is the largest count. *)
MCArguments == {-1, 0, 1}
(* Every listed status, and one that is not. *)
MCCreateErrors == sgx_errlist \union {"ENCLAVE_CRASHED"}
(* A stack that looks like success, and one that looks like a failure. *)
MCGarbage == {Success, "DEVICE_BUSY"}
=============================================================================
