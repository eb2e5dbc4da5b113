----------------------------- MODULE PEnclaveApp -----------------------------
(* The process of the P-Enclave's exception benchmark: its App (App.cpp) and, while
   the ecall runs, the enclave of module PEnclave with its CPU and devices.  The
   enclave's variables are the ones its image is loaded with until then, and stay
   as they are once it has aborted or was lost. *)
EXTENDS PEnclave, SgxErrors

CONSTANTS
    Arguments,      \* what atoi may make of argv[1]
    CreateErrors,   \* what sgx_create_enclave may fail with
    Garbage         \* what the uninitialised retval may hold

ASSUME ArgumentsAssumption == Arguments \subseteq Int
ASSUME ErrorsAssumption == Success \notin CreateErrors

VARIABLES
    argc,       \* never changes
    pc,         \* "main", "init", "inside", "returned", "done", "destroy", "exited"
    enclave,    \* "none", "live", "crashed", "lost", "destroyed"
    ret,        \* status of the last call into the SDK
    retval,     \* what the ecall returned, when it did
    log,        \* lines the App printed, oldest first
    status      \* exit status; -2 while running

app     == <<argc, pc, enclave, ret, retval, log, status>>
appvars == <<vars, app>>

AppInit ==
    /\ Init
    /\ nrepeats \in {a % Modulus : a \in Arguments}
    /\ argc \in {1, 2}
    /\ pc = "main"
    /\ enclave = "none"
    /\ ret = Success
    /\ retval \in Garbage
    /\ log = <<>>
    /\ status = -2

-----------------------------------------------------------------------------
Say(what)  == log' = Append(log, Line(what))
Exit(code) == pc' = "exited" /\ status' = code

print_error_message(err) == log' = log \o Told(err, "UNEXPECTED")

(* nrepeats is unsigned: nrepeats <= 0 holds for 0 alone. *)
Usage ==
    /\ pc = "main"
    /\ argc # 2 \/ nrepeats = 0
    /\ Say("usage")
    /\ Exit(-1)
    /\ UNCHANGED <<vars, argc, enclave, ret, retval>>

ParseCount ==
    /\ pc = "main"
    /\ argc = 2 /\ nrepeats # 0
    /\ pc' = "init"
    /\ UNCHANGED <<vars, argc, enclave, ret, retval, log, status>>

initialize_enclave ==
    /\ pc = "init"
    /\ enclave' = "live"
    /\ ret' = Success
    /\ pc' = "inside"
    /\ Say("N")
    /\ UNCHANGED <<vars, argc, retval, status>>

InitializationFails ==
    /\ pc = "init"
    /\ ret' \in CreateErrors
    /\ log' = log \o Told(ret', "UNEXPECTED") \o <<Line("init failed")>>
    /\ Exit(-1)
    /\ UNCHANGED <<vars, argc, enclave, retval>>

(* The enclave, the CPU and its devices take a step. *)
Inside(step) == pc = "inside" /\ step /\ UNCHANGED app

EcallReturns ==
    /\ pc = "inside"
    /\ rip = "done"
    /\ ret' = Success
    /\ retval' = Success
    /\ pc' = "returned"
    /\ UNCHANGED <<vars, argc, enclave, log, status>>

(* The call fails, and retval is not written. *)
Fails(state, error) ==
    /\ pc = "inside"
    /\ enclave' = state
    /\ ret' = error
    /\ pc' = "returned"
    /\ UNCHANGED <<vars, argc, retval, log, status>>

EnclaveAborts == rip = "aborted" /\ Fails("crashed", "ENCLAVE_CRASHED")

(* A power transition takes the enclave, whatever it is doing. *)
LoseEnclave == Fails("lost", "ENCLAVE_LOST")

(* Mutant: the time is printed before the results are looked at. *)
benchmark_exception_ecall_TimeFirst ==
    /\ pc = "returned"
    /\ log' = Append(log, Line("elapsed"))
              \o (IF ret # Success THEN Told(ret, "UNEXPECTED") ELSE <<>>)
    /\ pc' = "done"
    /\ UNCHANGED <<vars, argc, enclave, ret, retval, status>>

benchmark_exception_ecall ==
    /\ pc = "returned"
    /\ IF ret # Success THEN print_error_message(ret)
       ELSE IF retval # Success THEN print_error_message(retval)
       ELSE Say("elapsed")
    /\ pc' = "done"
    /\ UNCHANGED <<vars, argc, enclave, ret, retval, status>>

Done ==
    /\ pc = "done"
    /\ Say("done")
    /\ pc' = "destroy"
    /\ UNCHANGED <<vars, argc, enclave, ret, retval, status>>

Destroy ==
    /\ pc = "destroy"
    /\ enclave' = "destroyed"
    /\ Exit(0)
    /\ UNCHANGED <<vars, argc, ret, retval, log>>

Process ==
    \/ Usage \/ ParseCount \/ initialize_enclave \/ InitializationFails
    \/ EcallReturns \/ EnclaveAborts \/ benchmark_exception_ecall \/ Done \/ Destroy

AppExecute == Process \/ Inside(Execute)

AppNext == AppExecute \/ Inside(Environment) \/ LoseEnclave

(* Process and CPU go on; no interrupt, NMI or power transition has to come. *)
AppSpec == AppInit /\ [][AppNext]_appvars /\ WF_appvars(AppExecute)

-----------------------------------------------------------------------------
(* Properties. *)

Says(kind, of) == \E k \in DOMAIN log : log[k] = [kind |-> kind, of |-> of]
Errors == {log[k].of : k \in {l \in DOMAIN log : log[l].kind = "Error"}}

(* Although main returns 0 and prints "Done." either way, its output tells what
   became of the ecall: the time elapsed if and only if the enclave got to its end
   and came back with all ud2 instructions trapped and every page written; else
   one error, the power transition's with its hint or, for an abort, which has no
   message of its own, an unexpected one, never what retval happened to hold. *)
OutcomeTold ==
    pc = "exited" /\ status = 0 =>
        /\ Says("Line", "elapsed") <=> Errors = {}
        /\ Says("Line", "elapsed") =>
               /\ rip = "done" /\ frames = <<>>
               /\ g_ud_count = nrepeats
               /\ \A p \in Pages : "W" \in Walk(p)
        /\ Says("Info", "ENCLAVE_LOST") <=> Errors = {"ENCLAVE_LOST"}
        /\ rip = "aborted" => Errors # {}
        /\ Errors = {"UNEXPECTED"} => rip = "aborted"

(* The process ends on every page table that has a leaf table or a large page for
   each page of test_buf: a missing leaf is repaired, a large page aborts.  Without
   a table the first loop faults for ever. *)
AppTerminates ==
    (\A p \in Pages : layout.upper[p] # "absent") => <>(pc = "exited")
=============================================================================
