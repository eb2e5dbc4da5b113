---------------------------- MODULE ExceptionApp ----------------------------
(* The exception benchmark of the GU-Enclave and of Intel SGX, from main to its
   exit: App.cpp, and the ecall and the exception handler of Enclave.cpp.  (The
   App of the P-Enclave is module PEnclaveApp.)

   An exception leaves such an enclave and comes back through the SDK: the enclave
   is entered a second time to note it, and when it is resumed the registered
   handler runs in it.  A write to a page whose write permission was removed is
   RustMonitor's to resolve, but it may hand the fault to the enclave first. *)
EXTENDS Integers, SgxErrors

CONSTANTS
    Variants,       \* subset of {"gu", "sgx"}
    NPages,         \* BUF_SIZE / PGSIZE
    Modulus,        \* 2^32; the clock, which is wider, has the same here
    Arguments,      \* what atoi may make of argv[1]
    MaxInject,      \* bound: page faults handed to the enclave
    CreateErrors,   \* what sgx_create_enclave may fail with
    Garbage         \* what the uninitialised retval may hold

ASSUME SizesAssumption ==
    NPages \in Nat \ {0} /\ Modulus \in Nat \ {0} /\ MaxInject \in Nat
ASSUME ArgumentsAssumption == Arguments \subseteq Int
ASSUME ErrorsAssumption == Success \notin CreateErrors
ASSUME VariantsAssumption == Variants \subseteq {"gu", "sgx"}

Pages == 0 .. NPages - 1

VARIABLES
    variant,        \* never changes
    pc,             \* where the App is: "main", "init", "inside", "returned",
                    \* "done", "destroy", "exited"
    at,             \* where the ecall is, while pc = "inside"
    i,              \* its loop variable
    nrepeats,
    handler,        \* is exception_handler registered?
    g_ud_count,
    writable,       \* pages RustMonitor lets the enclave write
    test_buf,
    exception,      \* the vector being handled; 0 for none
    stage,          \* how far: "none", "outside", "noted", "handler"
    injected,
    enclave,        \* "none", "live", "crashed", "lost", "destroyed"
    ret,            \* status of the last call into the SDK
    retval,         \* what the ecall returned, when it did
    tsc,            \* the time stamp counter: an exception costs 1, the rest 0
    time_begin,
    times,          \* the two total times printed
    log,            \* lines printed, oldest first
    status          \* exit status; -2 while running

app  == <<variant, pc, nrepeats, enclave, ret, retval, status>>
body == <<at, i, handler, writable, test_buf, time_begin, times>>
trap == <<g_ud_count, exception, stage, injected, tsc>>
vars == <<app, body, trap, log>>

Init ==
    /\ variant \in Variants
    /\ pc = "main"
    /\ at = "register"
    /\ i = 0
    /\ nrepeats = 0
    /\ handler = FALSE
    /\ g_ud_count = 0
    /\ writable = Pages
    /\ test_buf = [p \in Pages |-> 0]
    /\ exception = 0
    /\ stage = "none"
    /\ injected = 0
    /\ enclave = "none"
    /\ ret = Success
    /\ retval \in Garbage
    /\ tsc = 0
    /\ time_begin = 0
    /\ times = [write |-> 0, ud |-> 0]
    /\ log = <<>>
    /\ status = -2

Say(what) == log' = Append(log, Line(what))
print_error_message(err) == log' = log \o Told(err, "UNEXPECTED")
Exit(code) == pc' = "exited" /\ status' = code

-----------------------------------------------------------------------------
(* App.cpp. *)

(* Without its one argument, or with 0: nrepeats is unsigned, so that the test
   nrepeats <= 0 lets a negative argument through as a large count. *)
Usage ==
    /\ pc = "main"
    /\ Say("usage")
    /\ Exit(-1)
    /\ UNCHANGED <<variant, nrepeats, enclave, ret, retval, body, trap>>

ParseCount ==
    /\ pc = "main"
    /\ \E a \in Arguments :
           /\ a % Modulus # 0
           /\ nrepeats' = a % Modulus
    /\ pc' = "init"
    /\ UNCHANGED <<variant, enclave, ret, retval, status, body, trap, log>>

initialize_enclave ==
    /\ pc = "init"
    /\ enclave' = "live"
    /\ ret' = Success
    /\ pc' = "inside"
    /\ Say("N")
    /\ UNCHANGED <<variant, nrepeats, retval, status, body, trap>>

InitializationFails ==
    /\ pc = "init"
    /\ ret' \in CreateErrors
    /\ log' = log \o Told(ret', "UNEXPECTED") \o <<Line("init failed")>>
    /\ Exit(-1)
    /\ UNCHANGED <<variant, nrepeats, enclave, retval, body, trap>>

(* Mutant: only the status of the call is looked at, not what the ecall says. *)
BenchmarkReturnsUnchecked ==
    /\ pc = "returned"
    /\ IF ret # Success THEN print_error_message(ret) ELSE Say("elapsed")
    /\ pc' = "done"
    /\ UNCHANGED <<variant, nrepeats, enclave, ret, retval, status, body, trap>>

(* Mutant: what the ecall says is looked at although it never returned. *)
BenchmarkReturnsRetvalFirst ==
    /\ pc = "returned"
    /\ IF retval # Success THEN print_error_message(retval)
       ELSE IF ret # Success THEN print_error_message(ret)
       ELSE Say("elapsed")
    /\ pc' = "done"
    /\ UNCHANGED <<variant, nrepeats, enclave, ret, retval, status, body, trap>>

(* Mutant: main returns the failure at once. *)
BenchmarkReturnsEarly ==
    /\ pc = "returned"
    /\ IF ret = Success /\ retval = Success
         THEN Say("elapsed") /\ pc' = "done" /\ UNCHANGED status
         ELSE Say("error") /\ Exit(-1)
    /\ UNCHANGED <<variant, nrepeats, enclave, ret, retval, body, trap>>

(* benchmark_exception_ecall: the elapsed time, or what went wrong. *)
BenchmarkReturns ==
    /\ pc = "returned"
    /\ IF ret # Success THEN print_error_message(ret)
       ELSE IF retval # Success THEN print_error_message(retval)
       ELSE Say("elapsed")
    /\ pc' = "done"
    /\ UNCHANGED <<variant, nrepeats, enclave, ret, retval, status, body, trap>>

(* Its result is dropped: "Done." and 0 either way. *)
Done ==
    /\ pc = "done"
    /\ Say("done")
    /\ pc' = "destroy"
    /\ UNCHANGED <<variant, nrepeats, enclave, ret, retval, status, body, trap>>

Destroy ==
    /\ pc = "destroy"
    /\ enclave' = "destroyed"
    /\ Exit(0)
    /\ UNCHANGED <<variant, nrepeats, ret, retval, body, trap, log>>

-----------------------------------------------------------------------------
(* ecall_exception. *)

Inside(location) == pc = "inside" /\ stage = "none" /\ at = location

(* The ecall returns, or the call fails: retval is then not written. *)
Return(value) ==
    /\ pc' = "returned"
    /\ ret' = Success
    /\ retval' = value

Fails(error) ==
    /\ pc' = "returned"
    /\ ret' = error
    /\ UNCHANGED retval

register ==
    /\ Inside("register")
    /\ \/ /\ handler' = TRUE
          /\ at' = IF variant = "gu" THEN "touch" ELSE "time_ud2"
          /\ UNCHANGED <<pc, ret, retval>>
       \/ /\ Return("UNEXPECTED")
          /\ UNCHANGED <<handler, at>>
    /\ UNCHANGED <<variant, nrepeats, enclave, status, i, writable, test_buf,
                   time_begin, times, trap, log>>

NextIteration(loop, after) ==
    /\ at' = IF i + 1 < NPages THEN loop ELSE after
    /\ i' = IF i + 1 < NPages THEN i + 1 ELSE 0

Fault(vector) == exception' = vector /\ stage' = "outside" /\ tsc' = (tsc + 1) % Modulus

(* test_buf[i * PGSIZE] = value *)
Store(loop, value, after) ==
    /\ Inside(loop)
    /\ IF i \in writable
         THEN /\ test_buf' = [test_buf EXCEPT ![i] = value]
              /\ NextIteration(loop, after)
              /\ UNCHANGED <<exception, stage, tsc>>
         ELSE /\ Fault(14)
              /\ UNCHANGED <<test_buf, at, i>>
    /\ UNCHANGED <<app, handler, writable, time_begin, times, g_ud_count, injected,
                   log>>

rdtscp == tsc

(* time_end - time_begin, both unsigned. *)
Elapsed == (rdtscp - time_begin) % Modulus

(* The hypercall 0x80006666, and the first reading of the clock; an error is
   printed and aborts the enclave. *)
mprotect ==
    /\ Inside("mprotect")
    /\ \/ /\ writable' = {}
          /\ at' = "write"
          /\ time_begin' = rdtscp
          /\ UNCHANGED <<pc, enclave, ret, retval, log>>
       \/ /\ Say("ERROR")
          /\ enclave' = "crashed"
          /\ Fails("ENCLAVE_CRASHED")
          /\ UNCHANGED <<writable, at, time_begin>>
    /\ UNCHANGED <<variant, nrepeats, status, i, handler, test_buf, times, trap>>

(* Mutant: the second loop is timed from the beginning of the first one. *)
TimeUd2FromWrite ==
    /\ Inside("time_ud2")
    /\ times' = [times EXCEPT !.write = Elapsed]
    /\ at' = "ud2"
    /\ UNCHANGED <<app, i, handler, writable, test_buf, time_begin, trap, log>>

(* The time of the writes is printed, by the GU-Enclave, and the clock read again;
   SGX has to read it outside, by an ocall. *)
TimeUd2 ==
    /\ Inside("time_ud2")
    /\ times' = IF variant = "gu" THEN [times EXCEPT !.write = Elapsed]
                ELSE times
    /\ time_begin' = rdtscp
    /\ at' = "ud2"
    /\ UNCHANGED <<app, i, handler, writable, test_buf, trap, log>>

Ud2 ==
    /\ Inside("ud2")
    /\ i < nrepeats
    /\ Fault(6)
    /\ UNCHANGED <<app, body, g_ud_count, injected, log>>

(* The time is printed, by the GU-Enclave the count, too, and the handler taken
   back. *)
Report ==
    /\ Inside("ud2")
    /\ i = nrepeats
    /\ times' = [times EXCEPT !.ud = Elapsed]
    /\ IF variant = "gu" THEN Say("#UD Count") ELSE UNCHANGED log
    /\ handler' = FALSE
    /\ Return(Success)
    /\ UNCHANGED <<variant, nrepeats, enclave, status, at, i, writable, test_buf,
                   time_begin, trap>>

-----------------------------------------------------------------------------
(* RustMonitor, the SDK and exception_handler. *)

(* The enclave lives, and its trap has got this far. *)
Trapped(where) == pc = "inside" /\ stage = where

MonitorResolves ==
    /\ Trapped("outside")
    /\ exception = 14
    /\ writable' = writable \union {i}
    /\ exception' = 0
    /\ stage' = "none"
    /\ UNCHANGED <<app, at, i, handler, test_buf, time_begin, times, g_ud_count,
                   injected, tsc, log>>

(* The enclave is entered again, ECMD_EXCEPT, and notes the exception. *)
Inject ==
    /\ Trapped("outside")
    /\ exception = 14 => injected < MaxInject
    /\ injected' = IF exception = 14 THEN injected + 1 ELSE injected
    /\ stage' = "noted"
    /\ UNCHANGED <<app, body, g_ud_count, exception, tsc, log>>

(* It is resumed, in the SDK, which calls the handler; there always is one. *)
Resume ==
    /\ Trapped("noted")
    /\ handler
    /\ stage' = "handler"
    /\ UNCHANGED <<app, body, g_ud_count, exception, injected, tsc, log>>

Continue == exception' = 0 /\ stage' = "none"

(* Mutant: the ud2 is executed again. *)
HandleUdAgain ==
    /\ Trapped("handler")
    /\ exception = 6
    /\ g_ud_count' = (g_ud_count + 1) % Modulus
    /\ Continue
    /\ UNCHANGED <<app, body, injected, tsc, log>>

(* case 0x6: counted, and two bytes skipped: the ud2. *)
HandleUd ==
    /\ Trapped("handler")
    /\ exception = 6
    /\ g_ud_count' = (g_ud_count + 1) % Modulus
    /\ i' = i + 1
    /\ Continue
    /\ UNCHANGED <<app, at, handler, writable, test_buf, time_begin, times, injected,
                   tsc, log>>

(* Mutant: rip is advanced and the exception counted in the default case, too. *)
HandleUnexpectedSkip ==
    /\ Trapped("handler")
    /\ exception # 6
    /\ g_ud_count' = (g_ud_count + 1) % Modulus
    /\ NextIteration(at, "time_ud2")
    /\ Continue
    /\ UNCHANGED <<app, handler, writable, test_buf, time_begin, times, injected, tsc,
                   log>>

(* default: a message, and the instruction is tried again. *)
HandleUnexpected ==
    /\ Trapped("handler")
    /\ exception # 6
    /\ Continue
    /\ UNCHANGED <<app, body, g_ud_count, injected, tsc, log>>

(* A power transition takes the enclave, whatever it is doing. *)
LoseEnclave ==
    /\ pc = "inside"
    /\ enclave' = "lost"
    /\ Fails("ENCLAVE_LOST")
    /\ UNCHANGED <<variant, nrepeats, status, body, trap, log>>

Execute ==
    \/ Usage \/ ParseCount \/ initialize_enclave \/ InitializationFails
    \/ BenchmarkReturns \/ Done \/ Destroy
    \/ register \/ Store("touch", 0, "mprotect") \/ mprotect
    \/ Store("write", 1, "time_ud2") \/ TimeUd2 \/ Ud2 \/ Report
    \/ MonitorResolves \/ Inject \/ Resume \/ HandleUd \/ HandleUnexpected

Next == Execute \/ LoseEnclave

Spec == Init /\ [][Next]_vars /\ WF_vars(Execute)

-----------------------------------------------------------------------------
(* Properties. *)

Lines(kind, of) == \E k \in DOMAIN log : log[k] = [kind |-> kind, of |-> of]
Errors == {log[k].of : k \in {l \in DOMAIN log : log[l].kind = "Error"}}

(* The ecall came back with a value of its own. *)
Returned ==
    /\ pc \in {"returned", "done", "destroy", "exited"}
    /\ enclave # "none"
    /\ ret = Success

(* The #UD count is the number of ud2 instructions, and the writes of the timed
   loop have all been made, no matter how many page faults were handed to the
   handler in between: continuing after one neither counts nor skips anything. *)
UdExact ==
    /\ Returned /\ retval = Success => g_ud_count = nrepeats
    /\ at = "ud2" /\ variant = "gu" => \A p \in Pages : test_buf[p] = 1

(* The two times printed span exactly the traps they are divided by: all ud2
   instructions and no page fault, one page fault for every page and no ud2; only
   a fault that was handed to the handler first, and tried again, is timed twice. *)
TimesExact ==
    Returned /\ retval = Success =>
        /\ times.ud = nrepeats
        /\ variant = "gu" => times.write = NPages + injected

(* An elapsed time is printed exactly for the runs that did all the work, although
   "Done." and status 0 are given to the others as well. *)
ElapsedMeansWork ==
    pc = "exited" /\ status = 0 =>
        /\ Lines("Line", "elapsed") <=> ret = Success /\ i = nrepeats /\ at = "ud2"
        /\ Lines("Line", "elapsed") <=> Errors = {}

(* A run names what happened to its enclave, and nothing else: the loss of power
   with its hint, an abort, for which there is no message, and a handler that
   could not be registered as unexpected, whatever retval held before the call. *)
DiagnosisIsTheCause ==
    pc \in {"done", "destroy"} =>
        /\ enclave = "lost" => Errors = {"ENCLAVE_LOST"} /\ Lines("Info", "ENCLAVE_LOST")
        /\ enclave = "crashed" => Errors = {"UNEXPECTED"} /\ Lines("Line", "ERROR")
        /\ enclave = "live" =>
               Errors = IF at = "register" THEN {"UNEXPECTED"} ELSE {}

(* Nothing outlives its user, whatever went wrong inside: no ecall that returns
   leaves its handler behind, which the next exception would call, and a process
   that got an enclave gives it back. *)
NothingLeftBehind ==
    /\ Returned => ~handler
    /\ pc = "exited" => enclave \in {"none", "destroyed"}

(* The process ends: each ud2 traps once, and RustMonitor does not hand the same
   page fault to the enclave for ever. *)
Terminates == <>(pc = "exited")
=============================================================================
