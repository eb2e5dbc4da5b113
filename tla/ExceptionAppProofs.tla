-------------------------- MODULE ExceptionAppProofs --------------------------
(* The exception benchmark of the GU-Enclave and of SGX, for any number of pages and of
   ud2 instructions, of page faults handed to the enclave, and of statuses. *)
EXTENDS ExceptionApp, SequenceTheorems, TLAPS

(* A count below the modulus is its own bit pattern; one step further it may wrap. *)
LEMMA CountSteps ==
    ASSUME NEW n \in 0 .. Modulus - 1
    PROVE  (n + 1) % Modulus = IF n + 1 = Modulus THEN 0 ELSE n + 1
    BY SizesAssumption

(* A difference of two readings is the number of ticks between them, wrapped or not. *)
LEMMA Difference ==
    ASSUME NEW n \in 0 .. Modulus - 1, NEW d \in {n, n - Modulus}
    PROVE  d % Modulus = n
<1>1. n % Modulus = n
    BY SizesAssumption
<1>2. (n - Modulus) % Modulus = n
    BY SizesAssumption
<1> QED
    BY <1>1, <1>2

(* What the counters of a machine hold stays below the modulus. *)
LEMMA Residue ==
    ASSUME NEW n \in Int
    PROVE  n % Modulus \in 0 .. Modulus - 1
    BY SizesAssumption

-----------------------------------------------------------------------------
(* Types; a trap has a vector that is one of the two the benchmark raises. *)
TypeInv ==
    /\ variant \in Variants
    /\ i \in Nat
    /\ nrepeats \in 0 .. Modulus - 1
    /\ handler \in BOOLEAN
    /\ g_ud_count \in 0 .. Modulus - 1
    /\ test_buf \in [Pages -> {0, 1}]
    /\ injected \in 0 .. MaxInject
    /\ tsc \in 0 .. Modulus - 1
    /\ time_begin \in 0 .. Modulus - 1
    /\ times \in [write : Nat, ud : Nat]
    /\ stage # "none" => exception \in {6, 14}

(* Nothing has been counted or timed. *)
LEMMA InitTypeInv == Init => TypeInv
<1> SUFFICES ASSUME Init PROVE TypeInv
    OBVIOUS
<1>1. 0 \in 0 .. Modulus - 1 /\ 0 \in 0 .. MaxInject
    BY SizesAssumption
<1>2. times \in [write : Nat, ud : Nat] /\ test_buf \in [Pages -> {0, 1}]
    BY DEF Init
<1> QED
    BY <1>1, <1>2 DEF Init, TypeInv

(* Every step writes values of the machine's width. *)
LEMMA NextTypeInv == TypeInv /\ [Next]_vars => TypeInv'
<1> SUFFICES ASSUME TypeInv, [Next]_vars PROVE TypeInv'
    OBVIOUS
<1> USE DEF TypeInv, app, body, trap
<1>1. CASE Usage \/ initialize_enclave \/ InitializationFails
    BY <1>1 DEF Usage, initialize_enclave, InitializationFails
<1>2. CASE ParseCount
  <2>1. nrepeats' \in 0 .. Modulus - 1
    BY <1>2, Residue, ArgumentsAssumption DEF ParseCount
  <2> QED
    BY <1>2, <2>1 DEF ParseCount
<1>3. CASE BenchmarkReturns \/ Done \/ Destroy
    BY <1>3 DEF BenchmarkReturns, Done, Destroy
<1>4. CASE register
    BY <1>4 DEF register, Inside
<1>5. ASSUME NEW loop \in {"touch", "write"}, NEW value \in {0, 1},
             NEW after, Store(loop, value, after)
      PROVE  TypeInv'
  <2>1. CASE i \in writable
    BY <1>5, <2>1 DEF Store, NextIteration, Inside
  <2>2. CASE i \notin writable
    <3>1. tsc' \in 0 .. Modulus - 1
      BY <1>5, <2>2, Residue DEF Store, Fault
    <3> QED
      BY <1>5, <2>2, <3>1 DEF Store, Fault, Inside
  <2> QED
    BY <2>1, <2>2
<1>6. CASE mprotect
    BY <1>6 DEF mprotect, Inside, Fails, rdtscp
<1>7. CASE TimeUd2
  <2>1. Elapsed \in Nat
    BY Residue DEF Elapsed, rdtscp
  <2> QED
    BY <1>7, <2>1 DEF TimeUd2, rdtscp, Inside
<1>8. CASE Ud2
  <2>1. tsc' \in 0 .. Modulus - 1
    BY <1>8, Residue DEF Ud2, Fault
  <2> QED
    BY <1>8, <2>1 DEF Ud2, Fault, Inside
<1>9. CASE Report
  <2>1. Elapsed \in Nat
    BY Residue DEF Elapsed, rdtscp
  <2> QED
    BY <1>9, <2>1 DEF Report, Return, Inside
<1>10. CASE MonitorResolves
    BY <1>10 DEF MonitorResolves, Trapped
<1>11. CASE Inject
  <2>1. injected' \in 0 .. MaxInject
    <3>1. CASE exception = 14
      BY <1>11, <3>1, SizesAssumption DEF Inject
    <3>2. CASE exception # 14
      BY <1>11, <3>2 DEF Inject
    <3> QED
      BY <3>1, <3>2
  <2> QED
    BY <1>11, <2>1 DEF Inject, Trapped
<1>12. CASE Resume
    BY <1>12 DEF Resume, Trapped
<1>13. CASE HandleUd
  <2>1. g_ud_count' \in 0 .. Modulus - 1
    BY <1>13, Residue DEF HandleUd
  <2> QED
    BY <1>13, <2>1 DEF HandleUd, Continue, Trapped
<1>14. CASE HandleUnexpected
    BY <1>14 DEF HandleUnexpected, Continue, Trapped
<1>15. CASE LoseEnclave
    BY <1>15 DEF LoseEnclave, Fails
<1>16. CASE UNCHANGED vars
    BY <1>16 DEF vars
<1> QED
    BY <1>1, <1>2, <1>3, <1>4, <1>5, <1>6, <1>7, <1>8, <1>9, <1>10, <1>11, <1>12,
       <1>13, <1>14, <1>15, <1>16
    DEF Next, Execute

-----------------------------------------------------------------------------
(* Until the timed loop nothing traps: every page is writable. *)
Untrapped == stage = "none" /\ g_ud_count = 0 /\ injected = 0 /\ tsc = 0 /\ time_begin = 0

(* The pages the writes of the timed loop have been to, and those it has still to
   fault on. *)
WriteInv ==
    /\ g_ud_count = 0
    /\ writable \subseteq 0 .. i
    /\ \A p \in Pages : p < i => test_buf[p] = 1
    /\ stage # "none" => exception = 14 /\ i \notin writable

(* Every ud2 that was continued from is counted, and no other trap. *)
UdInv ==
    /\ g_ud_count = i /\ i <= nrepeats
    /\ stage # "none" => exception = 6 /\ i < nrepeats

(* What the ecall has done when it is at each of its places.  A #UD is counted when the
   loop variable has moved, and no other exception is counted or moves it. *)
BodyInv ==
    /\ pc \in {"main", "init"} => at = "register"
    /\ at = "register" => ~handler
    /\ at \in {"touch", "mprotect", "write"} => variant = "gu"
    /\ at \in {"register", "touch", "mprotect"} => Untrapped /\ writable = Pages
    /\ at \in {"register", "mprotect", "time_ud2"} => i = 0 /\ stage = "none"
    /\ at \in {"touch", "write"} => i \in Pages
    /\ at = "write" => WriteInv
    /\ at = "time_ud2" => g_ud_count = 0
    /\ at \in {"time_ud2", "ud2"} /\ variant = "gu" => \A p \in Pages : test_buf[p] = 1
    /\ at = "ud2" => UdInv
    /\ at \in {"register", "touch", "mprotect", "write", "time_ud2", "ud2"}

(* The ecall has not been made. *)
LEMMA InitBodyInv == Init => BodyInv
    BY DEF Init, BodyInv, Untrapped

(* No step of the loops, of RustMonitor or of the handler leaves what the places of the
   ecall promise. *)
LEMMA NextBodyInv == TypeInv /\ BodyInv /\ [Next]_vars => BodyInv'
<1> SUFFICES ASSUME TypeInv, BodyInv, [Next]_vars PROVE BodyInv'
    OBVIOUS
<1> USE DEF BodyInv, Untrapped, WriteInv, UdInv, app, body, trap
<1>1. CASE Usage \/ initialize_enclave \/ InitializationFails
  <2>1. pc' \notin {"main", "init"} /\ UNCHANGED <<variant, nrepeats, body, trap>>
    BY <1>1 DEF Usage, initialize_enclave, InitializationFails, Exit
  <2> QED
    BY <2>1
<1>2. CASE ParseCount
    BY <1>2 DEF ParseCount
<1>3. CASE BenchmarkReturns \/ Done \/ Destroy
    BY <1>3 DEF BenchmarkReturns, Done, Destroy, Exit
<1>4. CASE register
    BY <1>4, SizesAssumption DEF register, Inside, Return, Pages
<1>5. CASE Store("touch", 0, "mprotect")
  <2>1. i \in writable
    BY <1>5 DEF Store, Inside
  <2> QED
    BY <1>5, <2>1, SizesAssumption DEF Store, Inside, NextIteration, Pages
<1>6. CASE Store("write", 1, "time_ud2")
  <2>1. CASE i \in writable
    <3>1. /\ at = "write" /\ i \in Pages /\ WriteInv /\ stage = "none" /\ variant = "gu"
          /\ test_buf' = [test_buf EXCEPT ![i] = 1] /\ NextIteration("write", "time_ud2")
          /\ UNCHANGED <<pc, variant, handler, writable, g_ud_count, stage, exception>>
      BY <1>6, <2>1 DEF Store, Inside
    <3>2. \A p \in Pages : p < i + 1 => test_buf'[p] = 1
      BY <3>1 DEF TypeInv, Pages
    <3>3. CASE i + 1 < NPages
      BY <3>1, <3>2, <3>3, SizesAssumption DEF NextIteration, Pages, TypeInv
    <3>4. CASE ~ (i + 1 < NPages)
      <4>1. \A p \in Pages : test_buf'[p] = 1
        BY <3>2, <3>4, SizesAssumption DEF Pages, TypeInv
      <4> QED
        BY <3>1, <3>4, <4>1, SizesAssumption DEF NextIteration
    <3> QED
      BY <3>3, <3>4
  <2>2. CASE i \notin writable
    BY <1>6, <2>2 DEF Store, Inside, Fault
  <2> QED
    BY <2>1, <2>2
<1>7. CASE mprotect
    BY <1>7, SizesAssumption DEF mprotect, Inside, Fails, rdtscp, Pages
<1>8. CASE TimeUd2
    BY <1>8 DEF TimeUd2, Inside, TypeInv
<1>9. CASE Ud2
    BY <1>9 DEF Ud2, Inside, Fault, TypeInv
<1>10. CASE Report
    BY <1>10 DEF Report, Inside, Return
<1>11. CASE MonitorResolves
    BY <1>11 DEF MonitorResolves, Trapped, TypeInv, Pages
<1>12. CASE Inject
    BY <1>12 DEF Inject, Trapped
<1>13. CASE Resume
    BY <1>13 DEF Resume, Trapped
<1>14. CASE HandleUd
  <2>1. at = "ud2" /\ i < nrepeats /\ g_ud_count = i
    BY <1>14 DEF HandleUd, Trapped
  <2>2. g_ud_count' = i + 1
    BY <1>14, <2>1, CountSteps DEF HandleUd, TypeInv
  <2> QED
    BY <1>14, <2>1, <2>2 DEF HandleUd, Trapped, Continue, TypeInv
<1>15. CASE HandleUnexpected
    BY <1>15 DEF HandleUnexpected, Trapped, Continue
<1>16. CASE LoseEnclave
    BY <1>16 DEF LoseEnclave, Fails
<1>17. CASE UNCHANGED vars
    BY <1>17 DEF vars
<1> QED
    BY <1>1, <1>2, <1>3, <1>4, <1>5, <1>6, <1>7, <1>8, <1>9, <1>10, <1>11, <1>12,
       <1>13, <1>14, <1>15, <1>16, <1>17
    DEF Next, Execute

-----------------------------------------------------------------------------
(* The traps taken so far by the loop that is being timed, those that are still on
   their way included. *)
WriteTraps == i + injected + IF i \in writable \/ stage = "outside" THEN 1 ELSE 0
(* The same for the ud2 loop. *)
UdTraps == IF stage = "none" THEN i ELSE i + 1

(* The clock of the write loop is its traps, the time kept is the clock at its end. *)
WriteTimeInv ==
    /\ at = "write" => tsc = WriteTraps /\ time_begin = 0
    /\ at = "time_ud2" /\ variant = "gu" => tsc = NPages + injected /\ time_begin = 0
    /\ at = "ud2" /\ variant = "gu" => times.write = NPages + injected

(* The clock may wrap between the two readings. *)
UdTimeInv ==
    at = "ud2" => tsc - time_begin = UdTraps \/ tsc - time_begin = UdTraps - Modulus

(* Only a trap of the loop that is timed moves its clock. *)
LEMMA NextWriteTimeInv ==
    ASSUME NPages + MaxInject < Modulus
    PROVE  TypeInv /\ BodyInv /\ WriteTimeInv /\ [Next]_vars => WriteTimeInv'
<1> SUFFICES ASSUME TypeInv, BodyInv, WriteTimeInv, [Next]_vars PROVE WriteTimeInv'
    OBVIOUS
<1> USE DEF WriteTimeInv, app, body, trap
<1>1. CASE Usage \/ initialize_enclave \/ InitializationFails \/ ParseCount
  <2>1. UNCHANGED <<variant, body, trap>>
    BY <1>1 DEF Usage, initialize_enclave, InitializationFails, ParseCount
  <2> QED
    BY <2>1 DEF WriteTraps
<1>2. CASE BenchmarkReturns \/ Done \/ Destroy \/ LoseEnclave
  <2>1. UNCHANGED <<variant, body, trap>>
    BY <1>2 DEF BenchmarkReturns, Done, Destroy, LoseEnclave
  <2> QED
    BY <2>1 DEF WriteTraps
<1>3. CASE register
    BY <1>3 DEF register, Inside, BodyInv, Untrapped
<1>4. CASE Store("touch", 0, "mprotect")
  <2>1. i \in writable
    BY <1>4 DEF Store, Inside, BodyInv
  <2> QED
    BY <1>4, <2>1 DEF Store, Inside, NextIteration
<1>5. CASE Store("write", 1, "time_ud2")
  <2>1. /\ at = "write" /\ i \in Pages /\ stage = "none" /\ variant = "gu"
        /\ writable \subseteq 0 .. i /\ time_begin = 0 /\ tsc = WriteTraps
        /\ UNCHANGED <<variant, writable, injected, time_begin>>
    BY <1>5 DEF Store, Inside, BodyInv, WriteInv
  <2>2. CASE i \in writable
    <3>1. tsc = i + injected + 1 /\ i + 1 \notin writable
      BY <2>1, <2>2 DEF WriteTraps, TypeInv
    <3>2. NextIteration("write", "time_ud2") /\ UNCHANGED <<stage, tsc>>
      BY <1>5, <2>2 DEF Store
    <3>3. CASE i + 1 < NPages
      BY <2>1, <3>1, <3>2, <3>3 DEF NextIteration, WriteTraps, TypeInv
    <3>4. CASE ~ (i + 1 < NPages)
      BY <2>1, <3>1, <3>2, <3>4, SizesAssumption DEF NextIteration, Pages, TypeInv
    <3> QED
      BY <3>3, <3>4
  <2>3. CASE i \notin writable
    <3>1. tsc = i + injected
      BY <2>1, <2>3 DEF WriteTraps, TypeInv
    <3>2. stage' = "outside" /\ tsc' = (tsc + 1) % Modulus /\ UNCHANGED <<at, i>>
      BY <1>5, <2>3 DEF Store, Fault
    <3>3. tsc + 1 < Modulus
      BY <2>1, <3>1, SizesAssumption DEF Pages, TypeInv
    <3>4. tsc' = tsc + 1
      BY <3>2, <3>3, CountSteps DEF TypeInv
    <3> QED
      BY <2>1, <3>1, <3>2, <3>4 DEF WriteTraps, TypeInv
  <2> QED
    BY <2>2, <2>3
<1>6. CASE mprotect
    BY <1>6 DEF mprotect, Inside, Fails, rdtscp, BodyInv, Untrapped, WriteTraps
<1>7. CASE TimeUd2
  <2>1. variant = "gu" => Elapsed = NPages + injected
    <3>1. injected \in 0 .. MaxInject /\ NPages \in Nat
      BY SizesAssumption DEF TypeInv
    <3>2. NPages + injected \in 0 .. Modulus - 1
      BY <3>1, SizesAssumption
    <3>3. (NPages + injected) % Modulus = NPages + injected
      BY <3>2, Difference
    <3> QED
      BY <1>7, <3>1, <3>3 DEF TimeUd2, Inside, Elapsed, rdtscp
  <2> QED
    BY <1>7, <2>1 DEF TimeUd2, Inside, TypeInv
<1>8. CASE Ud2
    BY <1>8 DEF Ud2, Inside
<1>9. CASE Report
    BY <1>9 DEF Report, Inside, TypeInv
<1>10. CASE MonitorResolves
  <2>1. exception = 14 /\ stage = "outside" /\ UNCHANGED <<variant, at, i, injected, tsc, time_begin, times>>
        /\ writable' = writable \union {i} /\ stage' = "none"
    BY <1>10 DEF MonitorResolves, Trapped
  <2> QED
    BY <2>1 DEF WriteTraps
<1>11. CASE Inject
  <2>1. /\ stage = "outside" /\ stage' = "noted" /\ UNCHANGED <<variant, body, tsc>>
        /\ exception = 14 => injected' = injected + 1
        /\ exception # 14 => injected' = injected
    BY <1>11 DEF Inject, Trapped
  <2>2. /\ at = "write" => exception = 14 /\ i \notin writable
        /\ at = "ud2" => exception = 6
        /\ at # "time_ud2"
    BY <2>1 DEF BodyInv, WriteInv, UdInv
  <2> QED
    BY <2>1, <2>2 DEF WriteTraps, TypeInv
<1>12. CASE Resume
    BY <1>12 DEF Resume, Trapped, WriteTraps
<1>13. CASE HandleUd
    BY <1>13 DEF HandleUd, Trapped, BodyInv, WriteInv
<1>14. CASE HandleUnexpected
    BY <1>14 DEF HandleUnexpected, Trapped, Continue, WriteTraps
<1>15. CASE UNCHANGED vars
    BY <1>15 DEF vars, WriteTraps
<1> QED
    BY <1>1, <1>2, <1>3, <1>4, <1>5, <1>6, <1>7, <1>8, <1>9, <1>10, <1>11, <1>12,
       <1>13, <1>14, <1>15
    DEF Next, Execute

(* One tick more on a clock that may wrap. *)
LEMMA ClockTicks ==
    ASSUME NEW m \in Nat \ {0}, NEW n \in 0 .. m - 2, NEW begin \in 0 .. m - 1,
           NEW end \in 0 .. m - 1, end - begin = n \/ end - begin = n - m,
           NEW later \in 0 .. m - 1, later = end + 1 \/ later = (end + 1) - m
    PROVE  later - begin = n + 1 \/ later - begin = (n + 1) - m
<1>1. CASE end - begin = n
    BY <1>1
<1>2. CASE end - begin = n - m
    BY <1>2
<1> QED
    BY <1>1, <1>2

(* Every ud2 costs one tick, and nothing else does between the two readings. *)
LEMMA NextUdTimeInv == TypeInv /\ BodyInv /\ UdTimeInv /\ [Next]_vars => UdTimeInv'
<1> SUFFICES ASSUME TypeInv, BodyInv, UdTimeInv, [Next]_vars, at' = "ud2" PROVE UdTimeInv'
    BY DEF UdTimeInv
<1> USE DEF UdTimeInv, UdTraps, app, body, trap
<1>1. CASE Usage \/ initialize_enclave \/ InitializationFails \/ ParseCount
  <2>1. UNCHANGED <<body, trap>>
    BY <1>1 DEF Usage, initialize_enclave, InitializationFails, ParseCount
  <2> QED
    BY <2>1
<1>2. CASE BenchmarkReturns \/ Done \/ Destroy \/ LoseEnclave
  <2>1. UNCHANGED <<body, trap>>
    BY <1>2 DEF BenchmarkReturns, Done, Destroy, LoseEnclave
  <2> QED
    BY <2>1
<1>3. CASE register \/ mprotect
  <2>1. at' # "ud2"
    BY <1>3 DEF register, mprotect, Inside
  <2> QED
    BY <2>1
<1>4. CASE Store("touch", 0, "mprotect") \/ Store("write", 1, "time_ud2")
  <2>1. at' # "ud2"
    BY <1>4 DEF Store, Inside, NextIteration
  <2> QED
    BY <2>1
<1>5. CASE TimeUd2
    BY <1>5 DEF TimeUd2, Inside, rdtscp, BodyInv, TypeInv
<1>6. CASE Ud2
  <2>1. /\ at = "ud2" /\ stage = "none" /\ stage' = "outside" /\ UNCHANGED <<i, time_begin>>
        /\ tsc' = (tsc + 1) % Modulus
    BY <1>6 DEF Ud2, Inside, Fault
  <2>2. tsc' = tsc + 1 \/ tsc' = (tsc + 1) - Modulus
    BY <2>1, CountSteps, SizesAssumption DEF TypeInv
  <2>3. i \in 0 .. Modulus - 2
    BY <1>6, SizesAssumption DEF Ud2, TypeInv
  <2>4. /\ tsc \in 0 .. Modulus - 1 /\ tsc' \in 0 .. Modulus - 1
        /\ time_begin \in 0 .. Modulus - 1 /\ nrepeats \in 0 .. Modulus - 1 /\ i \in Nat
    BY <2>1, NextTypeInv DEF TypeInv
  <2>5. UdTraps = i
    BY <2>1, <2>4
  <2>6. tsc - time_begin = i \/ tsc - time_begin = i - Modulus
    BY <2>1, <2>5
  <2>7. tsc' - time_begin = i + 1 \/ tsc' - time_begin = (i + 1) - Modulus
    BY ONLY <2>2, <2>3, <2>4, <2>6, SizesAssumption, ClockTicks
  <2>8. UdTraps' = i + 1 /\ UdTraps' \in Int /\ time_begin' = time_begin
    BY <2>1, <2>4
  <2> HIDE DEF UdTraps
  <2> QED
    BY <2>4, <2>7, <2>8, SizesAssumption
<1>7. CASE Report
    BY <1>7 DEF Report
<1>8. CASE MonitorResolves
    BY <1>8 DEF MonitorResolves, Trapped, BodyInv, UdInv
<1>9. CASE Inject
    BY <1>9 DEF Inject, Trapped
<1>10. CASE Resume
    BY <1>10 DEF Resume, Trapped
<1>11. CASE HandleUd
    BY <1>11 DEF HandleUd, Trapped, Continue, TypeInv
<1>12. CASE HandleUnexpected
    BY <1>12 DEF HandleUnexpected, Trapped, BodyInv, UdInv
<1>13. CASE UNCHANGED vars
    BY <1>13 DEF vars
<1> QED
    BY <1>1, <1>2, <1>3, <1>4, <1>5, <1>6, <1>7, <1>8, <1>9, <1>10, <1>11, <1>12, <1>13
    DEF Next, Execute

-----------------------------------------------------------------------------
(* How the ecall may have ended. *)
Completed    == ret = Success /\ retval = Success /\ at = "ud2" /\ i = nrepeats
Unregistered == ret = Success /\ retval = "UNEXPECTED" /\ at = "register"
Crashed      == ret = "ENCLAVE_CRASHED"
Lost         == ret = "ENCLAVE_LOST"

(* The ecall is over. *)
Ended == enclave # "none" /\ pc \in {"returned", "done", "destroy", "exited"}

(* The enclave lives exactly while the ecall can run, and the process gives back what
   it was given. *)
EnclaveInv ==
    /\ pc \in {"main", "init", "inside", "returned", "done", "destroy", "exited"}
    /\ pc # "exited" => status = -2
    /\ pc \in {"main", "init"} => enclave = "none"
    /\ pc = "inside" => enclave = "live"
    /\ pc \in {"returned", "done", "destroy"} => enclave \in {"live", "crashed", "lost"}
    /\ pc = "exited" => enclave \in {"none", "destroyed"}
    /\ pc = "exited" /\ enclave = "none" => status = -1

(* One of four ends, each with what it leaves: the enclave back from its ecall has no
   handler and is still there, or was when it was destroyed. *)
ResultInv ==
    Ended =>
        \/ Completed /\ ~handler /\ times.ud = nrepeats /\ enclave \in {"live", "destroyed"}
        \/ Unregistered /\ ~handler /\ enclave \in {"live", "destroyed"}
        \/ Crashed /\ enclave \in {"crashed", "destroyed"}
        \/ Lost /\ enclave \in {"lost", "destroyed"}

(* Every way out of the process passes the one that destroys the enclave. *)
LEMMA NextEnclaveInv == EnclaveInv /\ [Next]_vars => EnclaveInv'
<1> SUFFICES ASSUME EnclaveInv, [Next]_vars PROVE EnclaveInv'
    OBVIOUS
<1> USE DEF EnclaveInv, app, body, trap
<1>1. CASE Usage \/ ParseCount
    BY <1>1 DEF Usage, ParseCount, Exit
<1>2. CASE initialize_enclave
    BY <1>2 DEF initialize_enclave
<1>3. CASE InitializationFails
    BY <1>3 DEF InitializationFails, Exit
<1>4. CASE BenchmarkReturns \/ Done
  <2>1. /\ pc \in {"returned", "done"} /\ pc' \in {"done", "destroy"}
        /\ UNCHANGED <<enclave, status>>
    BY <1>4 DEF BenchmarkReturns, Done
  <2> QED
    BY <2>1
<1>5. CASE Destroy
    BY <1>5 DEF Destroy, Exit
<1>6. CASE register \/ Report
  <2>1. pc = "inside" /\ pc' \in {"inside", "returned"} /\ UNCHANGED <<enclave, status>>
    BY <1>6 DEF register, Report, Inside, Return
  <2> QED
    BY <2>1
<1>7. CASE mprotect
    BY <1>7 DEF mprotect, Inside, Fails
<1>8. CASE Store("touch", 0, "mprotect") \/ Store("write", 1, "time_ud2") \/ TimeUd2 \/ Ud2
  <2>1. UNCHANGED app
    BY <1>8 DEF Store, TimeUd2, Ud2
  <2> QED
    BY <2>1
<1>9. CASE MonitorResolves \/ Inject \/ Resume \/ HandleUd \/ HandleUnexpected
  <2>1. UNCHANGED app
    BY <1>9 DEF MonitorResolves, Inject, Resume, HandleUd, HandleUnexpected
  <2> QED
    BY <2>1
<1>10. CASE LoseEnclave
    BY <1>10 DEF LoseEnclave, Fails
<1>11. CASE UNCHANGED vars
    BY <1>11 DEF vars
<1> QED
    BY <1>1, <1>2, <1>3, <1>4, <1>5, <1>6, <1>7, <1>8, <1>9, <1>10, <1>11
    DEF Next, Execute

(* The second reading is as many traps after the first as there were ud2 instructions. *)
LEMMA UdTime ==
    ASSUME TypeInv, UdTimeInv, Report
    PROVE  times'.ud = nrepeats
<1>1. i = nrepeats /\ at = "ud2" /\ stage = "none" /\ times' = [times EXCEPT !.ud = Elapsed]
    BY DEF Report, Inside
<1>2. UdTraps = nrepeats /\ nrepeats \in 0 .. Modulus - 1
    BY <1>1 DEF UdTraps, TypeInv
<1>3. tsc - time_begin = nrepeats \/ tsc - time_begin = nrepeats - Modulus
    BY <1>1, <1>2 DEF UdTimeInv
<1>4. Elapsed = nrepeats
    BY <1>2, <1>3, Difference DEF Elapsed, rdtscp
<1> QED
    BY <1>1, <1>4 DEF TypeInv

(* An ecall ends in one of the four ways, and none of them changes into another. *)
LEMMA NextResultInv ==
    TypeInv /\ BodyInv /\ UdTimeInv /\ EnclaveInv /\ ResultInv /\ [Next]_vars => ResultInv'
<1> SUFFICES ASSUME TypeInv, BodyInv, UdTimeInv, EnclaveInv, ResultInv, [Next]_vars, Ended'
             PROVE  ResultInv'
    BY DEF ResultInv
<1> USE DEF ResultInv, Ended, Completed, Unregistered, Crashed, Lost, app, body, trap
<1>1. CASE Usage \/ ParseCount \/ InitializationFails
  <2>1. ~ Ended'
    BY <1>1 DEF Usage, ParseCount, InitializationFails, EnclaveInv
  <2> QED
    BY <2>1
<1>2. CASE initialize_enclave
    BY <1>2 DEF initialize_enclave
<1>3. CASE BenchmarkReturns \/ Done
  <2>1. pc \in {"returned", "done"} /\ UNCHANGED <<nrepeats, enclave, ret, retval, body>>
    BY <1>3 DEF BenchmarkReturns, Done
  <2> QED
    BY <2>1
<1>4. CASE Destroy
  <2>1. /\ pc = "destroy" /\ enclave # "none" /\ enclave' = "destroyed"
        /\ UNCHANGED <<nrepeats, ret, retval, body>>
    BY <1>4 DEF Destroy, EnclaveInv
  <2> QED
    BY <2>1
<1>5. CASE register
    BY <1>5 DEF register, Inside, Return, EnclaveInv, BodyInv
<1>6. CASE Report
  <2>1. /\ at = "ud2" /\ i = nrepeats /\ enclave = "live" /\ ~ handler'
        /\ ret' = Success /\ retval' = Success
        /\ UNCHANGED <<at, i, nrepeats, enclave>>
    BY <1>6 DEF Report, Inside, Return, EnclaveInv
  <2> QED
    BY <1>6, <2>1, UdTime
<1>7. CASE mprotect
    BY <1>7 DEF mprotect, Inside, Fails
<1>8. CASE Store("touch", 0, "mprotect") \/ Store("write", 1, "time_ud2") \/ TimeUd2 \/ Ud2
  <2>1. pc = "inside" /\ UNCHANGED app
    BY <1>8 DEF Store, TimeUd2, Ud2, Inside
  <2> QED
    BY <2>1
<1>9. CASE MonitorResolves \/ Inject \/ Resume \/ HandleUd \/ HandleUnexpected
  <2>1. pc = "inside" /\ UNCHANGED app
    BY <1>9 DEF MonitorResolves, Inject, Resume, HandleUd, HandleUnexpected, Trapped
  <2> QED
    BY <2>1
<1>10. CASE LoseEnclave
    BY <1>10 DEF LoseEnclave, Fails
<1>11. CASE UNCHANGED vars
    BY <1>11 DEF vars
<1> QED
    BY <1>1, <1>2, <1>3, <1>4, <1>5, <1>6, <1>7, <1>8, <1>9, <1>10, <1>11
    DEF Next, Execute

-----------------------------------------------------------------------------
(* The inductive invariant. *)
Inv == TypeInv /\ BodyInv /\ UdTimeInv /\ EnclaveInv /\ ResultInv

(* Counts, times, the handler and the end of the ecall agree, in every reachable state. *)
THEOREM InvHolds == Spec => []Inv
<1>1. Init => Inv
  <2> SUFFICES ASSUME Init PROVE Inv
    OBVIOUS
  <2>1. TypeInv /\ BodyInv
    BY InitTypeInv, InitBodyInv
  <2>2. UdTimeInv /\ EnclaveInv /\ ResultInv
    BY DEF Init, UdTimeInv, EnclaveInv, ResultInv, Ended
  <2> QED
    BY <2>1, <2>2 DEF Inv
<1>2. Inv /\ [Next]_vars => Inv'
    BY NextTypeInv, NextBodyInv, NextUdTimeInv, NextEnclaveInv, NextResultInv DEF Inv
<1> QED
    BY <1>1, <1>2, PTL DEF Spec

(* The #UD count is the number of ud2 instructions, and all writes are made before the
   first of them, for any number of page faults that are handed to the handler. *)
THEOREM UdCountIsExact == Spec => []UdExact
<1>1. Inv => UdExact
  <2> SUFFICES ASSUME Inv PROVE UdExact
    OBVIOUS
  <2>1. Returned /\ retval = Success => Completed
    BY DEF Inv, ResultInv, Ended, Returned, Completed, Unregistered, Crashed, Lost, Success
  <2>2. Completed => g_ud_count = nrepeats
    BY DEF Completed, Inv, BodyInv, UdInv
  <2>3. at = "ud2" /\ variant = "gu" => \A p \in Pages : test_buf[p] = 1
    BY DEF Inv, BodyInv
  <2> QED
    BY <2>1, <2>2, <2>3 DEF UdExact
<1> QED
    BY <1>1, InvHolds, PTL

(* The times printed are those of as many traps as they are divided by, as long as the
   clock does not wrap in the first loop (in the second it may). *)
THEOREM TimesAreExact ==
    ASSUME NPages + MaxInject < Modulus
    PROVE  Spec => []TimesExact
<1>1. Init => WriteTimeInv
    BY DEF Init, WriteTimeInv
<1>2. TypeInv /\ BodyInv /\ WriteTimeInv /\ [Next]_vars => WriteTimeInv'
    BY NextWriteTimeInv
<1>3. Inv /\ WriteTimeInv => TimesExact
  <2> SUFFICES ASSUME Inv, WriteTimeInv, Returned, retval = Success
               PROVE  times.ud = nrepeats /\ (variant = "gu" => times.write = NPages + injected)
    BY DEF TimesExact
  <2>1. times.ud = nrepeats /\ at = "ud2"
    BY DEF Inv, ResultInv, Ended, Returned, Completed, Unregistered, Crashed, Lost, Success
  <2> QED
    BY <2>1 DEF WriteTimeInv
<1>4. Inv => TypeInv /\ BodyInv
    BY DEF Inv
<1> QED
    BY <1>1, <1>2, <1>3, <1>4, InvHolds, PTL DEF Spec

(* No ecall that returns leaves its handler registered, and no process its enclave. *)
THEOREM NothingIsLeftBehind == Spec => []NothingLeftBehind
<1>1. Inv => NothingLeftBehind
    BY DEF Inv, EnclaveInv, ResultInv, Ended, Returned, NothingLeftBehind, Completed,
           Unregistered, Crashed, Lost, Success
<1> QED
    BY <1>1, InvHolds, PTL

-----------------------------------------------------------------------------
(* What the App has printed, as a set of lines. *)
AppLines ==
    [kind : {"Line", "Info", "Error"},
     of   : {"N", "ERROR", "#UD Count", "elapsed", "done", "UNEXPECTED", "ENCLAVE_LOST"}]

(* The lines that are on the terminal. *)
Printed == {log[k] : k \in DOMAIN log}

(* What each end is told by: the lines of the ecall, then those of its result.  The
   count of a completed one is printed by the GU-Enclave only. *)
Account(result, more) ==
    \/ /\ Completed
       /\ Printed \union {Line("#UD Count")} =
              {Line("N"), Line("#UD Count")}
              \union (IF result THEN {Line("elapsed")} ELSE {}) \union more
    \/ /\ Unregistered
       /\ Printed = {Line("N")}
                    \union (IF result THEN {Error("UNEXPECTED")} ELSE {}) \union more
    \/ /\ Crashed
       /\ Printed = {Line("N"), Line("ERROR")}
                    \union (IF result THEN {Error("UNEXPECTED")} ELSE {}) \union more
    \/ /\ Lost
       /\ Printed = {Line("N")}
                    \union (IF result THEN {Info("ENCLAVE_LOST"), Error("ENCLAVE_LOST")}
                                      ELSE {}) \union more

(* At every place of the App, what has been printed is the account of the end so far. *)
LogInv ==
    /\ pc # "exited" \/ status = 0 => log \in Seq(AppLines)
    /\ pc \in {"main", "init"} => log = <<>>
    /\ pc = "inside" => Printed = {Line("N")}
    /\ pc = "returned" => Account(FALSE, {})
    /\ pc = "done" => Account(TRUE, {})
    /\ pc = "destroy" \/ (pc = "exited" /\ status = 0) => Account(TRUE, {Line("done")})

(* A print adds its lines. *)
LEMMA LinePrinted ==
    ASSUME log \in Seq(AppLines), NEW line \in AppLines, log' = Append(log, line)
    PROVE  log' \in Seq(AppLines) /\ Printed' = Printed \union {line}
<1>1. /\ log' \in Seq(AppLines) /\ Len(log') = Len(log) + 1
      /\ DOMAIN log = 1 .. Len(log) /\ DOMAIN log' = 1 .. Len(log) + 1
      /\ \A k \in 1 .. Len(log) : log'[k] = log[k]
      /\ log'[Len(log) + 1] = line
      /\ Len(log) \in Nat
    BY AppendProperties, LenProperties
<1> QED
    BY <1>1 DEF Printed

(* So does a print of several lines. *)
LEMMA LinesPrinted ==
    ASSUME log \in Seq(AppLines), NEW lines \in Seq(AppLines), log' = log \o lines
    PROVE  /\ log' \in Seq(AppLines)
           /\ Printed' = Printed \union {lines[k] : k \in DOMAIN lines}
<1>1. /\ log' \in Seq(AppLines) /\ Range(log') = Range(log) \union Range(lines)
    BY ConcatProperties, RangeConcatenation
<1> QED
    BY <1>1 DEF Printed, Range

(* One line of print_error_message. *)
LEMMA OneErrorPrinted ==
    ASSUME log \in Seq(AppLines), NEW a \in AppLines, log' = log \o <<a>>
    PROVE  log' \in Seq(AppLines) /\ Printed' = Printed \union {a}
<1> DEFINE lines == <<a>>
<1>1. lines \in Seq(AppLines) /\ {lines[k] : k \in DOMAIN lines} = {a}
    OBVIOUS
<1> HIDE DEF lines
<1> QED
    BY <1>1, LinesPrinted DEF lines

(* A hint, then the error. *)
LEMMA TwoErrorsPrinted ==
    ASSUME log \in Seq(AppLines), NEW a \in AppLines, NEW b \in AppLines,
           log' = log \o <<a, b>>
    PROVE  log' \in Seq(AppLines) /\ Printed' = Printed \union {a, b}
<1> DEFINE lines == <<a, b>>
<1>1. lines \in Seq(AppLines) /\ {lines[k] : k \in DOMAIN lines} = {a, b}
    OBVIOUS
<1> HIDE DEF lines
<1> QED
    BY <1>1, LinesPrinted DEF lines

(* All that is printed are lines of the App. *)
LEMMA LinesOfApp ==
    /\ Line("N") \in AppLines /\ Line("ERROR") \in AppLines /\ Line("#UD Count") \in AppLines
    /\ Line("elapsed") \in AppLines /\ Line("done") \in AppLines
    /\ Error("UNEXPECTED") \in AppLines
    /\ Info("ENCLAVE_LOST") \in AppLines /\ Error("ENCLAVE_LOST") \in AppLines
<1>1. /\ Line("N") \in AppLines /\ Line("ERROR") \in AppLines
      /\ Line("#UD Count") \in AppLines
      /\ Line("elapsed") \in AppLines /\ Line("done") \in AppLines
    BY DEF AppLines, Line
<1>2. /\ Error("UNEXPECTED") \in AppLines
      /\ Info("ENCLAVE_LOST") \in AppLines /\ Error("ENCLAVE_LOST") \in AppLines
    BY DEF AppLines, Info, Error
<1> QED
    BY <1>1, <1>2

(* What print_error_message says of an ecall that did not succeed. *)
LEMMA ToldOfEcall ==
    /\ Told("UNEXPECTED", "UNEXPECTED") = <<Error("UNEXPECTED")>>
    /\ Told("ENCLAVE_CRASHED", "UNEXPECTED") = <<Error("UNEXPECTED")>>
    /\ Told("ENCLAVE_LOST", "UNEXPECTED") = <<Info("ENCLAVE_LOST"), Error("ENCLAVE_LOST")>>
<1>1. /\ "ENCLAVE_CRASHED" \notin sgx_errlist
      /\ "ENCLAVE_LOST" \in sgx_errlist \intersect Suggested
      /\ "UNEXPECTED" \in sgx_errlist /\ "UNEXPECTED" \notin Suggested
    BY DEF sgx_errlist, Suggested
<1> QED
    BY <1>1 DEF Told

(* A step of the App prints what its place in the account asks for. *)
LEMMA NextLogInv ==
    ASSUME Inv, LogInv, [Next]_vars
    PROVE  LogInv'
<1> USE DEF app, body, trap
<1>1. CASE Usage \/ InitializationFails
  <2>1. pc' = "exited" /\ status' = -1
    BY <1>1 DEF Usage, InitializationFails, Exit
  <2> QED
    BY <2>1 DEF LogInv
<1>2. CASE ParseCount
  <2>1. pc = "main" /\ pc' = "init" /\ UNCHANGED <<status, log>>
    BY <1>2 DEF ParseCount
  <2> QED
    BY <2>1 DEF LogInv
<1>3. CASE initialize_enclave
  <2>1. pc = "init" /\ pc' = "inside" /\ log' = Append(log, Line("N")) /\ log = <<>>
        /\ log \in Seq(AppLines)
    BY <1>3 DEF initialize_enclave, Say, LogInv
  <2>2. log' \in Seq(AppLines) /\ Printed' = Printed \union {Line("N")}
    BY <2>1, LinesOfApp, LinePrinted
  <2>3. Printed = {}
    BY <2>1 DEF Printed
  <2> QED
    BY <2>1, <2>2, <2>3 DEF LogInv
<1>4. CASE register
  <2>1. /\ pc = "inside" /\ pc' \in {"inside", "returned"} /\ log \in Seq(AppLines)
        /\ Printed = {Line("N")} /\ UNCHANGED <<log, status>>
        /\ pc' = "returned" => at' = "register" /\ ret' = Success /\ retval' = "UNEXPECTED"
    BY <1>4 DEF register, Inside, Return, LogInv
  <2>2. Printed' = Printed
    BY <2>1 DEF Printed
  <2>3. pc' = "returned" => Account(FALSE, {})'
    BY <2>1, <2>2 DEF Account, Unregistered
  <2> QED
    BY <2>1, <2>2, <2>3 DEF LogInv
<1>5. CASE Report
  <2>1. /\ pc = "inside" /\ pc' = "returned" /\ log \in Seq(AppLines)
        /\ Printed = {Line("N")} /\ Completed'
        /\ log' = log \/ log' = Append(log, Line("#UD Count"))
    BY <1>5 DEF Report, Inside, Return, LogInv, Completed, Say
  <2>2. CASE log' = log
    <3>1. Printed' = {Line("N")}
      BY <2>1, <2>2 DEF Printed
    <3>2. Account(FALSE, {})'
      BY <2>1, <3>1 DEF Account
    <3> QED
      BY <2>1, <2>2, <3>2 DEF LogInv
  <2>3. CASE log' = Append(log, Line("#UD Count"))
    <3>1. log' \in Seq(AppLines) /\ Printed' = {Line("N")} \union {Line("#UD Count")}
      BY <2>1, <2>3, LinesOfApp, LinePrinted
    <3>2. Account(FALSE, {})'
      BY <2>1, <3>1 DEF Account
    <3> QED
      BY <2>1, <3>1, <3>2 DEF LogInv
  <2> QED
    BY <2>1, <2>2, <2>3
<1>6. CASE mprotect
  <2>1. pc = "inside" /\ log \in Seq(AppLines) /\ Printed = {Line("N")}
    BY <1>6 DEF mprotect, Inside, LogInv
  <2>2. CASE UNCHANGED <<pc, log, status>>
    BY <2>1, <2>2 DEF LogInv, Printed
  <2>3. CASE log' = Append(log, Line("ERROR")) /\ pc' = "returned" /\ Crashed'
    <3>1. log' \in Seq(AppLines) /\ Printed' = {Line("N")} \union {Line("ERROR")}
      BY <2>1, <2>3, LinesOfApp, LinePrinted
    <3>2. Account(FALSE, {})'
      BY <2>3, <3>1 DEF Account
    <3> QED
      BY <2>3, <3>1, <3>2 DEF LogInv
  <2> QED
    BY <1>6, <2>2, <2>3 DEF mprotect, Say, Fails, Crashed
<1>7. CASE LoseEnclave
  <2>1. /\ pc = "inside" /\ pc' = "returned" /\ log \in Seq(AppLines)
        /\ Printed = {Line("N")} /\ log' = log /\ Lost'
    BY <1>7 DEF LoseEnclave, Fails, LogInv, Lost
  <2>2. Printed' = {Line("N")}
    BY <2>1 DEF Printed
  <2>3. Account(FALSE, {})'
    BY <2>1, <2>2 DEF Account
  <2> QED
    BY <2>1, <2>3 DEF LogInv
<1>8. CASE Store("touch", 0, "mprotect") \/ Store("write", 1, "time_ud2") \/ TimeUd2 \/ Ud2
  <2>1. pc = "inside" /\ UNCHANGED <<pc, status, log>>
    BY <1>8 DEF Store, TimeUd2, Ud2, Inside
  <2> QED
    BY <2>1 DEF LogInv, Printed
<1>9. CASE MonitorResolves \/ Inject \/ Resume \/ HandleUd \/ HandleUnexpected
  <2>1. pc = "inside" /\ UNCHANGED <<pc, status, log>>
    BY <1>9 DEF MonitorResolves, Inject, Resume, HandleUd, HandleUnexpected, Trapped
  <2> QED
    BY <2>1 DEF LogInv, Printed
<1>10. CASE BenchmarkReturns
  <2>1. /\ pc = "returned" /\ pc' = "done" /\ log \in Seq(AppLines) /\ Account(FALSE, {})
        /\ UNCHANGED <<nrepeats, ret, retval, at, i>>
    BY <1>10, Inv DEF BenchmarkReturns, LogInv
  <2>2. CASE Completed
    <3>1. log' = Append(log, Line("elapsed"))
      BY <1>10, <2>2 DEF BenchmarkReturns, Completed, Say
    <3>2. log' \in Seq(AppLines) /\ Printed' = Printed \union {Line("elapsed")}
      BY <2>1, <3>1, LinesOfApp, LinePrinted
    <3>3. Account(TRUE, {})'
      BY <2>1, <2>2, <3>2
         DEF Account, Completed, Unregistered, Crashed, Lost, Success
    <3> QED
      BY <2>1, <3>2, <3>3 DEF LogInv
  <2>3. CASE Unregistered \/ Crashed
    <3>1. log' = log \o <<Error("UNEXPECTED")>>
      BY <1>10, <2>3, ToldOfEcall
         DEF BenchmarkReturns, Unregistered, Crashed, Success, print_error_message
    <3>2. log' \in Seq(AppLines) /\ Printed' = Printed \union {Error("UNEXPECTED")}
      BY <2>1, <3>1, LinesOfApp, OneErrorPrinted
    <3>3. Account(TRUE, {})'
      BY <2>1, <2>3, <3>2
         DEF Account, Completed, Unregistered, Crashed, Lost, Success
    <3> QED
      BY <2>1, <3>2, <3>3 DEF LogInv
  <2>4. CASE Lost
    <3>1. log' = log \o <<Info("ENCLAVE_LOST"), Error("ENCLAVE_LOST")>>
      BY <1>10, <2>4, ToldOfEcall DEF BenchmarkReturns, Lost, Success, print_error_message
    <3>2. /\ log' \in Seq(AppLines)
          /\ Printed' = Printed \union {Info("ENCLAVE_LOST"), Error("ENCLAVE_LOST")}
      BY <2>1, <3>1, LinesOfApp, TwoErrorsPrinted
    <3>3. Account(TRUE, {})'
      BY <2>1, <2>4, <3>2
         DEF Account, Completed, Unregistered, Crashed, Lost, Success
    <3> QED
      BY <2>1, <3>2, <3>3 DEF LogInv
  <2> QED
    BY <2>1, <2>2, <2>3, <2>4 DEF Account
<1>11. CASE Done
  <2>1. /\ pc = "done" /\ pc' = "destroy" /\ log \in Seq(AppLines) /\ Account(TRUE, {})
        /\ log' = Append(log, Line("done")) /\ UNCHANGED <<nrepeats, ret, retval, at, i>>
    BY <1>11 DEF Done, Say, LogInv
  <2>2. log' \in Seq(AppLines) /\ Printed' = Printed \union {Line("done")}
    BY <2>1, LinesOfApp, LinePrinted
  <2>3. Account(TRUE, {Line("done")})'
    BY <2>1, <2>2 DEF Account, Completed, Unregistered, Crashed, Lost
  <2> QED
    BY <2>1, <2>2, <2>3 DEF LogInv
<1>12. CASE Destroy
  <2>1. /\ pc = "destroy" /\ pc' = "exited" /\ log \in Seq(AppLines)
        /\ Account(TRUE, {Line("done")}) /\ UNCHANGED <<nrepeats, ret, retval, at, i, log>>
    BY <1>12 DEF Destroy, Exit, LogInv
  <2>2. Printed' = Printed
    BY <2>1 DEF Printed
  <2>3. Account(TRUE, {Line("done")})'
    BY <2>1, <2>2 DEF Account, Completed, Unregistered, Crashed, Lost
  <2> QED
    BY <2>1, <2>3 DEF LogInv
<1>13. CASE UNCHANGED vars
  <2>1. Printed' = Printed /\ UNCHANGED <<pc, status, log, nrepeats, ret, retval, at, i>>
    BY <1>13 DEF vars, Printed
  <2> QED
    BY <2>1 DEF LogInv, Account, Completed, Unregistered, Crashed, Lost
<1> QED
    BY <1>1, <1>2, <1>3, <1>4, <1>5, <1>6, <1>7, <1>8, <1>9, <1>10, <1>11, <1>12, <1>13
    DEF Next, Execute

(* The properties speak of the set of lines only. *)
LEMMA LinesArePrinted ==
    /\ \A kind, of : Lines(kind, of) <=> [kind |-> kind, of |-> of] \in Printed
    /\ Errors = {line.of : line \in {m \in Printed : m.kind = "Error"}}
    BY DEF Lines, Errors, Printed

(* What an account says of the errors among its lines. *)
LEMMA AccountTells ==
    ASSUME NEW more \in {{}, {Line("done")}}, Account(TRUE, more)
    PROVE  /\ Completed => Errors = {} /\ Lines("Line", "elapsed")
           /\ Unregistered => Errors = {"UNEXPECTED"} /\ ~ Lines("Line", "elapsed")
           /\ Crashed => /\ Errors = {"UNEXPECTED"} /\ ~ Lines("Line", "elapsed")
                         /\ Lines("Line", "ERROR")
           /\ Lost => /\ Errors = {"ENCLAVE_LOST"} /\ ~ Lines("Line", "elapsed")
                      /\ Lines("Info", "ENCLAVE_LOST")
<1> USE DEF Line, Info, Error
<1>1. CASE Completed
  <2>1. Printed \union {Line("#UD Count")} =
            {Line("N"), Line("#UD Count"), Line("elapsed")} \union more
    BY <1>1 DEF Account, Completed, Unregistered, Crashed, Lost, Success
  <2>2. [kind |-> "Line", of |-> "elapsed"] \in Printed
    BY <2>1
  <2>3. \A line \in Printed : line.kind = "Line"
    <3>1. Printed \subseteq
              {Line("N"), Line("#UD Count"), Line("elapsed")} \union more
      BY <2>1, Zenon
    <3> SUFFICES ASSUME NEW line \in Printed PROVE line.kind = "Line"
      OBVIOUS
    <3>2. line \in {Line("N"), Line("#UD Count"), Line("elapsed")} \union more
      BY <3>1, Zenon
    <3>3. line \in more => line = Line("done")
      OBVIOUS
    <3>4. \/ line = Line("N")
          \/ line = Line("#UD Count")
          \/ line = Line("elapsed")
          \/ line = Line("done")
      <4> HIDE DEF Line
      <4> QED
        BY ONLY <3>2, <3>3
    <3>5. \A what : Line(what).kind = "Line"
      OBVIOUS
    <3> HIDE DEF Line
    <3> QED
      BY ONLY <3>4, <3>5, Zenon
  <2> QED
    BY <1>1, <2>2, <2>3, LinesArePrinted DEF Completed, Unregistered, Crashed, Lost, Success
<1>2. CASE Unregistered
  <2>1. Printed = {Line("N"), Error("UNEXPECTED")} \union more
    BY <1>2 DEF Account, Completed, Unregistered, Crashed, Lost, Success
  <2>2. [kind |-> "Line", of |-> "elapsed"] \notin Printed
    BY <2>1
  <2>3. Errors = {"UNEXPECTED"}
    BY <2>1, LinesArePrinted
  <2> QED
    BY <1>2, <2>2, <2>3, LinesArePrinted DEF Completed, Unregistered, Crashed, Lost, Success
<1>3. CASE Crashed
  <2>1. Printed = {Line("N"), Line("ERROR"), Error("UNEXPECTED")} \union more
    BY <1>3 DEF Account, Completed, Unregistered, Crashed, Lost, Success
  <2>2. [kind |-> "Line", of |-> "elapsed"] \notin Printed
    BY <2>1
  <2>3. Errors = {"UNEXPECTED"}
    BY <2>1, LinesArePrinted
  <2>4. [kind |-> "Line", of |-> "ERROR"] \in Printed
    BY <2>1
  <2> QED
    BY <1>3, <2>2, <2>3, <2>4, LinesArePrinted
       DEF Completed, Unregistered, Crashed, Lost, Success
<1>4. CASE Lost
  <2>1. Printed = {Line("N"), Info("ENCLAVE_LOST"), Error("ENCLAVE_LOST")} \union more
    BY <1>4 DEF Account, Completed, Unregistered, Crashed, Lost, Success
  <2>2. [kind |-> "Line", of |-> "elapsed"] \notin Printed
    BY <2>1
  <2>3. Errors = {"ENCLAVE_LOST"}
    BY <2>1, LinesArePrinted
  <2>4. [kind |-> "Info", of |-> "ENCLAVE_LOST"] \in Printed
    BY <2>1
  <2> QED
    BY <1>4, <2>2, <2>3, <2>4, LinesArePrinted
       DEF Completed, Unregistered, Crashed, Lost, Success
<1> QED
    BY <1>1, <1>2, <1>3, <1>4

(* The account is right in every reachable state. *)
LEMMA LogHolds == Spec => [](Inv /\ LogInv)
<1>1. Init => LogInv
    BY DEF Init, LogInv
<1>2. Inv /\ LogInv /\ [Next]_vars => LogInv'
    BY NextLogInv
<1> QED
    BY <1>1, <1>2, InvHolds, PTL DEF Spec

(* "Done." and status 0 are given to every run that got an enclave; an elapsed time to
   those alone whose ecall did all of its work, and an error to all the others. *)
THEOREM ElapsedIsWork == Spec => []ElapsedMeansWork
<1>1. Inv /\ LogInv => ElapsedMeansWork
  <2> SUFFICES ASSUME Inv, LogInv, pc = "exited", status = 0
               PROVE  /\ Lines("Line", "elapsed") <=> ret = Success /\ i = nrepeats /\ at = "ud2"
                      /\ Lines("Line", "elapsed") <=> Errors = {}
    BY DEF ElapsedMeansWork
  <2>1. Account(TRUE, {Line("done")})
    BY DEF LogInv
  <2>2. Completed \/ Unregistered \/ Crashed \/ Lost
    BY <2>1 DEF Account
  <2>3. Completed <=> ret = Success /\ i = nrepeats /\ at = "ud2"
    BY <2>2 DEF Completed, Unregistered, Crashed, Lost, Success
  <2>4. CASE Completed
    BY <2>1, <2>3, <2>4, AccountTells
  <2>5. CASE Unregistered \/ Crashed \/ Lost
    <3>1. Errors # {} /\ ~ Lines("Line", "elapsed")
      BY <2>1, <2>5, AccountTells
    <3>2. ~ Completed
      BY <2>5 DEF Completed, Unregistered, Crashed, Lost, Success
    <3> QED
      BY <2>3, <3>1, <3>2
  <2> QED
    BY <2>2, <2>4, <2>5
<1> QED
    BY <1>1, LogHolds, PTL

(* The error a run tells is what happened to its enclave, whatever the uninitialised
   retval held. *)
THEOREM DiagnosisIsRight == Spec => []DiagnosisIsTheCause
<1>1. Inv /\ LogInv => DiagnosisIsTheCause
  <2> SUFFICES ASSUME Inv, LogInv, pc \in {"done", "destroy"} PROVE DiagnosisIsTheCause
    BY DEF DiagnosisIsTheCause
  <2>1. PICK more \in {{}, {Line("done")}} : Account(TRUE, more)
    BY DEF LogInv
  <2>2. /\ Completed => Errors = {}
        /\ Unregistered => Errors = {"UNEXPECTED"}
        /\ Crashed => Errors = {"UNEXPECTED"} /\ Lines("Line", "ERROR")
        /\ Lost => Errors = {"ENCLAVE_LOST"} /\ Lines("Info", "ENCLAVE_LOST")
    BY <2>1, AccountTells
  <2>3. enclave \in {"live", "crashed", "lost"} /\ ResultInv /\ Ended
    BY DEF Inv, EnclaveInv, Ended
  <2>4. CASE enclave = "lost"
    <3>1. Lost
      BY <2>3, <2>4 DEF ResultInv
    <3> QED
      BY <2>2, <2>4, <3>1 DEF DiagnosisIsTheCause
  <2>5. CASE enclave = "crashed"
    <3>1. Crashed
      BY <2>3, <2>5 DEF ResultInv
    <3> QED
      BY <2>2, <2>5, <3>1 DEF DiagnosisIsTheCause
  <2>6. CASE enclave = "live"
    <3>1. Completed \/ Unregistered
      BY <2>3, <2>6 DEF ResultInv
    <3>2. Completed => at # "register"
      BY DEF Completed
    <3>3. Unregistered => at = "register"
      BY DEF Unregistered
    <3> QED
      BY <2>2, <2>6, <3>1, <3>2, <3>3 DEF DiagnosisIsTheCause
  <2> QED
    BY <2>3, <2>4, <2>5, <2>6
<1> QED
    BY <1>1, LogHolds, PTL
=============================================================================
