--------------------------- MODULE ExceptionEntry ---------------------------
(* The way into and out of common_exception_handler (exception.S, signal.h):
   what the CPU pushes, what a stub adds, the fifteen pushes, the C call and the
   way back, one instruction a step, so that an NMI may land between any two.

   The stack is a sequence of 8-byte words, the last one at rsp: rsp is
   Len(stack), and 16-byte alignment is an even length.  A word, like the value
   of a register, is a pair <<what, number>>; before the trap register r holds
   <<r, 0>>, so a value restored into the wrong place shows. *)
EXTENDS Integers, SequencesExt

CONSTANTS
    Vectors,    \* exceptions and interrupts that occur; 2 is the NMI
    MaxDepth,   \* words on the stack of the interrupted program, at most
    MaxTraps    \* bound: traps taken in a run

(* Vectors for which a CPU pushes an error code: #DF #TS #NP #SS #GP #PF #AC,
   and, where the CPU has them, #CP #VC #SX. *)
CpuErrorCode == {8, 10, 11, 12, 13, 14, 17, 21, 29, 30}

(* The stubs know nothing of the last three: they must not occur. *)
ASSUME VectorsAssumption == Vectors \subseteq (0 .. 255) \ {21, 29, 30}
ASSUME BoundsAssumption == MaxDepth \in Nat /\ MaxTraps \in Nat

(* trapframe_t, lowest address first. *)
trapframe == <<"rax", "rcx", "rdx", "rbx", "rbp", "rsi", "rdi", "r8", "r9",
               "r10", "r11", "r12", "r13", "r14", "r15", "vector", "err_code",
               "rip", "cs", "rflags", "rsp", "ss">>

CalleeSaved == {"rbx", "rbp", "r12", "r13", "r14", "r15"}
CallerSaved == {"rax", "rcx", "rdx", "rsi", "rdi", "r8", "r9", "r10", "r11"}
Registers == CalleeSaved \union CallerSaved

(* Mutant: r15 is taken for a register the handler keeps. *)
PushOrderShort == <<"r14", "r13", "r12", "r11", "r10", "r9", "r8", "rdi", "rsi",
                    "rbp", "rbx", "rdx", "rcx", "rax">>

PushOrder == <<"r15", "r14", "r13", "r12", "r11", "r10", "r9", "r8", "rdi",
               "rsi", "rbp", "rbx", "rdx", "rcx", "rax">>

(* Mutant: rcx and rdx are popped the way they were pushed. *)
PopOrderSwapped == <<"rax", "rdx", "rcx", "rbx", "rbp", "rsi", "rdi", "r8", "r9",
                     "r10", "r11", "r12", "r13", "r14", "r15">>

PopOrder == <<"rax", "rcx", "rdx", "rbx", "rbp", "rsi", "rdi", "r8", "r9",
              "r10", "r11", "r12", "r13", "r14", "r15">>

-----------------------------------------------------------------------------
VARIABLES
    rip,            \* <<where, number>>
    gpr,            \* the general registers
    rflags,         \* <<"rflags", 1>> while IF is set
    cs,             \* the code segment
    stack,
    g_handler,      \* "NULL" or "exception_handler"
    nmi_blocked,
    traps,          \* how many were taken
    interrupted     \* history: the contexts of the traps that are not over

vars == <<rip, gpr, rflags, cs, stack, g_handler, nmi_blocked, traps, interrupted>>

program == <<rflags, cs, g_handler, nmi_blocked, traps, interrupted>>

Running == rip[1] # "aborted"

(* A trap finds the program anywhere: any depth of the stack, IF set or not,
   the handler registered or not. *)
Init ==
    /\ rip = <<"program", 0>>
    /\ gpr = [r \in Registers |-> <<r, 0>>]
    /\ rflags \in {<<"rflags", 0>>, <<"rflags", 1>>}
    /\ cs = <<"cs", 0>>
    /\ \E depth \in 0 .. MaxDepth : stack = [n \in 1 .. depth |-> <<"word", n>>]
    /\ g_handler \in {"NULL", "exception_handler"}
    /\ nmi_blocked = FALSE
    /\ traps = 0
    /\ interrupted = <<>>

-----------------------------------------------------------------------------
(* The CPU takes a trap. *)

(* rsp is aligned down to 16 bytes first; ist 0 and dpl 0 mean the same stack. *)
CpuFrame(vector) ==
    (IF Len(stack) % 2 = 0 THEN <<>> ELSE <<<<"pad", 0>>>>)
    \o <<<<"ss", 0>>, <<"rsp", Len(stack)>>, rflags, cs, rip>>
    \o (IF vector \in CpuErrorCode THEN <<<<"error", vector>>>> ELSE <<>>)

(* Through gate `vector` to its stub: CS_SEL, IF cleared by the interrupt gate. *)
Enter(vector) ==
    /\ traps < MaxTraps
    /\ traps' = traps + 1
    /\ stack' = stack \o CpuFrame(vector)
    /\ rip' = <<"stub", vector>>
    /\ cs' = <<"CS_SEL", 0>>
    /\ rflags' = <<"rflags", 0>>
    /\ interrupted' = Append(interrupted,
           [vector |-> vector, rip |-> rip, gpr |-> gpr, rflags |-> rflags,
            cs |-> cs, stack |-> stack])
    /\ UNCHANGED <<gpr, g_handler>>

(* Faults are the program's; the stubs and the handler cause none. *)
Exception(vector) ==
    /\ vector \in 0 .. 31 \ {2}
    /\ rip[1] = "program"
    /\ Enter(vector)
    /\ UNCHANGED nmi_blocked

Interrupt(vector) ==
    /\ vector >= 32
    /\ Running
    /\ rflags = <<"rflags", 1>>
    /\ Enter(vector)
    /\ UNCHANGED nmi_blocked

Nmi ==
    /\ 2 \in Vectors
    /\ Running
    /\ ~nmi_blocked
    /\ nmi_blocked' = TRUE
    /\ Enter(2)

-----------------------------------------------------------------------------
(* The stub. *)

Push(word) == stack' = Append(stack, word)

StubErrorCode == {8, 10, 11, 12, 13, 14, 17}

(* Mutant: the stub of #UD forgets the missing error code. *)
PushErrorCodeMissing ==
    /\ rip[1] = "stub"
    /\ IF rip[2] \in StubErrorCode \union {6}
         THEN UNCHANGED stack
         ELSE Push(<<"error", 0>>)
    /\ rip' = <<"number", rip[2]>>
    /\ UNCHANGED <<program, gpr>>

(* pushq $0 where the CPU pushed no error code. *)
PushErrorCode ==
    /\ rip[1] = "stub"
    /\ IF rip[2] \in StubErrorCode
         THEN UNCHANGED stack
         ELSE Push(<<"error", 0>>)
    /\ rip' = <<"number", rip[2]>>
    /\ UNCHANGED <<program, gpr>>

(* pushq $vector; jmp common_exception_entry *)
PushVector ==
    /\ rip[1] = "number"
    /\ Push(<<"vector", rip[2]>>)
    /\ rip' = <<"push", 1>>
    /\ UNCHANGED <<program, gpr>>

-----------------------------------------------------------------------------
(* common_exception_entry. *)

PushRegister ==
    /\ rip[1] = "push"
    /\ Push(gpr[PushOrder[rip[2]]])
    /\ rip' = IF rip[2] < Len(PushOrder) THEN <<"push", rip[2] + 1>> ELSE <<"mov", 0>>
    /\ UNCHANGED <<program, gpr>>

(* mov %rsp, %rdi *)
MovRsp ==
    /\ rip[1] = "mov"
    /\ gpr' = [gpr EXCEPT !["rdi"] = <<"rsp", Len(stack)>>]
    /\ rip' = <<"call", 0>>
    /\ UNCHANGED <<program, stack>>

Call ==
    /\ rip[1] = "call"
    /\ Push(<<"pop", 1>>)
    /\ rip' = <<"handler", 0>>
    /\ UNCHANGED <<program, gpr>>

(* Where field f of *tf lies, tf being what rdi holds. *)
FieldAt(f) == gpr["rdi"][2] - (CHOOSE k \in DOMAIN trapframe : trapframe[k] = f) + 1
Field(f) == stack[FieldAt(f)]

(* info->rip += 2, and the call's own return address is gone by ret. *)
AdvanceRip ==
    stack' = Front([stack EXCEPT ![FieldAt("rip")] = <<@[1], @[2] + 2>>])

(* common_exception_handler: nothing without a handler; #UD moves rip, #PF and
   interrupts leave the frame alone, the rest aborts.  A C function keeps the
   callee-saved registers only. *)
Handler ==
    /\ rip[1] = "handler"
    /\ LET vector == Field("vector")[2]
           handled == vector \in {6, 14} \union 32 .. 255
       IN IF g_handler = "NULL" \/ handled
            THEN /\ IF g_handler # "NULL" /\ vector = 6
                      THEN AdvanceRip
                      ELSE stack' = Front(stack)
                 /\ gpr' = [r \in Registers |-> IF r \in CallerSaved THEN <<"junk", 0>>
                                                                     ELSE gpr[r]]
                 /\ rip' = Last(stack)
            ELSE rip' = <<"aborted", 0>> /\ UNCHANGED <<stack, gpr>>
    /\ UNCHANGED program

PopRegister ==
    /\ rip[1] = "pop"
    /\ gpr' = [gpr EXCEPT ![PopOrder[rip[2]]] = Last(stack)]
    /\ stack' = Front(stack)
    /\ rip' = IF rip[2] < Len(PopOrder) THEN <<"pop", rip[2] + 1>> ELSE <<"add", 0>>
    /\ UNCHANGED program

(* add $0x10, %rsp: past the vector and the error code. *)
AddRsp ==
    /\ rip[1] = "add"
    /\ stack' = Front(Front(stack))
    /\ rip' = <<"iretq", 0>>
    /\ UNCHANGED <<program, gpr>>

(* Pops rip, cs, rflags, rsp, ss and unblocks NMIs. *)
Iretq ==
    /\ rip[1] = "iretq"
    /\ LET n == Len(stack) IN
         /\ rip' = stack[n]
         /\ cs' = stack[n - 1]
         /\ rflags' = stack[n - 2]
         /\ stack' = SubSeq(stack, 1, stack[n - 3][2])
    /\ nmi_blocked' = FALSE
    /\ interrupted' = Front(interrupted)
    /\ UNCHANGED <<gpr, g_handler, traps>>

Execute ==
    \/ PushErrorCode \/ PushVector \/ PushRegister \/ MovRsp \/ Call
    \/ Handler \/ PopRegister \/ AddRsp \/ Iretq

Trap == Nmi \/ \E vector \in Vectors : Exception(vector) \/ Interrupt(vector)

Next == Execute \/ Trap

Spec == Init /\ [][Next]_vars

-----------------------------------------------------------------------------
(* Properties. *)

(* When the C handler starts, every field of the trapframe_t that rdi points at
   holds what the trap interrupted, whatever the vector, the depth of the stack
   and the traps that nested in between: stubs and CPU agree on the error code
   (exception.S, signal.h 8-34). *)
FrameFaithful ==
    rip[1] = "handler" =>
        LET c == Last(interrupted) IN
        /\ \A r \in Registers : Field(r) = c.gpr[r]
        /\ Field("vector") = <<"vector", c.vector>>
        /\ Field("err_code") = <<"error", IF c.vector \in CpuErrorCode THEN c.vector
                                                                      ELSE 0>>
        /\ Field("rip") = c.rip
        /\ Field("cs") = c.cs
        /\ Field("rflags") = c.rflags
        /\ Field("rsp") = <<"rsp", Len(c.stack)>>
        /\ Field("ss") = <<"ss", 0>>

(* The C code is entered with the stack the ABI asks for: rsp a multiple of 16
   at the call of common_exception_handler, so that its aligned moves do not
   fault, from any alignment of the interrupted stack. *)
AlignedAtCall == rip[1] = "call" => Len(stack) % 2 = 0

(* iretq gives the interrupted code back every register, its flags and its
   stack, and its rip, two bytes further exactly when exception_handler was
   registered and the vector was #UD. *)
Resumed ==
    [][Len(interrupted') < Len(interrupted) =>
        LET c == Last(interrupted)
            skipped == IF c.vector = 6 /\ g_handler # "NULL" THEN 2 ELSE 0
        IN /\ rip' = <<c.rip[1], c.rip[2] + skipped>>
           /\ gpr' = c.gpr
           /\ rflags' = c.rflags
           /\ cs' = c.cs
           /\ stack' = c.stack]_vars
=============================================================================
