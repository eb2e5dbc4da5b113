------------------------ MODULE ExceptionEntryProofs ------------------------
(* The way into and out of the exception handler, for any set of vectors, any depth of the
   interrupted stack, and traps nested to any depth between any two instructions. *)
EXTENDS ExceptionEntry, SequenceTheorems, TLAPS

-----------------------------------------------------------------------------
(* A word is a name and a number. *)
Names == {"program", "stub", "number", "push", "mov", "call", "handler", "pop", "add",
          "iretq", "aborted", "rflags", "cs", "CS_SEL", "ss", "pad", "rsp", "error",
          "vector", "word", "junk"} \union Registers
Words == Names \X Int

Context == [vector : Vectors, rip : Words, gpr : [Registers -> Words], rflags : Words,
            cs : Words, stack : Seq(Words)]

(* Everything the machine holds is a word; a context is what a trap interrupted. *)
TypeInv ==
    /\ rip \in Words
    /\ gpr \in [Registers -> Words]
    /\ rflags \in Words
    /\ cs \in Words
    /\ stack \in Seq(Words)
    /\ interrupted \in Seq(Context)

(* The stack at rsp aligned down, under the frame of a trap that interrupted c. *)
Base(c) == Len(c.stack) + (Len(c.stack) % 2)

ErrorCode(c) == <<"error", IF c.vector \in CpuErrorCode THEN c.vector ELSE 0>>

(* Where c goes on: two bytes further after a #UD with a handler. *)
Skip(handler, c) == IF c.vector = 6 /\ handler # "NULL" THEN 2 ELSE 0
Resumption(handler, c) == <<c.rip[1], c.rip[2] + Skip(handler, c)>>

(* What is on the stack above that of c: the CPU's words, with the place to return to,
   and the stub's. *)
Framed(c, words, return) ==
    /\ \A k \in 1 .. Len(c.stack) : words[k] = c.stack[k]
    /\ words[Base(c) + 1] = <<"ss", 0>>
    /\ words[Base(c) + 2] = <<"rsp", Len(c.stack)>>
    /\ words[Base(c) + 3] = c.rflags
    /\ words[Base(c) + 4] = c.cs
    /\ words[Base(c) + 5] = return

Numbered(c, words) ==
    /\ words[Base(c) + 6] = ErrorCode(c)
    /\ words[Base(c) + 7] = <<"vector", c.vector>>

(* The first n registers, in the order of the pushes. *)
Saved(c, words, n) == \A j \in 1 .. n : words[Base(c) + 7 + j] = c.gpr[PushOrder[j]]

(* One place of the entry code each, with what it has put on the stack and what it has
   taken off again. *)
InStub(c, at, regs, words) ==
    /\ at = <<"stub", c.vector>> /\ regs = c.gpr /\ Framed(c, words, c.rip)
    /\ c.vector \in CpuErrorCode =>
           Len(words) = Base(c) + 6 /\ words[Base(c) + 6] = ErrorCode(c)
    /\ c.vector \notin CpuErrorCode => Len(words) = Base(c) + 5

(* Before the push of the vector: the error code is there, the CPU's or the stub's. *)
InNumber(c, at, regs, words) ==
    /\ at = <<"number", c.vector>> /\ regs = c.gpr /\ Framed(c, words, c.rip)
    /\ Len(words) = Base(c) + 6 /\ words[Base(c) + 6] = ErrorCode(c)

(* Before the k-th push. *)
InPush(c, at, regs, words) ==
    \E k \in 1 .. 15 :
        /\ at = <<"push", k>> /\ regs = c.gpr /\ Framed(c, words, c.rip)
        /\ Len(words) = Base(c) + 6 + k
        /\ Numbered(c, words) /\ Saved(c, words, k - 1)

(* All is pushed; rdi is still the interrupted code's. *)
InMov(c, at, regs, words) ==
    /\ at = <<"mov", 0>> /\ regs = c.gpr /\ Framed(c, words, c.rip)
    /\ Len(words) = Base(c) + 22
    /\ Numbered(c, words) /\ Saved(c, words, 15)

(* rdi points at the frame. *)
InCall(c, at, regs, words) ==
    /\ at = <<"call", 0>> /\ Framed(c, words, c.rip)
    /\ regs = [c.gpr EXCEPT !["rdi"] = <<"rsp", Base(c) + 22>>]
    /\ Len(words) = Base(c) + 22
    /\ Numbered(c, words) /\ Saved(c, words, 15)

(* In C: the address to return to lies on top of the frame. *)
InHandler(c, at, regs, words) ==
    /\ at = <<"handler", 0>> /\ Framed(c, words, c.rip)
    /\ regs = [c.gpr EXCEPT !["rdi"] = <<"rsp", Base(c) + 22>>]
    /\ Len(words) = Base(c) + 23 /\ words[Base(c) + 23] = <<"pop", 1>>
    /\ Numbered(c, words) /\ Saved(c, words, 15)

(* Before the k-th pop: the first k - 1 registers are back, the place to go on is known. *)
InPop(handler, c, at, regs, words) ==
    \E k \in 1 .. 15 :
        /\ at = <<"pop", k>> /\ Framed(c, words, Resumption(handler, c))
        /\ \A j \in 1 .. k - 1 : regs[PopOrder[j]] = c.gpr[PopOrder[j]]
        /\ Len(words) = Base(c) + 23 - k
        /\ Saved(c, words, 16 - k)

(* All registers are back. *)
InAdd(handler, c, at, regs, words) ==
    /\ at = <<"add", 0>> /\ regs = c.gpr /\ Framed(c, words, Resumption(handler, c))
    /\ Len(words) = Base(c) + 7

(* The CPU's words alone are left. *)
InIretq(handler, c, at, regs, words) ==
    /\ at = <<"iretq", 0>> /\ regs = c.gpr /\ Framed(c, words, Resumption(handler, c))
    /\ Len(words) = Base(c) + 5

(* Code that runs on top of c, at one of its places. *)
Level(handler, c, at, regs, words) ==
    \/ InStub(c, at, regs, words) \/ InNumber(c, at, regs, words)
    \/ InPush(c, at, regs, words) \/ InMov(c, at, regs, words)
    \/ InCall(c, at, regs, words) \/ InHandler(c, at, regs, words)
    \/ InPop(handler, c, at, regs, words) \/ InAdd(handler, c, at, regs, words)
    \/ InIretq(handler, c, at, regs, words)

(* The first trap interrupted the program; every other one interrupted the entry code
   of the one before it, and the last one's entry code is what runs.  Only the first may
   be a #UD, so that no place of the entry code is skipped on the way back. *)
Nested ==
    /\ Len(interrupted) > 0 => interrupted[1].rip[1] = "program"
    /\ \A d \in 2 .. Len(interrupted) : interrupted[d].vector # 6
    /\ \A d \in 1 .. Len(interrupted) - 1 :
           Level(g_handler, interrupted[d], interrupted[d + 1].rip, interrupted[d + 1].gpr,
                 interrupted[d + 1].stack)
    /\ Len(interrupted) = 0 => rip[1] = "program"
    /\ Len(interrupted) > 0 =>
           \/ rip = <<"aborted", 0>>
           \/ Level(g_handler, interrupted[Len(interrupted)], rip, gpr, stack)

(* The inductive invariant. *)
IInv == TypeInv /\ Nested

-----------------------------------------------------------------------------
(* Lemmas about stacks and about the two orders. *)

(* What a push leaves and adds. *)
LEMMA Pushes ==
    ASSUME NEW S, NEW s \in Seq(S), NEW word \in S
    PROVE  /\ Append(s, word) \in Seq(S)
           /\ Len(Append(s, word)) = Len(s) + 1
           /\ \A k \in 1 .. Len(s) : Append(s, word)[k] = s[k]
           /\ Append(s, word)[Len(s) + 1] = word
    BY AppendProperties, LenProperties

(* What a pop leaves and gives. *)
LEMMA Pops ==
    ASSUME NEW S, NEW s \in Seq(S), Len(s) > 0
    PROVE  /\ Front(s) \in Seq(S)
           /\ Len(Front(s)) = Len(s) - 1
           /\ \A k \in 1 .. Len(s) - 1 : Front(s)[k] = s[k]
           /\ Last(s) = s[Len(s)]
<1>1. Len(s) \in Nat /\ \A k \in 1 .. Len(s) : s[k] \in S
    BY LenProperties, ElementOfSeq
<1> DEFINE m == Len(s) - 1
           front == SubSeq(s, 1, m)
<1>2. Front(s) = front
    BY DEF Front
<1>3. m \in Nat /\ \A k \in 1 .. m : s[k] \in S
    BY <1>1
<1> HIDE DEF m
<1>4. /\ front \in Seq(S)
      /\ Len(front) = IF 1 <= m THEN m - 1 + 1 ELSE 0
      /\ \A k \in 1 .. m - 1 + 1 : front[k] = s[1 + k - 1]
    BY <1>3, SubSeqProperties
<1> HIDE DEF front
<1>5. Len(front) = m
    BY <1>3, <1>4
<1>6. \A k \in 1 .. m : front[k] = s[k]
    BY <1>3, <1>4
<1>7. Last(s) = s[Len(s)]
    BY DEF Last
<1> QED
    BY <1>2, <1>4, <1>5, <1>6, <1>7 DEF m

(* The pops take back the pushes, and leave out no register. *)
LEMMA Orders ==
    /\ Len(PushOrder) = 15 /\ Len(PopOrder) = 15
    /\ \A j \in 1 .. 15 : PopOrder[j] = PushOrder[16 - j]
    /\ \A j \in 1 .. 15 : PopOrder[j] \in Registers /\ PushOrder[j] \in Registers
    /\ \A r \in Registers : \E j \in 1 .. 15 : PopOrder[j] = r
    /\ \A r \in Registers : \E j \in 1 .. 15 : PushOrder[j] = r
<1>1. /\ Len(PushOrder) = 15 /\ Len(PopOrder) = 15
    BY DEF PushOrder, PopOrder
<1>2. \A j \in 1 .. 15 : PopOrder[j] = PushOrder[16 - j]
    BY DEF PushOrder, PopOrder
<1>3. \A j \in 1 .. 15 : PopOrder[j] \in Registers
    BY DEF PopOrder, Registers, CalleeSaved, CallerSaved
<1>4. \A j \in 1 .. 15 : PushOrder[j] \in Registers
    BY DEF PushOrder, Registers, CalleeSaved, CallerSaved
<1>5. \A r \in Registers : \E j \in 1 .. 15 : PopOrder[j] = r
  <2> SUFFICES ASSUME NEW r \in Registers PROVE \E j \in 1 .. 15 : PopOrder[j] = r
    OBVIOUS
  <2>1. /\ PopOrder[1] = "rax" /\ PopOrder[2] = "rcx" /\ PopOrder[3] = "rdx"
        /\ PopOrder[4] = "rbx" /\ PopOrder[5] = "rbp" /\ PopOrder[6] = "rsi"
        /\ PopOrder[7] = "rdi" /\ PopOrder[8] = "r8" /\ PopOrder[9] = "r9"
        /\ PopOrder[10] = "r10" /\ PopOrder[11] = "r11" /\ PopOrder[12] = "r12"
        /\ PopOrder[13] = "r13" /\ PopOrder[14] = "r14" /\ PopOrder[15] = "r15"
    BY DEF PopOrder
  <2> QED
    BY <2>1 DEF Registers, CalleeSaved, CallerSaved
<1>6. \A r \in Registers : \E j \in 1 .. 15 : PushOrder[j] = r
  <2> SUFFICES ASSUME NEW r \in Registers PROVE \E j \in 1 .. 15 : PushOrder[j] = r
    OBVIOUS
  <2>1. PICK j \in 1 .. 15 : PopOrder[j] = r
    BY <1>5
  <2>2. 16 - j \in 1 .. 15 /\ PushOrder[16 - j] = r
    BY <1>2, <2>1
  <2> QED
    BY <2>2
<1> QED
    BY <1>1, <1>2, <1>3, <1>4, <1>5, <1>6

(* Where the handler finds a field: the k-th word from rdi on, rdi being the lowest. *)
LEMMA FieldPlace ==
    ASSUME NEW top \in Int, gpr["rdi"] = <<"rsp", top>>, NEW k \in 1 .. 22
    PROVE  FieldAt(trapframe[k]) = top - k + 1
<1>1. /\ DOMAIN trapframe = 1 .. 22
      /\ \A j \in 1 .. 22 : trapframe[j] = trapframe[k] => j = k
    BY DEF trapframe
<1>2. (CHOOSE j \in DOMAIN trapframe : trapframe[j] = trapframe[k]) = k
    BY <1>1
<1>3. FieldAt(trapframe[k]) =
          gpr["rdi"][2] - (CHOOSE j \in DOMAIN trapframe : trapframe[j] = trapframe[k]) + 1
    BY DEF FieldAt, Zenon
<1>4. gpr["rdi"][2] = top
    OBVIOUS
<1> QED
    BY <1>2, <1>3, <1>4

(* Where each field of the frame lies, above the aligned base. *)
LEMMA Fields ==
    ASSUME NEW c \in Context, gpr["rdi"] = <<"rsp", Base(c) + 22>>, Base(c) \in Nat
    PROVE  /\ \A j \in 1 .. 15 : FieldAt(PushOrder[j]) = Base(c) + 7 + j
           /\ FieldAt("vector") = Base(c) + 7
           /\ FieldAt("err_code") = Base(c) + 6
           /\ FieldAt("rip") = Base(c) + 5
           /\ FieldAt("cs") = Base(c) + 4
           /\ FieldAt("rflags") = Base(c) + 3
           /\ FieldAt("rsp") = Base(c) + 2
           /\ FieldAt("ss") = Base(c) + 1
<1> DEFINE top == Base(c) + 22
<1>0. top \in Int /\ gpr["rdi"] = <<"rsp", top>>
    OBVIOUS
<1> HIDE DEF top
<1>1. \A k \in 1 .. 22 : FieldAt(trapframe[k]) = top - k + 1
    BY <1>0, FieldPlace
<1>2. \A j \in 1 .. 15 : PushOrder[j] = trapframe[16 - j]
    BY DEF PushOrder, trapframe
<1>3. /\ trapframe[16] = "vector" /\ trapframe[17] = "err_code" /\ trapframe[18] = "rip"
      /\ trapframe[19] = "cs" /\ trapframe[20] = "rflags" /\ trapframe[21] = "rsp"
      /\ trapframe[22] = "ss"
    BY DEF trapframe
<1>4. /\ FieldAt(trapframe[16]) = top - 16 + 1 /\ FieldAt(trapframe[17]) = top - 17 + 1
      /\ FieldAt(trapframe[18]) = top - 18 + 1 /\ FieldAt(trapframe[19]) = top - 19 + 1
      /\ FieldAt(trapframe[20]) = top - 20 + 1 /\ FieldAt(trapframe[21]) = top - 21 + 1
      /\ FieldAt(trapframe[22]) = top - 22 + 1
    BY <1>1
<1>5. ASSUME NEW j \in 1 .. 15 PROVE FieldAt(PushOrder[j]) = Base(c) + 7 + j
  <2>1. FieldAt(trapframe[16 - j]) = top - (16 - j) + 1
    BY <1>1
  <2> QED
    BY <1>2, <2>1 DEF top
<1> QED
    BY <1>3, <1>4, <1>5 DEF top

(* A length and its own parity make an even number. *)
LEMMA Aligned ==
    ASSUME NEW n \in Nat
    PROVE  n % 2 \in {0, 1} /\ (n + (n % 2)) % 2 = 0
<1>1. n % 2 = 0 \/ n % 2 = 1
    OBVIOUS
<1>2. CASE n % 2 = 0
  <2>1. n + (n % 2) = n
    BY <1>2
  <2> QED
    BY <1>2, <2>1
<1>3. CASE n % 2 = 1
  <2>1. n = 2 * (n \div 2) + 1
    BY <1>3
  <2>2. (n + 1) % 2 = 0
    BY <2>1
  <2>3. n + (n % 2) = n + 1
    BY <1>3
  <2>4. (n + (n % 2)) % 2 = (n + 1) % 2
    BY <2>3
  <2> QED
    BY ONLY <1>3, <2>2, <2>4
<1> QED
    BY <1>1, <1>2, <1>3

(* The types of a context's fields. *)
LEMMA Contexts ==
    ASSUME NEW c \in Context
    PROVE  /\ c.vector \in Vectors /\ c.vector \in Int
           /\ c.rip \in Words
           /\ c.gpr \in [Registers -> Words]
           /\ c.rflags \in Words
           /\ c.cs \in Words
           /\ c.stack \in Seq(Words)
<1>1. /\ c.vector \in Vectors
      /\ c.rip \in Words
      /\ c.gpr \in [Registers -> Words]
      /\ c.rflags \in Words
      /\ c.cs \in Words
      /\ c.stack \in Seq(Words)
    BY DEF Context
<1>2. Vectors \subseteq Int
    BY VectorsAssumption
<1> QED
    BY <1>1, <1>2

(* The frame starts on an even word, right above the interrupted stack or one above. *)
LEMMA Bases ==
    ASSUME NEW c \in Context
    PROVE  /\ Len(c.stack) \in Nat /\ Base(c) \in Nat /\ Len(c.stack) <= Base(c)
           /\ Base(c) % 2 = 0
           /\ Base(c) = Len(c.stack) \/ Base(c) = Len(c.stack) + 1
<1>1. c.stack \in Seq(Words)
    BY DEF Context
<1>2. Len(c.stack) \in Nat
    BY <1>1
<1>3. Len(c.stack) % 2 \in {0, 1} /\ Base(c) % 2 = 0
    BY <1>2, Aligned DEF Base
<1> DEFINE n == Len(c.stack)
           odd == n % 2
<1>4. (odd = 0 \/ odd = 1) /\ n \in Nat /\ Base(c) = n + odd
    BY <1>2, <1>3 DEF Base
<1>5. Len(c.stack) = n
    OBVIOUS
<1> HIDE DEF odd, n
<1>6. n \in Nat /\ Base(c) \in Nat /\ n <= Base(c) /\ (Base(c) = n \/ Base(c) = n + 1)
    BY ONLY <1>4
<1> QED
    BY <1>3, <1>5, <1>6

-----------------------------------------------------------------------------
(* The places. *)

(* Each place is known by its name. *)
LEMMA Places ==
    ASSUME NEW handler, NEW c, NEW at, NEW regs, NEW words,
            Level(handler, c, at, regs, words)
    PROVE  /\ at[1] = "stub" => InStub(c, at, regs, words)
           /\ at[1] = "number" => InNumber(c, at, regs, words)
           /\ at[1] = "push" => InPush(c, at, regs, words)
           /\ at[1] = "mov" => InMov(c, at, regs, words)
           /\ at[1] = "call" => InCall(c, at, regs, words)
           /\ at[1] = "handler" => InHandler(c, at, regs, words)
           /\ at[1] = "pop" => InPop(handler, c, at, regs, words)
           /\ at[1] = "add" => InAdd(handler, c, at, regs, words)
           /\ at[1] = "iretq" => InIretq(handler, c, at, regs, words)
           /\ at[1] \in {"stub", "number", "push", "mov", "call", "handler", "pop", "add",
                         "iretq"}
<1>1. CASE InStub(c, at, regs, words)
  <2>1. at[1] = "stub"
    BY ONLY <1>1 DEF InStub
  <2> QED
    BY ONLY <1>1, <2>1
<1>2. CASE InNumber(c, at, regs, words)
  <2>1. at[1] = "number"
    BY ONLY <1>2 DEF InNumber
  <2> QED
    BY ONLY <1>2, <2>1
<1>3. CASE InPush(c, at, regs, words)
  <2>1. at[1] = "push"
    BY ONLY <1>3 DEF InPush
  <2> QED
    BY ONLY <1>3, <2>1
<1>4. CASE InMov(c, at, regs, words)
  <2>1. at[1] = "mov"
    BY ONLY <1>4 DEF InMov
  <2> QED
    BY ONLY <1>4, <2>1
<1>5. CASE InCall(c, at, regs, words)
  <2>1. at[1] = "call"
    BY ONLY <1>5 DEF InCall
  <2> QED
    BY ONLY <1>5, <2>1
<1>6. CASE InHandler(c, at, regs, words)
  <2>1. at[1] = "handler"
    BY ONLY <1>6 DEF InHandler
  <2> QED
    BY ONLY <1>6, <2>1
<1>7. CASE InPop(handler, c, at, regs, words)
  <2>1. at[1] = "pop"
    BY ONLY <1>7 DEF InPop
  <2> QED
    BY ONLY <1>7, <2>1
<1>8. CASE InAdd(handler, c, at, regs, words)
  <2>1. at[1] = "add"
    BY ONLY <1>8 DEF InAdd
  <2> QED
    BY ONLY <1>8, <2>1
<1>9. CASE InIretq(handler, c, at, regs, words)
  <2>1. at[1] = "iretq"
    BY ONLY <1>9 DEF InIretq
  <2> QED
    BY ONLY <1>9, <2>1
<1> QED
    BY <1>1, <1>2, <1>3, <1>4, <1>5, <1>6, <1>7, <1>8, <1>9 DEF Level

(* What lies under the words that a place may look at stays where it is. *)
LEMMA FramedStays ==
    ASSUME NEW c \in Context, NEW words, NEW after, NEW return, Framed(c, words, return),
           \A k \in 1 .. Base(c) + 5 : after[k] = words[k]
    PROVE  Framed(c, after, return)
<1>1. /\ Base(c) \in Nat /\ Len(c.stack) \in Nat /\ Len(c.stack) <= Base(c)
    BY Bases
<1>2. /\ \A k \in 1 .. Len(c.stack) : after[k] = words[k]
      /\ \A k \in 1 .. 5 : after[Base(c) + k] = words[Base(c) + k]
    BY ONLY <1>1, \A k \in 1 .. Base(c) + 5 : after[k] = words[k]
<1> QED
    BY <1>2 DEF Framed

-----------------------------------------------------------------------------
(* One instruction of the entry code. *)

(* What the words and the registers of a level are, for the lemmas below. *)
Typed(c) ==
    /\ c \in Context
    /\ rip \in Words
    /\ gpr \in [Registers -> Words]
    /\ stack \in Seq(Words)

(* The step keeps the level, and the types of what it writes. *)
Goes(c) ==
    /\ Level(g_handler, c, rip', gpr', stack')
    /\ rip' \in Words
    /\ gpr' \in [Registers -> Words]
    /\ stack' \in Seq(Words)

(* A push leaves all that was there. *)
LEMMA PushKeeps ==
    ASSUME NEW c \in Context, stack \in Seq(Words), NEW word \in Words, Push(word),
           NEW return, Framed(c, stack, return), Len(stack) >= Base(c) + 5
    PROVE  /\ stack' \in Seq(Words)
           /\ Len(stack') = Len(stack) + 1
           /\ stack'[Len(stack) + 1] = word
           /\ \A k \in 1 .. Len(stack) : stack'[k] = stack[k]
           /\ Framed(c, stack', return)
<1>1. /\ stack' \in Seq(Words)
      /\ Len(stack') = Len(stack) + 1
      /\ stack'[Len(stack) + 1] = word
      /\ \A k \in 1 .. Len(stack) : stack'[k] = stack[k]
    BY Pushes DEF Push
<1>2. Len(stack) \in Nat /\ Base(c) \in Nat
    BY Bases
<1>3. \A k \in 1 .. Base(c) + 5 : stack'[k] = stack[k]
    BY <1>1, <1>2
<1> QED
    BY <1>1, <1>3, FramedStays

(* The stub adds an error code where the CPU has pushed none. *)
LEMMA StepPushErrorCode ==
    ASSUME NEW c, Typed(c), Level(g_handler, c, rip, gpr, stack), PushErrorCode
    PROVE  Goes(c)
<1> USE DEF Typed, Goes
<1>1. InStub(c, rip, gpr, stack) /\ Base(c) \in Nat /\ Len(stack) \in Nat
    BY Places, Bases DEF PushErrorCode
<1>2. rip' = <<"number", c.vector>> /\ gpr' = gpr
    BY <1>1 DEF PushErrorCode, InStub
<1>3. c.vector \in Vectors /\ c.vector \in Int
    BY Contexts
<1>4. rip' \in Words
    BY <1>2, <1>3 DEF Words, Names
<1>5. c.vector \in StubErrorCode <=> c.vector \in CpuErrorCode
    BY <1>3, VectorsAssumption DEF StubErrorCode, CpuErrorCode
<1>6. CASE c.vector \in CpuErrorCode
  <2>1. UNCHANGED stack
    BY <1>1, <1>5, <1>6 DEF PushErrorCode, InStub
  <2>2. InNumber(c, rip', gpr', stack')
    BY <1>1, <1>2, <1>6, <2>1 DEF InStub, InNumber
  <2> QED
    BY <1>2, <1>4, <2>1, <2>2 DEF Level
<1>7. CASE c.vector \notin CpuErrorCode
  <2>1. Push(<<"error", 0>>) /\ <<"error", 0>> \in Words
    BY <1>1, <1>5, <1>7 DEF PushErrorCode, InStub, Words, Names
  <2>2. /\ stack' \in Seq(Words) /\ Len(stack') = Base(c) + 6
        /\ stack'[Base(c) + 6] = <<"error", 0>> /\ Framed(c, stack', c.rip)
    BY <1>1, <1>7, <2>1, PushKeeps DEF InStub
  <2>3. InNumber(c, rip', gpr', stack')
    BY <1>1, <1>2, <1>7, <2>2 DEF InStub, InNumber, ErrorCode
  <2> QED
    BY <1>2, <1>4, <2>2, <2>3 DEF Level
<1> QED
    BY <1>6, <1>7

(* Then its number. *)
LEMMA StepPushVector ==
    ASSUME NEW c, Typed(c), Level(g_handler, c, rip, gpr, stack), PushVector
    PROVE  Goes(c)
<1> USE DEF Typed, Goes
<1>1. InNumber(c, rip, gpr, stack) /\ Base(c) \in Nat /\ Len(stack) \in Nat
    BY Places, Bases DEF PushVector
<1>2. rip' = <<"push", 1>> /\ gpr' = gpr /\ Push(<<"vector", c.vector>>)
    BY <1>1 DEF PushVector, InNumber
<1>3. c.vector \in Int
    BY Contexts
<1>4. rip' \in Words /\ <<"vector", c.vector>> \in Words
    BY <1>2, <1>3 DEF Words, Names
<1>5. /\ stack' \in Seq(Words) /\ Len(stack') = Base(c) + 7
      /\ stack'[Base(c) + 7] = <<"vector", c.vector>> /\ Framed(c, stack', c.rip)
      /\ stack'[Base(c) + 6] = ErrorCode(c)
    BY <1>1, <1>2, <1>4, PushKeeps DEF InNumber
<1>6. Numbered(c, stack') /\ Saved(c, stack', 0)
    BY <1>5 DEF Numbered, Saved
<1>7. InPush(c, rip', gpr', stack')
  <2>1. /\ rip' = <<"push", 1>> /\ gpr' = c.gpr /\ Framed(c, stack', c.rip)
        /\ Len(stack') = Base(c) + 6 + 1 /\ Numbered(c, stack') /\ Saved(c, stack', 1 - 1)
    BY <1>1, <1>2, <1>5, <1>6 DEF InNumber
  <2> QED
    BY <2>1 DEF InPush
<1> QED
    BY <1>2, <1>4, <1>5, <1>7 DEF Level

(* One register more. *)
LEMMA StepPushRegister ==
    ASSUME NEW c, Typed(c), Level(g_handler, c, rip, gpr, stack), PushRegister
    PROVE  Goes(c)
<1> USE DEF Typed, Goes
<1>1. InPush(c, rip, gpr, stack) /\ Base(c) \in Nat /\ Len(stack) \in Nat
    BY Places, Bases DEF PushRegister
<1>2. PICK k \in 1 .. 15 :
        /\ rip = <<"push", k>> /\ gpr = c.gpr /\ Framed(c, stack, c.rip)
        /\ Len(stack) = Base(c) + 6 + k
        /\ Numbered(c, stack) /\ Saved(c, stack, k - 1)
    BY <1>1 DEF InPush
<1>3. /\ Push(gpr[PushOrder[k]]) /\ gpr' = gpr
      /\ rip' = IF k < 15 THEN <<"push", k + 1>> ELSE <<"mov", 0>>
    BY <1>2, Orders DEF PushRegister
<1>4. gpr[PushOrder[k]] \in Words
    BY Orders
<1>5. /\ stack' \in Seq(Words) /\ Len(stack') = Base(c) + 7 + k
      /\ stack'[Base(c) + 7 + k] = c.gpr[PushOrder[k]] /\ Framed(c, stack', c.rip)
      /\ \A l \in 1 .. Len(stack) : stack'[l] = stack[l]
  <2>1. Base(c) \in Nat /\ Len(stack) = Base(c) + 6 + k
    BY <1>1, <1>2
  <2>2. /\ Len(stack) >= Base(c) + 5 /\ Len(stack) + 1 = Base(c) + 7 + k
    BY ONLY <2>1, k \in 1 .. 15
  <2>3. /\ stack' \in Seq(Words)
        /\ Len(stack') = Len(stack) + 1
        /\ stack'[Len(stack) + 1] = gpr[PushOrder[k]]
        /\ \A l \in 1 .. Len(stack) : stack'[l] = stack[l]
        /\ Framed(c, stack', c.rip)
    <3> DEFINE word == gpr[PushOrder[k]]
    <3>1. Framed(c, stack, c.rip) /\ c \in Context /\ stack \in Seq(Words)
      BY <1>2
    <3>2. word \in Words /\ Push(word)
      BY <1>3, <1>4
    <3> HIDE DEF word
    <3>3. /\ stack' \in Seq(Words)
          /\ Len(stack') = Len(stack) + 1
          /\ stack'[Len(stack) + 1] = word
          /\ \A l \in 1 .. Len(stack) : stack'[l] = stack[l]
          /\ Framed(c, stack', c.rip)
      BY ONLY <2>2, <3>1, <3>2, PushKeeps
    <3> QED
      BY <3>3 DEF word
  <2>4. gpr = c.gpr
    BY <1>2
  <2> QED
    BY ONLY <2>2, <2>3, <2>4
<1>6. Numbered(c, stack')
  <2>1. \A l \in {Base(c) + 6, Base(c) + 7} : l \in 1 .. Len(stack)
    BY ONLY <1>1, <1>2, k \in 1 .. 15
  <2>2. stack'[Base(c) + 6] = stack[Base(c) + 6] /\ stack'[Base(c) + 7] = stack[Base(c) + 7]
    BY ONLY <1>5, <2>1
  <2> QED
    BY <1>2, <2>2 DEF Numbered
<1>7. Saved(c, stack', k)
  <2> SUFFICES ASSUME NEW j \in 1 .. k
               PROVE  stack'[Base(c) + 7 + j] = c.gpr[PushOrder[j]]
    BY DEF Saved
  <2>1. CASE j = k
    BY <1>5, <2>1
  <2>2. CASE j # k
    <3>1. j \in 1 .. k - 1
      BY <2>2
    <3>2. Base(c) + 7 + j \in 1 .. Len(stack)
      BY ONLY <1>1, <1>2, <3>1, k \in 1 .. 15
    <3> QED
      BY <1>2, <1>5, <3>1, <3>2 DEF Saved
  <2> QED
    BY <2>1, <2>2
<1>8. CASE k < 15
  <2>1. rip' = <<"push", k + 1>> /\ rip' \in Words
    <3>1. rip' = <<"push", k + 1>> /\ k + 1 \in Int
      BY <1>3, <1>8
    <3> QED
      BY <3>1 DEF Words, Names
  <2>2. /\ k + 1 \in 1 .. 15 /\ Len(stack') = Base(c) + 6 + (k + 1)
        /\ Saved(c, stack', (k + 1) - 1) /\ gpr' = c.gpr
    <3>1. k + 1 \in 1 .. 15 /\ (k + 1) - 1 = k
      BY <1>8
    <3>2. Len(stack') = Base(c) + 6 + (k + 1)
      BY ONLY <1>1, <1>5, k \in 1 .. 15
    <3> QED
      BY <1>2, <1>3, <1>7, <3>1, <3>2
  <2>3. InPush(c, rip', gpr', stack')
    BY <1>5, <1>6, <2>1, <2>2 DEF InPush
  <2> QED
    BY <1>3, <1>5, <2>1, <2>3 DEF Level
<1>9. CASE k = 15
  <2>1. rip' = <<"mov", 0>> /\ rip' \in Words
    BY <1>3, <1>9 DEF Words, Names
  <2>2. InMov(c, rip', gpr', stack')
    BY <1>1, <1>2, <1>3, <1>5, <1>6, <1>7, <1>9, <2>1 DEF InMov
  <2> QED
    BY <1>3, <1>5, <2>1, <2>2 DEF Level
<1> QED
    BY <1>8, <1>9

(* rdi points at the frame. *)
LEMMA StepMovRsp ==
    ASSUME NEW c, Typed(c), Level(g_handler, c, rip, gpr, stack), MovRsp
    PROVE  Goes(c)
<1> USE DEF Typed, Goes
<1>1. InMov(c, rip, gpr, stack) /\ Base(c) \in Nat
    BY Places, Bases DEF MovRsp
<1>2. /\ rip' = <<"call", 0>> /\ stack' = stack
      /\ gpr' = [gpr EXCEPT !["rdi"] = <<"rsp", Len(stack)>>]
    BY DEF MovRsp
<1>3. /\ gpr = c.gpr /\ Framed(c, stack, c.rip) /\ Len(stack) = Base(c) + 22
      /\ Numbered(c, stack) /\ Saved(c, stack, 15)
    BY <1>1 DEF InMov
<1>4. InCall(c, rip', gpr', stack')
    BY <1>2, <1>3 DEF InCall
<1>5. <<"rsp", Len(stack)>> \in Words /\ rip' \in Words
    BY <1>1, <1>2, <1>3 DEF Words, Names
<1> QED
    BY <1>2, <1>4, <1>5 DEF Level

(* The return address, on top of the frame. *)
LEMMA StepCall ==
    ASSUME NEW c, Typed(c), Level(g_handler, c, rip, gpr, stack), Call
    PROVE  Goes(c)
<1> USE DEF Typed, Goes
<1>1. InCall(c, rip, gpr, stack) /\ Base(c) \in Nat
    BY Places, Bases DEF Call
<1>2. rip' = <<"handler", 0>> /\ gpr' = gpr /\ Push(<<"pop", 1>>)
    BY DEF Call
<1>3. /\ gpr = [c.gpr EXCEPT !["rdi"] = <<"rsp", Base(c) + 22>>]
      /\ Framed(c, stack, c.rip) /\ Len(stack) = Base(c) + 22
      /\ Numbered(c, stack) /\ Saved(c, stack, 15)
    BY <1>1 DEF InCall
<1>4. <<"pop", 1>> \in Words /\ rip' \in Words
    BY <1>2 DEF Words, Names
<1>5. Len(stack) >= Base(c) + 5
    BY ONLY <1>1, <1>3
<1>6. /\ stack' \in Seq(Words) /\ Len(stack') = Len(stack) + 1
      /\ stack'[Len(stack) + 1] = <<"pop", 1>> /\ Framed(c, stack', c.rip)
      /\ \A l \in 1 .. Len(stack) : stack'[l] = stack[l]
    BY <1>2, <1>3, <1>4, <1>5, PushKeeps
<1>7. Len(stack') = Base(c) + 23 /\ stack'[Base(c) + 23] = <<"pop", 1>>
    BY <1>1, <1>3, <1>6
<1>8. /\ Base(c) + 6 \in 1 .. Len(stack) /\ Base(c) + 7 \in 1 .. Len(stack)
      /\ \A j \in 1 .. 15 : Base(c) + 7 + j \in 1 .. Len(stack)
  <2>1. Len(stack) = Base(c) + 22
    BY <1>3
  <2>2. Base(c) + 6 \in 1 .. Len(stack) /\ Base(c) + 7 \in 1 .. Len(stack)
    BY ONLY <1>1, <2>1
  <2>3. ASSUME NEW j \in 1 .. 15 PROVE Base(c) + 7 + j \in 1 .. Len(stack)
    BY ONLY <1>1, <2>1, j \in 1 .. 15
  <2> QED
    BY <2>2, <2>3
<1>9. Numbered(c, stack') /\ Saved(c, stack', 15)
    BY <1>3, <1>6, <1>8 DEF Numbered, Saved
<1>10. InHandler(c, rip', gpr', stack')
    BY <1>2, <1>3, <1>6, <1>7, <1>9 DEF InHandler
<1> QED
    BY <1>2, <1>4, <1>6, <1>10 DEF Level

(* The handler changes the return address of a #UD it skips, and no other word of the
   frame; what it does to the registers is undone by the pops. *)
LEMMA StepHandler ==
    ASSUME NEW c, Typed(c), Level(g_handler, c, rip, gpr, stack), Handler
    PROVE  \/ rip' = <<"aborted", 0>> /\ UNCHANGED <<stack, gpr>>
           \/ Goes(c)
<1> USE DEF Typed, Goes
<1>1. InHandler(c, rip, gpr, stack) /\ Base(c) \in Nat
    BY Places, Bases DEF Handler
<1>2. /\ gpr = [c.gpr EXCEPT !["rdi"] = <<"rsp", Base(c) + 22>>]
      /\ Framed(c, stack, c.rip) /\ Len(stack) = Base(c) + 23
      /\ stack[Base(c) + 23] = <<"pop", 1>>
      /\ Numbered(c, stack) /\ Saved(c, stack, 15)
    BY <1>1 DEF InHandler
<1>3. gpr["rdi"] = <<"rsp", Base(c) + 22>>
    BY <1>2, Contexts DEF Registers, CallerSaved
<1>4. FieldAt("vector") = Base(c) + 7 /\ FieldAt("rip") = Base(c) + 5
    BY <1>1, <1>3, Fields
<1>5. Field("vector")[2] = c.vector
    BY <1>2, <1>4 DEF Field, Numbered
<1>6. SUFFICES ASSUME rip' # <<"aborted", 0>> \/ ~ UNCHANGED <<stack, gpr>>
               PROVE  Goes(c)
    OBVIOUS
<1>7. /\ IF g_handler # "NULL" /\ c.vector = 6 THEN AdvanceRip ELSE stack' = Front(stack)
      /\ gpr' = [r \in Registers |-> IF r \in CallerSaved THEN <<"junk", 0>> ELSE gpr[r]]
      /\ rip' = Last(stack)
    BY <1>5, <1>6 DEF Handler
<1>8. rip' = <<"pop", 1>> /\ rip' \in Words
  <2>1. Len(stack) > 0
    BY ONLY <1>1, <1>2
  <2>2. Last(stack) = stack[Len(stack)]
    BY <2>1, Pops
  <2> QED
    BY <1>2, <1>7, <2>2 DEF Words, Names
<1>9. gpr' \in [Registers -> Words]
  <2>1. <<"junk", 0>> \in Words
    BY DEF Words, Names
  <2> QED
    BY <1>7, <2>1
<1>10. /\ stack' \in Seq(Words) /\ Len(stack') = Base(c) + 22
       /\ \A k \in 1 .. Base(c) + 22 : k # Base(c) + 5 => stack'[k] = stack[k]
       /\ stack'[Base(c) + 5] = Resumption(g_handler, c)
  <2>1. c.rip \in Words /\ c.rip = <<c.rip[1], c.rip[2]>> /\ c.rip[2] \in Int
    BY Contexts DEF Words
  <2>2. stack[Base(c) + 5] = c.rip
    BY <1>2 DEF Framed
  <2>3. CASE g_handler # "NULL" /\ c.vector = 6
    <3> DEFINE word == <<c.rip[1], c.rip[2] + 2>>
               moved == [stack EXCEPT ![Base(c) + 5] = word]
    <3>1. stack' = Front(moved)
      BY <1>4, <1>7, <2>2, <2>3 DEF AdvanceRip
    <3>2. word \in Words
      BY <2>1 DEF Words
    <3>3. /\ moved \in Seq(Words) /\ Len(moved) = Len(stack)
          /\ \A k \in 1 .. Len(stack) :
                 moved[k] = IF k = Base(c) + 5 THEN word ELSE stack[k]
      <4>1. Base(c) + 5 \in 1 .. Len(stack)
        BY <1>1, <1>2
      <4> HIDE DEF word
      <4> QED
        BY <3>2, <4>1, ExceptSeq
    <3> HIDE DEF moved
    <3>4. /\ Front(moved) \in Seq(Words) /\ Len(Front(moved)) = Len(moved) - 1
          /\ \A k \in 1 .. Len(moved) - 1 : Front(moved)[k] = moved[k]
      <4>1. Len(moved) > 0
        BY <1>1, <1>2, <3>3
      <4> QED
        BY <3>3, <4>1, Pops
    <3>5. word = Resumption(g_handler, c)
      BY <2>3 DEF Resumption, Skip
    <3> HIDE DEF word
    <3>6. /\ Len(moved) - 1 = Base(c) + 22
          /\ \A k \in 1 .. Base(c) + 22 : k \in 1 .. Len(stack)
          /\ Base(c) + 5 \in 1 .. Base(c) + 22
      BY <1>1, <1>2, <3>3
    <3> QED
      BY <3>1, <3>3, <3>4, <3>5, <3>6
  <2>4. CASE ~ (g_handler # "NULL" /\ c.vector = 6)
    <3>1. Resumption(g_handler, c) = c.rip
      BY <2>1, <2>4 DEF Resumption, Skip
    <3>2. /\ stack' \in Seq(Words) /\ Len(stack') = Len(stack) - 1
          /\ \A k \in 1 .. Len(stack) - 1 : stack'[k] = stack[k]
      <4>1. Len(stack) > 0 /\ stack' = Front(stack)
        BY <1>1, <1>2, <1>7, <2>4
      <4> QED
        BY <4>1, Pops
    <3>3. Len(stack) - 1 = Base(c) + 22 /\ Base(c) + 5 \in 1 .. Base(c) + 22
      BY <1>1, <1>2
    <3> QED
      BY <2>2, <3>1, <3>2, <3>3
  <2> QED
    BY <2>3, <2>4
<1>11. Framed(c, stack', Resumption(g_handler, c))
  <2>1. Len(c.stack) \in Nat /\ Len(c.stack) <= Base(c)
    BY Bases
  <2>2. /\ \A k \in 1 .. Len(c.stack) : stack'[k] = stack[k]
        /\ \A k \in 1 .. 4 : stack'[Base(c) + k] = stack[Base(c) + k]
    <3>1. ASSUME NEW k \in 1 .. Len(c.stack) PROVE stack'[k] = stack[k]
      <4>1. k \in 1 .. Base(c) + 22 /\ k # Base(c) + 5
        BY ONLY <1>1, <2>1, k \in 1 .. Len(c.stack)
      <4> QED
        BY <1>10, <4>1
    <3>2. ASSUME NEW k \in 1 .. 4 PROVE stack'[Base(c) + k] = stack[Base(c) + k]
      <4>1. Base(c) + k \in 1 .. Base(c) + 22 /\ Base(c) + k # Base(c) + 5
        BY ONLY <1>1, k \in 1 .. 4
      <4> QED
        BY <1>10, <4>1
    <3> QED
      BY <3>1, <3>2
  <2> QED
    BY <1>2, <1>10, <2>2 DEF Framed
<1>12. Saved(c, stack', 16 - 1)
  <2> SUFFICES ASSUME NEW j \in 1 .. 16 - 1
               PROVE  stack'[Base(c) + 7 + j] = c.gpr[PushOrder[j]]
    BY DEF Saved
  <2>1. Base(c) + 7 + j \in 1 .. Base(c) + 22 /\ Base(c) + 7 + j # Base(c) + 5
    BY ONLY <1>1, j \in 1 .. 16 - 1
  <2>2. j \in 1 .. 15
    BY ONLY j \in 1 .. 16 - 1
  <2> QED
    BY <1>2, <1>10, <2>1, <2>2 DEF Saved
<1>13. InPop(g_handler, c, rip', gpr', stack')
  <2>1. /\ rip' = <<"pop", 1>> /\ Framed(c, stack', Resumption(g_handler, c))
        /\ \A j \in 1 .. 1 - 1 : gpr'[PopOrder[j]] = c.gpr[PopOrder[j]]
        /\ Len(stack') = Base(c) + 23 - 1 /\ Saved(c, stack', 16 - 1)
    BY <1>1, <1>8, <1>10, <1>11, <1>12
  <2> QED
    BY <2>1 DEF InPop
<1> QED
    BY <1>8, <1>9, <1>10, <1>13 DEF Level

(* A pop takes the top word off; what is below stays. *)
LEMMA PopKeeps ==
    ASSUME NEW c \in Context, stack \in Seq(Words), stack' = Front(stack),
           NEW return, Framed(c, stack, return), Len(stack) >= Base(c) + 6
    PROVE  /\ stack' \in Seq(Words)
           /\ Len(stack') = Len(stack) - 1
           /\ \A k \in 1 .. Len(stack) - 1 : stack'[k] = stack[k]
           /\ Last(stack) = stack[Len(stack)]
           /\ Framed(c, stack', return)
<1>1. Len(stack) \in Nat /\ Base(c) \in Nat /\ Len(stack) > 0
    BY Bases
<1>2. /\ stack' \in Seq(Words)
      /\ Len(stack') = Len(stack) - 1
      /\ \A k \in 1 .. Len(stack) - 1 : stack'[k] = stack[k]
      /\ Last(stack) = stack[Len(stack)]
    BY <1>1, Pops
<1>3. \A k \in 1 .. Base(c) + 5 : stack'[k] = stack[k]
    BY <1>1, <1>2
<1> QED
    BY <1>2, <1>3, FramedStays

(* Each pop puts a register back; after the last one all are. *)
LEMMA StepPopRegister ==
    ASSUME NEW c, Typed(c), Level(g_handler, c, rip, gpr, stack), PopRegister
    PROVE  Goes(c)
<1> USE DEF Typed, Goes
<1>1. InPop(g_handler, c, rip, gpr, stack) /\ Base(c) \in Nat
    BY Places, Bases DEF PopRegister
<1>2. PICK k \in 1 .. 15 :
        /\ rip = <<"pop", k>> /\ Framed(c, stack, Resumption(g_handler, c))
        /\ \A j \in 1 .. k - 1 : gpr[PopOrder[j]] = c.gpr[PopOrder[j]]
        /\ Len(stack) = Base(c) + 23 - k
        /\ Saved(c, stack, 16 - k)
    BY <1>1 DEF InPop
<1>3. /\ gpr' = [gpr EXCEPT ![PopOrder[k]] = Last(stack)]
      /\ stack' = Front(stack)
      /\ rip' = IF k < 15 THEN <<"pop", k + 1>> ELSE <<"add", 0>>
    BY <1>2, Orders DEF PopRegister
<1>4. Len(stack) = Base(c) + 7 + (16 - k) /\ Len(stack) >= Base(c) + 6
  <2>1. Len(stack) = Base(c) + 23 - k
    BY <1>2
  <2>2. Base(c) \in Nat
    BY <1>1
  <2> QED
    BY ONLY <2>1, <2>2, k \in 1 .. 15
<1>5. /\ stack' \in Seq(Words) /\ Len(stack') = Len(stack) - 1
      /\ \A l \in 1 .. Len(stack) - 1 : stack'[l] = stack[l]
      /\ Last(stack) = stack[Len(stack)] /\ Framed(c, stack', Resumption(g_handler, c))
    BY <1>2, <1>3, <1>4, PopKeeps
<1>6. Last(stack) = c.gpr[PopOrder[k]]
  <2>1. 16 - k \in 1 .. 16 - k /\ PopOrder[k] = PushOrder[16 - k]
    BY Orders
  <2> QED
    BY <1>2, <1>4, <1>5, <2>1 DEF Saved
<1>7. c.gpr \in [Registers -> Words] /\ PopOrder[k] \in Registers
    BY Contexts, Orders
<1>8. gpr' \in [Registers -> Words]
    BY <1>3, <1>6, <1>7
<1>9. \A j \in 1 .. k : gpr'[PopOrder[j]] = c.gpr[PopOrder[j]]
  <2> SUFFICES ASSUME NEW j \in 1 .. k PROVE gpr'[PopOrder[j]] = c.gpr[PopOrder[j]]
    OBVIOUS
  <2>1. PopOrder[j] \in Registers
    BY Orders
  <2>2. CASE PopOrder[j] = PopOrder[k]
    BY <1>3, <1>6, <1>7, <2>2
  <2>3. CASE PopOrder[j] # PopOrder[k]
    <3>1. j \in 1 .. k - 1
      BY <2>3
    <3> QED
      BY <1>2, <1>3, <2>1, <2>3, <3>1
  <2> QED
    BY <2>2, <2>3
<1>10. CASE k < 15
  <2>1. rip' = <<"pop", k + 1>> /\ rip' \in Words
    <3>1. rip' = <<"pop", k + 1>> /\ k + 1 \in Int
      BY <1>3, <1>10
    <3> QED
      BY <3>1 DEF Words, Names
  <2>2. /\ k + 1 \in 1 .. 15 /\ (k + 1) - 1 = k
        /\ Len(stack') = Base(c) + 23 - (k + 1)
    <3>1. k + 1 \in 1 .. 15 /\ (k + 1) - 1 = k
      BY ONLY <1>10, k \in 1 .. 15
    <3>2. Len(stack') = Base(c) + 23 - (k + 1)
      BY ONLY <1>1, <1>4, <1>5, k \in 1 .. 15
    <3> QED
      BY <3>1, <3>2
  <2>3. Saved(c, stack', 16 - (k + 1))
    <3> SUFFICES ASSUME NEW j \in 1 .. 16 - (k + 1)
                 PROVE  stack'[Base(c) + 7 + j] = c.gpr[PushOrder[j]]
      BY DEF Saved
    <3>1. j \in 1 .. 16 - k /\ Base(c) + 7 + j \in 1 .. Len(stack) - 1
      BY ONLY <1>1, <1>4, k \in 1 .. 15, j \in 1 .. 16 - (k + 1)
    <3>2. stack[Base(c) + 7 + j] = c.gpr[PushOrder[j]]
      BY <1>2, <3>1 DEF Saved
    <3> QED
      BY <1>5, <3>1, <3>2
  <2>4. InPop(g_handler, c, rip', gpr', stack')
    <3>1. /\ Framed(c, stack', Resumption(g_handler, c))
          /\ \A j \in 1 .. k : gpr'[PopOrder[j]] = c.gpr[PopOrder[j]]
      BY <1>5, <1>9
    <3> DEFINE l == k + 1
    <3>2. /\ l \in 1 .. 15 /\ rip' = <<"pop", l>> /\ l - 1 = k
          /\ Len(stack') = Base(c) + 23 - l /\ Saved(c, stack', 16 - l)
      BY ONLY <2>1, <2>2, <2>3
    <3> HIDE DEF l
    <3>3. \A j \in 1 .. l - 1 : gpr'[PopOrder[j]] = c.gpr[PopOrder[j]]
      BY ONLY <3>1, <3>2
    <3> SUFFICES \E m \in 1 .. 15 :
                    /\ rip' = <<"pop", m>> /\ Framed(c, stack', Resumption(g_handler, c))
                    /\ \A j \in 1 .. m - 1 : gpr'[PopOrder[j]] = c.gpr[PopOrder[j]]
                    /\ Len(stack') = Base(c) + 23 - m
                    /\ Saved(c, stack', 16 - m)
      BY DEF InPop
    <3> QED
      BY ONLY <3>1, <3>2, <3>3
  <2> QED
    BY <1>5, <1>8, <2>1, <2>4 DEF Level
<1>11. CASE k = 15
  <2>1. rip' = <<"add", 0>> /\ rip' \in Words
    BY <1>3, <1>11 DEF Words, Names
  <2>2. gpr' = c.gpr
    <3>1. \A r \in Registers : gpr'[r] = c.gpr[r]
      BY <1>9, <1>11, Orders
    <3> QED
      BY <1>7, <1>8, <3>1
  <2>3. Len(stack') = Base(c) + 7
    BY ONLY <1>1, <1>4, <1>5, <1>11
  <2>4. InAdd(g_handler, c, rip', gpr', stack')
    BY <1>5, <2>1, <2>2, <2>3 DEF InAdd
  <2> QED
    BY <1>5, <1>8, <2>1, <2>4 DEF Level
<1> QED
    BY <1>10, <1>11

(* The vector and the error code are dropped. *)
LEMMA StepAddRsp ==
    ASSUME NEW c, Typed(c), Level(g_handler, c, rip, gpr, stack), AddRsp
    PROVE  Goes(c)
<1> USE DEF Typed, Goes
<1>1. InAdd(g_handler, c, rip, gpr, stack) /\ Base(c) \in Nat
    BY Places, Bases DEF AddRsp
<1>2. /\ gpr = c.gpr /\ Framed(c, stack, Resumption(g_handler, c))
      /\ Len(stack) = Base(c) + 7
    BY <1>1 DEF InAdd
<1>3. rip' = <<"iretq", 0>> /\ stack' = Front(Front(stack)) /\ gpr' = gpr
    BY DEF AddRsp
<1>4. rip' \in Words
    BY <1>3 DEF Words, Names
<1> DEFINE one == Front(stack)
<1>5. /\ one \in Seq(Words) /\ Len(one) = Base(c) + 6
      /\ \A k \in 1 .. Base(c) + 6 : one[k] = stack[k]
  <2>0. Len(stack) > 0
    BY ONLY <1>1, <1>2
  <2>1. /\ one \in Seq(Words) /\ Len(one) = Len(stack) - 1
        /\ \A k \in 1 .. Len(stack) - 1 : one[k] = stack[k]
    BY <2>0, Pops
  <2>2. Len(stack) - 1 = Base(c) + 6
    BY ONLY <1>1, <1>2
  <2> QED
    BY <2>1, <2>2
<1> HIDE DEF one
<1>6. /\ stack' \in Seq(Words) /\ Len(stack') = Base(c) + 5
      /\ \A k \in 1 .. Base(c) + 5 : stack'[k] = one[k]
  <2>1. stack' = Front(one)
    BY <1>3 DEF one
  <2>2. Len(one) > 0 /\ Len(one) - 1 = Base(c) + 5
    BY ONLY <1>1, <1>5
  <2>3. /\ Front(one) \in Seq(Words) /\ Len(Front(one)) = Len(one) - 1
        /\ \A k \in 1 .. Len(one) - 1 : Front(one)[k] = one[k]
    BY <1>5, <2>2, Pops
  <2> QED
    BY <2>1, <2>2, <2>3
<1>7. \A k \in 1 .. Base(c) + 5 : stack'[k] = stack[k]
    BY <1>1, <1>5, <1>6
<1>8. Framed(c, stack', Resumption(g_handler, c))
    BY <1>2, <1>7, FramedStays
<1>9. InIretq(g_handler, c, rip', gpr', stack')
    BY <1>2, <1>3, <1>6, <1>8 DEF InIretq
<1> QED
    BY <1>3, <1>4, <1>6, <1>9 DEF Level

-----------------------------------------------------------------------------
(* The CPU takes a trap. *)

(* Where the words of b \o d lie in a \o (b \o d). *)
LEMMA Pieces ==
    ASSUME NEW S, NEW a \in Seq(S), NEW b \in Seq(S)
    PROVE  /\ a \o b \in Seq(S)
           /\ Len(a \o b) = Len(a) + Len(b)
           /\ \A k \in 1 .. Len(a) : (a \o b)[k] = a[k]
           /\ \A k \in 1 .. Len(b) : (a \o b)[Len(a) + k] = b[k]
<1>1. Len(a) \in Nat /\ Len(b) \in Nat
    BY LenProperties
<1>2. /\ a \o b \in Seq(S)
      /\ Len(a \o b) = Len(a) + Len(b)
      /\ \A i \in 1 .. Len(a) + Len(b) :
             (a \o b)[i] = IF i <= Len(a) THEN a[i] ELSE b[i - Len(a)]
    BY ConcatProperties
<1>3. ASSUME NEW k \in 1 .. Len(a) PROVE (a \o b)[k] = a[k]
  <2>1. k \in 1 .. Len(a) + Len(b) /\ k <= Len(a)
    BY ONLY <1>1, k \in 1 .. Len(a)
  <2> QED
    BY <1>2, <2>1
<1>4. ASSUME NEW k \in 1 .. Len(b) PROVE (a \o b)[Len(a) + k] = b[k]
  <2>1. /\ Len(a) + k \in 1 .. Len(a) + Len(b) /\ ~ (Len(a) + k <= Len(a))
        /\ (Len(a) + k) - Len(a) = k
    BY ONLY <1>1, k \in 1 .. Len(b)
  <2> QED
    BY <1>2, <2>1
<1> QED
    BY <1>2, <1>3, <1>4

(* The frame goes on the stack aligned down, with an error code for some vectors. *)
LEMMA CpuFrames ==
    ASSUME TypeInv, NEW vector \in Vectors, stack' = stack \o CpuFrame(vector),
           NEW c \in Context, c.stack = stack, c.vector = vector, c.rip = rip,
           c.rflags = rflags, c.cs = cs
    PROVE  /\ stack' \in Seq(Words)
           /\ Framed(c, stack', c.rip)
           /\ c.vector \in CpuErrorCode =>
                  Len(stack') = Base(c) + 6 /\ stack'[Base(c) + 6] = ErrorCode(c)
           /\ c.vector \notin CpuErrorCode => Len(stack') = Base(c) + 5
<1> DEFINE n == Len(stack)
           odd == n % 2
           pad == IF n % 2 = 0 THEN <<>> ELSE <<<<"pad", 0>>>>
           five == <<<<"ss", 0>>, <<"rsp", n>>, rflags, cs, rip>>
           err == IF vector \in CpuErrorCode THEN <<<<"error", vector>>>> ELSE <<>>
           frame == pad \o five \o err
<1>1. stack \in Seq(Words) /\ n \in Nat /\ rflags \in Words /\ cs \in Words /\ rip \in Words
    BY LenProperties DEF TypeInv
<1>2. (odd = 0 \/ odd = 1) /\ Base(c) = n + odd
    BY <1>1 DEF Base
<1>3. CpuFrame(vector) = frame
    BY DEF CpuFrame
<1>4. pad \in Seq(Words) /\ Len(pad) = odd
  <2>1. <<"pad", 0>> \in Words
    BY DEF Words, Names
  <2> QED
    BY <1>2, <2>1
<1>5. /\ five \in Seq(Words) /\ Len(five) = 5
      /\ five[1] = <<"ss", 0>> /\ five[2] = <<"rsp", n>> /\ five[3] = rflags
      /\ five[4] = cs /\ five[5] = rip
  <2>1. <<"ss", 0>> \in Words /\ <<"rsp", n>> \in Words
    BY <1>1 DEF Words, Names
  <2> QED
    BY <1>1, <2>1
<1>6. /\ err \in Seq(Words)
      /\ vector \in CpuErrorCode => Len(err) = 1 /\ err[1] = <<"error", vector>>
      /\ vector \notin CpuErrorCode => Len(err) = 0
  <2>1. vector \in Int /\ <<"error", vector>> \in Words
    BY VectorsAssumption DEF Words, Names
  <2> QED
    BY <2>1
<1>14. c.stack = stack /\ Len(c.stack) = n
    OBVIOUS
<1> HIDE DEF pad, five, err, n, odd
<1> DEFINE head == pad \o five
<1>7. /\ head \in Seq(Words)
      /\ Len(head) = Len(pad) + Len(five)
      /\ \A k \in 1 .. Len(five) : head[Len(pad) + k] = five[k]
  <2>1. pad \in Seq(Words) /\ five \in Seq(Words) /\ head = pad \o five
    BY <1>4, <1>5
  <2> HIDE DEF head
  <2> QED
    BY ONLY <2>1, Pieces
<1> HIDE DEF head, frame
<1>8. frame = head \o err
    BY DEF head, frame
<1>9. /\ head \in Seq(Words) /\ Len(head) = odd + 5
      /\ \A k \in 1 .. 5 : head[odd + k] = five[k]
    BY ONLY <1>4, <1>5, <1>7
<1>10. /\ frame \in Seq(Words) /\ Len(frame) = odd + 5 + Len(err)
       /\ \A k \in 1 .. odd + 5 : frame[k] = head[k]
       /\ \A k \in 1 .. Len(err) : frame[odd + 5 + k] = err[k]
  <2>1. head \in Seq(Words) /\ err \in Seq(Words)
    BY <1>6, <1>9
  <2>2. /\ head \o err \in Seq(Words) /\ Len(head \o err) = Len(head) + Len(err)
        /\ \A k \in 1 .. Len(head) : (head \o err)[k] = head[k]
        /\ \A k \in 1 .. Len(err) : (head \o err)[Len(head) + k] = err[k]
    BY ONLY <2>1, Pieces
  <2>3. Len(head) = odd + 5
    BY <1>9
  <2> QED
    BY ONLY <1>8, <2>2, <2>3
<1>11. /\ stack' \in Seq(Words) /\ Len(stack') = n + Len(frame)
       /\ \A k \in 1 .. n : stack'[k] = stack[k]
       /\ \A k \in 1 .. Len(frame) : stack'[n + k] = frame[k]
  <2>1. stack' = stack \o frame /\ Len(stack) = n
    BY <1>3, <1>14
  <2>2. /\ stack \o frame \in Seq(Words)
        /\ Len(stack \o frame) = Len(stack) + Len(frame)
        /\ \A k \in 1 .. Len(stack) : (stack \o frame)[k] = stack[k]
        /\ \A k \in 1 .. Len(frame) : (stack \o frame)[Len(stack) + k] = frame[k]
    <3>1. stack \in Seq(Words) /\ frame \in Seq(Words)
      BY <1>1, <1>10
    <3> QED
      BY ONLY <3>1, Pieces
  <2> QED
    BY ONLY <2>1, <2>2
<1>12. Len(err) \in Nat
    BY <1>6, LenProperties
<1>13. ASSUME NEW k \in 1 .. 5 PROVE stack'[Base(c) + k] = five[k]
  <2>1. /\ odd + k \in 1 .. odd + 5 /\ odd + k \in 1 .. odd + 5 + Len(err)
        /\ n + (odd + k) = (n + odd) + k
    BY ONLY <1>1, <1>2, <1>12, k \in 1 .. 5
  <2>2. stack'[n + (odd + k)] = frame[odd + k] /\ frame[odd + k] = head[odd + k]
    BY <1>10, <1>11, <2>1
  <2> QED
    BY <1>2, <1>9, <2>1, <2>2
<1>15. Framed(c, stack', c.rip)
  <2>1. \A k \in 1 .. Len(c.stack) : stack'[k] = c.stack[k]
    BY <1>11, <1>14
  <2>2. /\ stack'[Base(c) + 1] = five[1] /\ stack'[Base(c) + 2] = five[2]
        /\ stack'[Base(c) + 3] = five[3] /\ stack'[Base(c) + 4] = five[4]
        /\ stack'[Base(c) + 5] = five[5]
    BY ONLY <1>13
  <2> QED
    BY <1>5, <1>14, <2>1, <2>2 DEF Framed
<1>16. ASSUME vector \in CpuErrorCode
       PROVE  Len(stack') = Base(c) + 6 /\ stack'[Base(c) + 6] = ErrorCode(c)
  <2>1. Len(err) = 1 /\ err[1] = ErrorCode(c)
    BY <1>6, <1>16 DEF ErrorCode
  <2>2. /\ 1 \in 1 .. Len(err) /\ odd + 5 + 1 \in 1 .. odd + 5 + Len(err)
        /\ n + (odd + 5 + 1) = (n + odd) + 6 /\ n + (odd + 5 + Len(err)) = (n + odd) + 6
    BY ONLY <1>1, <1>2, <2>1
  <2>3. frame[odd + 5 + 1] = err[1] /\ stack'[n + (odd + 5 + 1)] = frame[odd + 5 + 1]
    BY <1>10, <1>11, <2>2
  <2> QED
    BY <1>2, <1>10, <1>11, <2>1, <2>2, <2>3
<1>17. ASSUME vector \notin CpuErrorCode PROVE Len(stack') = Base(c) + 5
  <2>1. Len(err) = 0
    BY <1>6, <1>17
  <2>2. n + (odd + 5 + Len(err)) = (n + odd) + 5
    BY ONLY <1>1, <1>2, <2>1
  <2> QED
    BY <1>2, <1>10, <1>11, <2>2
<1> QED
    BY <1>11, <1>15, <1>16, <1>17

(* A trap opens a level of its own. *)
LEMMA Enters ==
    ASSUME TypeInv, NEW vector \in Vectors, Enter(vector)
    PROVE  /\ TypeInv'
           /\ \E c \in Context :
                  /\ interrupted' = Append(interrupted, c)
                  /\ c.vector = vector /\ c.rip = rip /\ c.gpr = gpr /\ c.stack = stack
                  /\ Level(g_handler, c, rip', gpr', stack')
<1> DEFINE c == [vector |-> vector, rip |-> rip, gpr |-> gpr, rflags |-> rflags,
                 cs |-> cs, stack |-> stack]
<1>1. c \in Context
    BY DEF TypeInv, Context
<1>2. /\ c.vector = vector /\ c.rip = rip /\ c.gpr = gpr /\ c.stack = stack
      /\ c.rflags = rflags /\ c.cs = cs
    OBVIOUS
<1>3. /\ stack' = stack \o CpuFrame(vector) /\ rip' = <<"stub", vector>> /\ gpr' = gpr
      /\ cs' = <<"CS_SEL", 0>> /\ rflags' = <<"rflags", 0>>
      /\ interrupted' = Append(interrupted, c)
    BY DEF Enter
<1> HIDE DEF c
<1>4. /\ stack' \in Seq(Words)
      /\ Framed(c, stack', c.rip)
      /\ c.vector \in CpuErrorCode =>
             Len(stack') = Base(c) + 6 /\ stack'[Base(c) + 6] = ErrorCode(c)
      /\ c.vector \notin CpuErrorCode => Len(stack') = Base(c) + 5
    BY <1>1, <1>2, <1>3, CpuFrames
<1>5. InStub(c, rip', gpr', stack')
    BY <1>2, <1>3, <1>4 DEF InStub
<1>6. /\ rip' \in Words /\ cs' \in Words /\ rflags' \in Words
  <2>1. vector \in Int
    BY VectorsAssumption
  <2> QED
    BY <1>3, <2>1 DEF Words, Names
<1>7. interrupted' \in Seq(Context)
    BY <1>1, <1>3, Pushes DEF TypeInv
<1>8. TypeInv'
    BY <1>3, <1>4, <1>6, <1>7 DEF TypeInv
<1> QED
    BY <1>1, <1>2, <1>3, <1>5, <1>8 DEF Level

-----------------------------------------------------------------------------
(* The way back. *)

(* iretq restores what the frame holds, which is what the CPU found at the trap. *)
LEMMA Returns ==
    ASSUME NEW c, Typed(c), Level(g_handler, c, rip, gpr, stack), Iretq
    PROVE  /\ rip' = Resumption(g_handler, c)
           /\ gpr' = c.gpr /\ rflags' = c.rflags /\ cs' = c.cs /\ stack' = c.stack
<1> USE DEF Typed
<1>1. InIretq(g_handler, c, rip, gpr, stack) /\ Base(c) \in Nat
    BY Places, Bases DEF Iretq
<1>2. /\ gpr = c.gpr /\ Framed(c, stack, Resumption(g_handler, c))
      /\ Len(stack) = Base(c) + 5
    BY <1>1 DEF InIretq
<1>3. /\ Len(c.stack) \in Nat /\ Len(c.stack) <= Base(c) /\ c.stack \in Seq(Words)
    BY Bases, Contexts
<1>4. /\ Len(stack) - 1 = Base(c) + 4 /\ Len(stack) - 2 = Base(c) + 3
      /\ Len(stack) - 3 = Base(c) + 2
    BY ONLY <1>1, <1>2
<1>5. /\ rip' = stack[Len(stack)] /\ cs' = stack[Len(stack) - 1]
      /\ rflags' = stack[Len(stack) - 2]
      /\ stack' = SubSeq(stack, 1, stack[Len(stack) - 3][2]) /\ gpr' = gpr
    BY DEF Iretq
<1>6. /\ rip' = Resumption(g_handler, c) /\ cs' = c.cs /\ rflags' = c.rflags
      /\ stack' = SubSeq(stack, 1, Len(c.stack))
  <2>1. /\ rip' = stack[Base(c) + 5] /\ cs' = stack[Base(c) + 4]
        /\ rflags' = stack[Base(c) + 3] /\ stack' = SubSeq(stack, 1, stack[Base(c) + 2][2])
    BY ONLY <1>2, <1>4, <1>5
  <2>2. /\ stack[Base(c) + 5] = Resumption(g_handler, c) /\ stack[Base(c) + 4] = c.cs
        /\ stack[Base(c) + 3] = c.rflags /\ stack[Base(c) + 2] = <<"rsp", Len(c.stack)>>
    BY ONLY <1>2 DEF Framed
  <2> QED
    BY ONLY <2>1, <2>2
<1>7. stack' = c.stack
  <2> DEFINE n == Len(c.stack)
             kept == SubSeq(stack, 1, n)
  <2>1. \A k \in 1 .. n : stack[k] = c.stack[k] /\ stack[k] \in Words
    <3>1. \A k \in 1 .. n : c.stack[k] \in Words
      BY <1>3, ElementOfSeq
    <3> QED
      BY <1>2, <3>1 DEF Framed
  <2>2. n \in Nat /\ c.stack \in Seq(Words) /\ Len(c.stack) = n
    BY <1>3
  <2> HIDE DEF n
  <2>3. /\ kept \in Seq(Words)
        /\ Len(kept) = IF 1 <= n THEN n - 1 + 1 ELSE 0
        /\ \A k \in 1 .. n - 1 + 1 : kept[k] = stack[1 + k - 1]
    BY <2>1, <2>2, SubSeqProperties
  <2>4. stack' = kept
    BY <1>6 DEF n
  <2> HIDE DEF kept
  <2>5. Len(kept) = n
    BY ONLY <2>2, <2>3
  <2>6. \A k \in 1 .. n : kept[k] = stack[k]
    BY ONLY <2>2, <2>3
  <2>7. \A k \in 1 .. Len(kept) : kept[k] = c.stack[k]
    BY ONLY <2>1, <2>5, <2>6
  <2> QED
    BY <2>2, <2>3, <2>4, <2>5, <2>7, SeqEqual
<1> QED
    BY <1>2, <1>5, <1>6, <1>7

-----------------------------------------------------------------------------
(* The invariant. *)

(* Nested, after a step that leaves the handler alone. *)
LEMMA NestedAfter ==
    ASSUME UNCHANGED g_handler,
           Len(interrupted') > 0 => interrupted'[1].rip[1] = "program",
           \A d \in 2 .. Len(interrupted') : interrupted'[d].vector # 6,
           \A d \in 1 .. Len(interrupted') - 1 :
               Level(g_handler, interrupted'[d], interrupted'[d + 1].rip,
                     interrupted'[d + 1].gpr, interrupted'[d + 1].stack),
           Len(interrupted') = 0 => rip'[1] = "program",
           Len(interrupted') > 0 =>
               \/ rip' = <<"aborted", 0>>
               \/ Level(g_handler, interrupted'[Len(interrupted')], rip', gpr', stack')
    PROVE  Nested'
    BY DEF Nested

(* What runs, when it is not the program, is the last trap's entry code. *)
LEMMA Innermost ==
    ASSUME IInv, rip[1] # "program", Running
    PROVE  /\ Len(interrupted) > 0
           /\ interrupted[Len(interrupted)] \in Context
           /\ Typed(interrupted[Len(interrupted)])
           /\ Level(g_handler, interrupted[Len(interrupted)], rip, gpr, stack)
<1> USE DEF IInv, TypeInv, Nested, Running
<1>1. Len(interrupted) \in Nat /\ Len(interrupted) # 0
    BY LenProperties
<1>2. Len(interrupted) > 0 /\ Len(interrupted) \in 1 .. Len(interrupted)
    BY ONLY <1>1
<1>3. interrupted[Len(interrupted)] \in Context
    BY <1>2, ElementOfSeq
<1>4. rip # <<"aborted", 0>>
    OBVIOUS
<1> QED
    BY <1>2, <1>3, <1>4 DEF Typed

(* The program itself runs only when no trap is being handled. *)
LEMMA Outermost ==
    ASSUME IInv, rip[1] = "program"
    PROVE  Len(interrupted) = 0
<1> SUFFICES ASSUME Len(interrupted) # 0 PROVE FALSE
    OBVIOUS
<1>1. Len(interrupted) \in Nat
    BY LenProperties DEF IInv, TypeInv
<1>2. Len(interrupted) > 0
    BY ONLY <1>1, Len(interrupted) # 0
<1>3. \/ rip = <<"aborted", 0>>
      \/ Level(g_handler, interrupted[Len(interrupted)], rip, gpr, stack)
    BY <1>2 DEF IInv, Nested
<1>4. CASE rip = <<"aborted", 0>>
    BY <1>4
<1>5. CASE Level(g_handler, interrupted[Len(interrupted)], rip, gpr, stack)
    BY <1>5, Places
<1> QED
    BY <1>3, <1>4, <1>5

(* An instruction of the entry code that stays on its level. *)
LEMMA Kept ==
    ASSUME IInv, Len(interrupted) > 0, UNCHANGED program,
           \/ rip' = <<"aborted", 0>> /\ UNCHANGED <<stack, gpr>>
           \/ Goes(interrupted[Len(interrupted)])
    PROVE  IInv'
<1>1. UNCHANGED <<rflags, cs, g_handler, interrupted>>
    BY DEF program
<1>2. rip' \in Words /\ gpr' \in [Registers -> Words] /\ stack' \in Seq(Words)
  <2>1. <<"aborted", 0>> \in Words
    BY DEF Words, Names
  <2> QED
    BY <2>1 DEF Goes, IInv, TypeInv
<1>3. TypeInv'
    BY <1>1, <1>2 DEF IInv, TypeInv
<1>4. \/ rip' = <<"aborted", 0>>
      \/ Level(g_handler, interrupted[Len(interrupted)], rip', gpr', stack')
    BY DEF Goes
<1>5. Nested'
  <2>1. /\ Len(interrupted) # 0
        /\ interrupted[1].rip[1] = "program"
        /\ \A d \in 2 .. Len(interrupted) : interrupted[d].vector # 6
        /\ \A d \in 1 .. Len(interrupted) - 1 :
               Level(g_handler, interrupted[d], interrupted[d + 1].rip,
                     interrupted[d + 1].gpr, interrupted[d + 1].stack)
    BY DEF IInv, Nested
  <2> QED
    BY <1>1, <1>4, <2>1, NestedAfter
<1> QED
    BY <1>3, <1>5 DEF IInv

(* One case for each instruction before iretq. *)
LEMMA ExecuteKeeps ==
    ASSUME IInv, Execute, ~ Iretq
    PROVE  IInv'
<1>1. UNCHANGED program /\ rip[1] # "program" /\ Running
    BY DEF Execute, PushErrorCode, PushVector, PushRegister, MovRsp, Call, Handler,
           PopRegister, AddRsp, Running
<1> DEFINE c == interrupted[Len(interrupted)]
<1>2. Len(interrupted) > 0 /\ Typed(c) /\ Level(g_handler, c, rip, gpr, stack)
    BY <1>1, Innermost
<1> HIDE DEF c
<1>3. \/ rip' = <<"aborted", 0>> /\ UNCHANGED <<stack, gpr>>
      \/ Goes(c)
  <2>1. CASE PushErrorCode
    BY <1>2, <2>1, StepPushErrorCode
  <2>2. CASE PushVector
    BY <1>2, <2>2, StepPushVector
  <2>3. CASE PushRegister
    BY <1>2, <2>3, StepPushRegister
  <2>4. CASE MovRsp
    BY <1>2, <2>4, StepMovRsp
  <2>5. CASE Call
    BY <1>2, <2>5, StepCall
  <2>6. CASE Handler
    BY <1>2, <2>6, StepHandler
  <2>7. CASE PopRegister
    BY <1>2, <2>7, StepPopRegister
  <2>8. CASE AddRsp
    BY <1>2, <2>8, StepAddRsp
  <2> QED
    BY <2>1, <2>2, <2>3, <2>4, <2>5, <2>6, <2>7, <2>8 DEF Execute
<1> QED
    BY <1>1, <1>2, <1>3, Kept DEF c

(* iretq closes the last level: the one below is where its trap interrupted it, because
   only a #UD moves the place and only the program takes one. *)
LEMMA IretqKeeps ==
    ASSUME IInv, Iretq
    PROVE  IInv'
<1> DEFINE D == Len(interrupted)
           c == interrupted[D]
<1>1. D > 0 /\ c \in Context /\ Typed(c) /\ Level(g_handler, c, rip, gpr, stack)
    BY Innermost DEF Iretq, Running
<1>2. interrupted \in Seq(Context) /\ D \in Nat
    BY LenProperties DEF IInv, TypeInv
<1>3. /\ rip' = Resumption(g_handler, c)
      /\ gpr' = c.gpr /\ rflags' = c.rflags /\ cs' = c.cs /\ stack' = c.stack
  <2> HIDE DEF c
  <2> QED
    BY <1>1, Returns
<1>4. UNCHANGED g_handler /\ interrupted' = Front(interrupted)
    BY DEF Iretq
<1>5. /\ interrupted' \in Seq(Context) /\ Len(interrupted') = D - 1
      /\ \A d \in 1 .. D - 1 : interrupted'[d] = interrupted[d]
    BY <1>1, <1>2, <1>4, Pops
<1>6. /\ D > 0 => interrupted[1].rip[1] = "program"
      /\ \A d \in 2 .. D : interrupted[d].vector # 6
      /\ \A d \in 1 .. D - 1 :
             Level(g_handler, interrupted[d], interrupted[d + 1].rip,
                   interrupted[d + 1].gpr, interrupted[d + 1].stack)
    BY DEF IInv, Nested
<1>7. /\ c.rip \in Words /\ c.rip = <<c.rip[1], c.rip[2]>> /\ c.rip[1] \in Names
      /\ c.rip[2] \in Int
  <2> HIDE DEF c
  <2> QED
    BY <1>1, Contexts DEF Words
<1>8. rip' \in Words /\ rip'[1] = c.rip[1]
  <2> HIDE DEF c
  <2> QED
    BY <1>3, <1>7 DEF Resumption, Skip, Words
<1>9. TypeInv'
  <2> HIDE DEF c
  <2> QED
    BY <1>1, <1>3, <1>5, <1>8, Contexts DEF TypeInv
<1>10. CASE D = 1
  <2>1. rip'[1] = "program" /\ Len(interrupted') = 0
    BY <1>1, <1>5, <1>6, <1>8, <1>10
  <2>2. Nested'
    BY <1>4, <2>1, NestedAfter
  <2> QED
    BY <1>9, <2>2 DEF IInv
<1>11. CASE D # 1
  <2>1. D - 1 \in 1 .. D - 1 /\ (D - 1) + 1 = D /\ D \in 2 .. D /\ 1 \in 1 .. D - 1
    <3>1. D > 0 /\ D \in Nat /\ D # 1
      BY <1>1, <1>2, <1>11
    <3> HIDE DEF D, c
    <3> QED
      BY ONLY <3>1
  <2>2. c.vector # 6
    BY <1>6, <2>1
  <2>3. rip' = c.rip
    <3> HIDE DEF c
    <3> QED
      BY <1>3, <1>7, <2>2 DEF Resumption, Skip
  <2>4. Level(g_handler, interrupted[D - 1], c.rip, c.gpr, c.stack)
    BY <1>6, <2>1
  <2>5. Level(g_handler, interrupted'[Len(interrupted')], rip', gpr', stack')
    <3> HIDE DEF c
    <3> QED
      BY <1>3, <1>5, <2>1, <2>3, <2>4
  <2>6. interrupted'[1].rip[1] = "program"
    BY <1>1, <1>5, <1>6, <2>1
  <2>7. \A d \in 2 .. Len(interrupted') : interrupted'[d].vector # 6
    <3> SUFFICES ASSUME NEW d \in 2 .. D - 1 PROVE interrupted'[d].vector # 6
      BY <1>5
    <3>1. d \in 1 .. D - 1 /\ d \in 2 .. D
      BY ONLY <1>2, d \in 2 .. D - 1
    <3> QED
      BY <1>5, <1>6, <3>1
  <2>8. \A d \in 1 .. Len(interrupted') - 1 :
            Level(g_handler, interrupted'[d], interrupted'[d + 1].rip,
                  interrupted'[d + 1].gpr, interrupted'[d + 1].stack)
    <3> SUFFICES ASSUME NEW d \in 1 .. D - 2
                 PROVE  Level(g_handler, interrupted'[d], interrupted'[d + 1].rip,
                              interrupted'[d + 1].gpr, interrupted'[d + 1].stack)
      <4>1. Len(interrupted') - 1 = D - 2
        BY ONLY <1>2, <1>5
      <4> QED
        BY <4>1
    <3>1. d \in 1 .. D - 1 /\ d + 1 \in 1 .. D - 1
      BY ONLY <1>2, d \in 1 .. D - 2
    <3>2. interrupted'[d] = interrupted[d] /\ interrupted'[d + 1] = interrupted[d + 1]
      BY <1>5, <3>1
    <3> QED
      BY <1>6, <3>1, <3>2
  <2>9. Len(interrupted') # 0
    BY ONLY <1>2, <1>5, <2>1
  <2>10. Nested'
    BY <1>4, <2>5, <2>6, <2>7, <2>8, <2>9, NestedAfter
  <2> QED
    BY <1>9, <2>10 DEF IInv
<1> QED
    BY <1>10, <1>11

(* A trap opens a level on top of what runs. *)
LEMMA EnterKeeps ==
    ASSUME IInv, NEW vector \in Vectors, Running, Enter(vector),
           vector = 6 => rip[1] = "program"
    PROVE  IInv'
<1> DEFINE D == Len(interrupted)
<1>1. interrupted \in Seq(Context) /\ D \in Nat /\ TypeInv
    BY LenProperties DEF IInv, TypeInv
<1>2. TypeInv' /\ UNCHANGED g_handler
    BY <1>1, Enters DEF Enter
<1>3. PICK c \in Context :
        /\ interrupted' = Append(interrupted, c)
        /\ c.vector = vector /\ c.rip = rip /\ c.gpr = gpr /\ c.stack = stack
        /\ Level(g_handler, c, rip', gpr', stack')
    BY <1>1, Enters
<1>4. /\ Len(interrupted') = D + 1
      /\ \A d \in 1 .. D : interrupted'[d] = interrupted[d]
      /\ interrupted'[D + 1] = c
    BY <1>1, <1>3, Pushes
<1>5. /\ D > 0 => interrupted[1].rip[1] = "program"
      /\ \A d \in 2 .. D : interrupted[d].vector # 6
      /\ \A d \in 1 .. D - 1 :
             Level(g_handler, interrupted[d], interrupted[d + 1].rip,
                   interrupted[d + 1].gpr, interrupted[d + 1].stack)
      /\ D = 0 => rip[1] = "program"
    BY DEF IInv, Nested
<1>6. D > 0 => rip[1] # "program" /\ Level(g_handler, interrupted[D], rip, gpr, stack)
  <2>1. D > 0 => rip[1] # "program"
    BY Outermost
  <2> QED
    BY <2>1, Innermost
<1> HIDE DEF D
<1>7. Len(interrupted') # 0
    BY ONLY <1>1, <1>4
<1>8. interrupted'[1].rip[1] = "program"
  <2>1. CASE D = 0
    <3>1. interrupted'[1] = c
      BY <1>4, <2>1
    <3> QED
      BY <1>3, <1>5, <2>1, <3>1
  <2>2. CASE D # 0
    <3>1. D > 0 /\ 1 \in 1 .. D
      BY ONLY <1>1, <2>2
    <3> QED
      BY <1>4, <1>5, <3>1
  <2> QED
    BY <2>1, <2>2
<1>9. ASSUME NEW d \in 2 .. D + 1 PROVE interrupted'[d].vector # 6
  <2>1. CASE d = D + 1
    <3>1. D > 0
      BY ONLY <1>1, <2>1, d \in 2 .. D + 1
    <3> QED
      BY <1>3, <1>4, <1>6, <2>1, <3>1
  <2>2. CASE d # D + 1
    <3>1. d \in 2 .. D /\ d \in 1 .. D
      BY ONLY <1>1, <2>2, d \in 2 .. D + 1
    <3> QED
      BY <1>4, <1>5, <3>1
  <2> QED
    BY <2>1, <2>2
<1>10. ASSUME NEW d \in 1 .. D
       PROVE  Level(g_handler, interrupted'[d], interrupted'[d + 1].rip,
                    interrupted'[d + 1].gpr, interrupted'[d + 1].stack)
  <2>1. CASE d = D
    <3>1. D > 0 /\ D \in 1 .. D
      BY ONLY <1>1, <2>1, d \in 1 .. D
    <3> QED
      BY <1>3, <1>4, <1>6, <2>1, <3>1
  <2>2. CASE d # D
    <3>1. d \in 1 .. D - 1 /\ d + 1 \in 1 .. D
      BY ONLY <1>1, <2>2, d \in 1 .. D
    <3>2. interrupted'[d] = interrupted[d] /\ interrupted'[d + 1] = interrupted[d + 1]
      BY <1>4, <3>1
    <3> QED
      BY <1>5, <3>1, <3>2
  <2> QED
    BY <2>1, <2>2
<1>11. Len(interrupted') = D + 1 /\ Len(interrupted') - 1 = D
    BY ONLY <1>1, <1>4
<1>12. Level(g_handler, interrupted'[Len(interrupted')], rip', gpr', stack')
    BY <1>3, <1>4, <1>11
<1>13. Nested'
    BY <1>2, <1>7, <1>8, <1>9, <1>10, <1>11, <1>12, NestedAfter
<1> QED
    BY <1>2, <1>13 DEF IInv

(* Only an exception can be a #UD, and only the program raises one. *)
LEMMA TrapKeeps ==
    ASSUME IInv, Trap
    PROVE  IInv'
<1>1. CASE Nmi
    BY <1>1, EnterKeeps DEF Nmi
<1>2. CASE \E vector \in Vectors : Exception(vector)
  <2>1. PICK vector \in Vectors : Exception(vector)
    BY <1>2
  <2>2. rip[1] = "program" /\ Enter(vector) /\ Running
    BY <2>1 DEF Exception, Running
  <2> QED
    BY <2>2, EnterKeeps
<1>3. CASE \E vector \in Vectors : Interrupt(vector)
  <2>1. PICK vector \in Vectors : Interrupt(vector)
    BY <1>3
  <2>2. vector # 6 /\ Enter(vector) /\ Running
    BY <2>1 DEF Interrupt
  <2> QED
    BY <2>2, EnterKeeps
<1> QED
    BY <1>1, <1>2, <1>3 DEF Trap

(* No trap is being handled at first, and the words of the stack are the program's. *)
LEMMA InitIInv == Init => IInv
<1> SUFFICES ASSUME Init PROVE IInv
    OBVIOUS
<1>1. PICK depth \in 0 .. MaxDepth : stack = [n \in 1 .. depth |-> <<"word", n>>]
    BY DEF Init
<1>2. stack \in Seq(Words)
  <2>1. depth \in Nat
    BY BoundsAssumption
  <2>2. \A n \in 1 .. depth : <<"word", n>> \in Words
    BY <2>1 DEF Words, Names
  <2> QED
    BY <1>1, <2>1, <2>2, IsASeq
<1>3. gpr \in [Registers -> Words]
  <2>1. \A r \in Registers : <<r, 0>> \in Words
    BY DEF Words, Names
  <2> QED
    BY <2>1 DEF Init
<1>4. rip \in Words /\ rflags \in Words /\ cs \in Words
  <2>1. /\ <<"program", 0>> \in Words /\ <<"rflags", 0>> \in Words
        /\ <<"rflags", 1>> \in Words /\ <<"cs", 0>> \in Words
    BY DEF Words, Names
  <2> QED
    BY <2>1 DEF Init
<1>5. interrupted = <<>> /\ Len(interrupted) = 0 /\ rip[1] = "program"
    BY DEF Init
<1>6. TypeInv
    BY <1>2, <1>3, <1>4, <1>5 DEF TypeInv
<1>7. Nested
    BY <1>5 DEF Nested
<1> QED
    BY <1>6, <1>7 DEF IInv

(* Every step keeps the invariant. *)
LEMMA NextIInv == IInv /\ [Next]_vars => IInv'
<1> SUFFICES ASSUME IInv, [Next]_vars PROVE IInv'
    OBVIOUS
<1>1. CASE Iretq
    BY <1>1, IretqKeeps
<1>2. CASE Execute /\ ~ Iretq
    BY <1>2, ExecuteKeeps
<1>3. CASE Trap
    BY <1>3, TrapKeeps
<1>4. CASE UNCHANGED vars
    BY <1>4 DEF vars, IInv, TypeInv, Nested
<1> QED
    BY <1>1, <1>2, <1>3, <1>4 DEF Next, Execute

(* In every state the stack holds, for each trap that is not over, exactly the words its
   entry code has put there, and the registers are those of the code it interrupted as
   far as they are not clobbered (exception.S, signal.h). *)
THEOREM InvHolds == Spec => []IInv
    BY InitIInv, NextIInv, PTL DEF Spec

-----------------------------------------------------------------------------
(* Whatever was interrupted, and at whatever depth of its stack, the C handler is called
   with a stack aligned to 16 bytes: the CPU aligns it and the stubs and the pushes add
   an even number of words (exception.S, signal.h 8-34). *)
THEOREM CallsAreAligned == Spec => []AlignedAtCall
<1>1. IInv => AlignedAtCall
  <2> SUFFICES ASSUME IInv, rip[1] = "call" PROVE Len(stack) % 2 = 0
    BY DEF AlignedAtCall
  <2> DEFINE c == interrupted[Len(interrupted)]
  <2>1. c \in Context /\ Level(g_handler, c, rip, gpr, stack)
    BY Innermost DEF Running
  <2> HIDE DEF c
  <2>2. Len(stack) = Base(c) + 22
    BY <2>1, Places DEF InCall
  <2> DEFINE b == Base(c)
  <2>3. b \in Nat /\ b % 2 = 0 /\ Len(stack) = b + 22
    BY <2>1, <2>2, Bases
  <2> HIDE DEF b
  <2>4. (b + 22) % 2 = 0
    BY ONLY <2>3
  <2> QED
    BY <2>3, <2>4
<1> QED
    BY <1>1, InvHolds, PTL

(* Every field of the frame the handler is given holds what the trap interrupted, for
   every vector, however deep the traps nest (signal.h, exception.S). *)
THEOREM FramesAreFaithful == Spec => []FrameFaithful
<1>1. IInv => FrameFaithful
  <2> SUFFICES ASSUME IInv, rip[1] = "handler" PROVE FrameFaithful
    BY DEF FrameFaithful
  <2> DEFINE c == interrupted[Len(interrupted)]
  <2>1. c \in Context /\ Level(g_handler, c, rip, gpr, stack) /\ Last(interrupted) = c
    BY Innermost DEF Running, Last
  <2> HIDE DEF c
  <2>2. InHandler(c, rip, gpr, stack) /\ Base(c) \in Nat
    BY <2>1, Places, Bases
  <2>3. gpr["rdi"] = <<"rsp", Base(c) + 22>>
    BY <2>1, <2>2, Contexts DEF InHandler, Registers, CallerSaved
  <2>4. /\ \A j \in 1 .. 15 : FieldAt(PushOrder[j]) = Base(c) + 7 + j
        /\ FieldAt("vector") = Base(c) + 7
        /\ FieldAt("err_code") = Base(c) + 6
        /\ FieldAt("rip") = Base(c) + 5
        /\ FieldAt("cs") = Base(c) + 4
        /\ FieldAt("rflags") = Base(c) + 3
        /\ FieldAt("rsp") = Base(c) + 2
        /\ FieldAt("ss") = Base(c) + 1
    BY <2>1, <2>2, <2>3, Fields
  <2>5. Framed(c, stack, c.rip) /\ Numbered(c, stack) /\ Saved(c, stack, 15)
    BY <2>2 DEF InHandler
  <2>6. ASSUME NEW r \in Registers PROVE Field(r) = c.gpr[r]
    <3>1. PICK j \in 1 .. 15 : PushOrder[j] = r
      BY Orders
    <3> QED
      BY <2>4, <2>5, <3>1 DEF Field, Saved
  <2>7. /\ Field("vector") = <<"vector", c.vector>>
        /\ Field("err_code") = ErrorCode(c)
    BY <2>4, <2>5 DEF Field, Numbered
  <2>8. /\ Field("rip") = c.rip
        /\ Field("cs") = c.cs
        /\ Field("rflags") = c.rflags
        /\ Field("rsp") = <<"rsp", Len(c.stack)>>
        /\ Field("ss") = <<"ss", 0>>
    BY <2>4, <2>5 DEF Field, Framed
  <2> QED
    BY <2>1, <2>6, <2>7, <2>8 DEF FrameFaithful, ErrorCode
<1> QED
    BY <1>1, InvHolds, PTL

(* Only iretq ends a trap, and it gives the interrupted code back its registers, flags
   and stack, and the place where it was, past the ud2 that exception_handler skips
   (exception.S, Enclave.cpp 131). *)
THEOREM TrapsResume == Spec => Resumed
<1>1. ASSUME IInv, Next, Len(interrupted') < Len(interrupted)
      PROVE  LET c == Last(interrupted)
                 skipped == IF c.vector = 6 /\ g_handler # "NULL" THEN 2 ELSE 0
             IN /\ rip' = <<c.rip[1], c.rip[2] + skipped>>
                /\ gpr' = c.gpr
                /\ rflags' = c.rflags
                /\ cs' = c.cs
                /\ stack' = c.stack
  <2>1. CASE Iretq
    <3> DEFINE c == interrupted[Len(interrupted)]
    <3>1. Typed(c) /\ Level(g_handler, c, rip, gpr, stack) /\ Last(interrupted) = c
      BY <1>1, <2>1, Innermost DEF Iretq, Running, Last
    <3> HIDE DEF c
    <3>2. /\ rip' = Resumption(g_handler, c)
          /\ gpr' = c.gpr /\ rflags' = c.rflags /\ cs' = c.cs /\ stack' = c.stack
      BY <2>1, <3>1, Returns
    <3> QED
      BY <3>1, <3>2 DEF Resumption, Skip
  <2>2. CASE Execute /\ ~ Iretq
    <3>1. interrupted' = interrupted
      BY <2>2 DEF Execute, PushErrorCode, PushVector, PushRegister, MovRsp, Call, Handler,
                  PopRegister, AddRsp, program
    <3>2. Len(interrupted) \in Nat
      BY <1>1, LenProperties DEF IInv, TypeInv
    <3> QED
      BY <1>1, <3>1, <3>2
  <2>3. CASE Trap
    <3>1. PICK vector \in Vectors : Enter(vector)
      BY <2>3 DEF Trap, Nmi, Exception, Interrupt
    <3>2. \E c \in Context : interrupted' = Append(interrupted, c)
      BY <1>1, <3>1, Enters DEF IInv
    <3>3. Len(interrupted') = Len(interrupted) + 1 /\ Len(interrupted) \in Nat
      BY <1>1, <3>2, Pushes, LenProperties DEF IInv, TypeInv
    <3> QED
      BY <1>1, <3>3
  <2> QED
    BY <1>1, <2>1, <2>2, <2>3 DEF Next, Execute
<1>2. IInv /\ [Next]_vars =>
        [Len(interrupted') < Len(interrupted) =>
            LET c == Last(interrupted)
                skipped == IF c.vector = 6 /\ g_handler # "NULL" THEN 2 ELSE 0
            IN /\ rip' = <<c.rip[1], c.rip[2] + skipped>>
               /\ gpr' = c.gpr
               /\ rflags' = c.rflags
               /\ cs' = c.cs
               /\ stack' = c.stack]_vars
    BY <1>1
<1> QED
    BY <1>2, InvHolds, PTL DEF Spec, Resumed
=============================================================================
