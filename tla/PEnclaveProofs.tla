--------------------------- MODULE PEnclaveProofs ---------------------------
(* Proofs about PEnclave, for every size of the buffer, every width of the
   counters, every set of interrupt vectors and every shape of the page tables; and,
   at the end, about PEnclaveApp, the same enclave in its process. *)
EXTENDS PEnclaveApp, SequenceTheorems, FiniteSetTheorems, TLAPS

(* The program runs with an empty stack, a trap with one frame, an NMI that hits
   a trap with two.  IF stays clear until the program is back. *)
StackShape ==
    /\ rip \in Program => Len(frames) = 0
    /\ rip \in Handler => Len(frames) > 0
    /\ Len(frames) <= 2
    /\ Len(frames) > 0 =>
          /\ ~IF_
          /\ frames[1].rip \in Program
          /\ frames[1].vector = 2 => nmi_blocked
          /\ frames[1].vector = 6 => frames[1].rip \in {"ud2", "ud2_next"}
    /\ Len(frames) = 1 /\ rip = "vmmcall" => frames[1].vector >= 32
    /\ Len(frames) = 2 =>
          /\ nmi_blocked
          /\ frames[1].vector # 2
          /\ frames[2].vector = 2
          /\ frames[2].rip \in Handler
          /\ frames[2].rip = "vmmcall" => frames[1].vector >= 32
          /\ ~frames[2].IF_
          /\ rip \in {"common", "switch", "iretq", "aborted"}

(* The loop variable is in the range of the loop the program is in. *)
LoopPosition ==
    /\ ProgramRip \in {"init_exception", "register", "cache_cr3", "read"} => i = 0
    /\ ProgramRip \in {"touch", "mprotect", "invlpg", "write"} => i \in Pages
    /\ ProgramRip = "ud2" => i <= nrepeats
    /\ ProgramRip = "ud2_next" => i < nrepeats
    /\ Len(frames) > 0 /\ frames[1].vector = 6 => i < nrepeats

TypeInv == TypeOK /\ StackShape /\ LoopPosition

(* The last lines of ecall_exception: three prints and the return. *)
Report == ReportIntr \/ ReportUd \/ ReportPf \/ Return
Reporting == {"report_intr", "report_ud", "report_pf", "return"}

(* The program starts at its first location with an empty stack. *)
LEMMA InitTypeInv == Init => TypeInv
<1> SUFFICES ASSUME Init PROVE TypeInv
    OBVIOUS
<1> USE SizesAssumption DEF Init, Pages
<1>1. TypeOK
  <2>1. pte \in [Pages -> PTE]
    BY LayoutsAssumption
  <2>2. cr2 \in [page : Pages, off : Nat]
    OBVIOUS
  <2>3. tlb \in [Pages -> SUBSET Flags]
    OBVIOUS
  <2>4. rip \in Locations
    BY DEF Locations, Program
  <2>5. /\ frames \in Seq(Frame)
        /\ accepted \in Seq(Vectors)
        /\ forwarded \in Seq(Vectors)
        /\ dropped \in Seq(Vectors)
    OBVIOUS
  <2>6. /\ 0 \in 0 .. Modulus - 1
        /\ 0 \in 0 .. MaxIntr
        /\ 0 \in 0 .. MaxNmi
    OBVIOUS
  <2> QED
    BY <2>1, <2>2, <2>3, <2>4, <2>5, <2>6 DEF TypeOK
<1>2. StackShape
    BY DEF StackShape, Program, Handler
<1>3. LoopPosition
    BY DEF LoopPosition, ProgramRip
<1> QED
    BY <1>1, <1>2, <1>3 DEF TypeInv

(* What a push and a pop do to a stack of one or two frames. *)
LEMMA PushFrame ==
    ASSUME NEW s \in Seq(Frame), NEW f \in Frame, Len(s) <= 1
    PROVE  /\ Append(s, f) \in Seq(Frame)
           /\ Len(Append(s, f)) = Len(s) + 1
           /\ Append(s, f)[Len(s) + 1] = f
           /\ Len(s) = 1 => Append(s, f)[1] = s[1]
  OBVIOUS

(* What iretq leaves of the stack when it takes the innermost frame off. *)
LEMMA PopFrame ==
    ASSUME NEW s \in Seq(Frame), Len(s) = 1 \/ Len(s) = 2
    PROVE  /\ SubSeq(s, 1, Len(s) - 1) \in Seq(Frame)
           /\ Len(SubSeq(s, 1, Len(s) - 1)) = Len(s) - 1
           /\ Len(s) = 2 => SubSeq(s, 1, Len(s) - 1)[1] = s[1]
<1>1. CASE Len(s) = 1
    BY <1>1, SubSeqEmpty
<1>2. CASE Len(s) = 2
  <2>1. \A k \in 1 .. 1 : s[k] \in Frame
    BY <1>2
  <2> QED
    BY <1>2, <2>1, SubSeqProperties
<1> QED
    BY <1>1, <1>2

(* The frame a trap pushes, and the stack it leaves. *)
LEMMA DeliverFacts ==
    ASSUME TypeOK, NEW vec \in Vectors \union {2, 6, 14}, Deliver(vec),
           rip \in Program \union Handler, Len(frames) <= 1
    PROVE  /\ [vector |-> vec, rip |-> rip, IF_ |-> IF_] \in Frame
           /\ frames' \in Seq(Frame)
           /\ Len(frames') = Len(frames) + 1
           /\ frames'[Len(frames) + 1] = [vector |-> vec, rip |-> rip, IF_ |-> IF_]
           /\ Len(frames) = 1 => frames'[1] = frames[1]
           /\ IF_' = FALSE
           /\ rip' = "common"
<1> DEFINE f == [vector |-> vec, rip |-> rip, IF_ |-> IF_]
<1>1. f \in Frame
    BY DEF Frame, TypeOK
<1>2. frames' = Append(frames, f) /\ IF_' = FALSE /\ rip' = "common"
    BY DEF Deliver
<1> HIDE DEF f
<1>3. frames \in Seq(Frame)
    BY DEF TypeOK
<1>4. /\ frames' \in Seq(Frame)
      /\ Len(frames') = Len(frames) + 1
      /\ frames'[Len(frames) + 1] = f
      /\ Len(frames) = 1 => frames'[1] = frames[1]
    BY <1>1, <1>2, <1>3, PushFrame
<1> QED
    BY <1>1, <1>2, <1>4 DEF f

(* The stack is empty, a trap's frame, or that and an NMI's. *)
LEMMA AtMostTwo == \A n \in Nat : n <= 2 => n = 0 \/ n = 1 \/ n = 2
  OBVIOUS

(* What the shape of the stack says in the words the steps need: which frames
   exist in a handler, and that none does in the program. *)
LEMMA StackFacts ==
    ASSUME TypeInv
    PROVE  /\ frames \in Seq(Frame)
           /\ Len(frames) = 0 \/ Len(frames) = 1 \/ Len(frames) = 2
           /\ rip \in Program => Len(frames) = 0
           /\ rip \in Handler => Len(frames) = 1 \/ Len(frames) = 2
           /\ Len(frames) > 0 => frames[1] \in Frame /\ Top \in Frame
           /\ Len(frames) = 2 => frames[2] \in Frame
<1>1. frames \in Seq(Frame)
    BY DEF TypeInv, TypeOK
<1>2. Len(frames) \in Nat
    BY <1>1
<1>3. /\ Len(frames) <= 2 
      /\ rip \in Program => Len(frames) = 0
      /\ rip \in Handler => Len(frames) > 0
    BY DEF TypeInv, StackShape
<1>4. \A k \in 1 .. Len(frames) : frames[k] \in Frame
    BY <1>1
<1>5. Len(frames) = 0 \/ Len(frames) = 1 \/ Len(frames) = 2
    BY <1>2, <1>3, AtMostTwo
<1>6. rip \in Handler => Len(frames) = 1 \/ Len(frames) = 2
    BY <1>5, <1>3
<1>7. ASSUME Len(frames) > 0 PROVE frames[1] \in Frame /\ Top \in Frame
  <2>1. 1 \in 1 .. Len(frames) /\ Len(frames) \in 1 .. Len(frames)
    BY <1>2, <1>7
  <2> QED
    BY <1>4, <2>1 DEF Top
<1>8. ASSUME Len(frames) = 2 PROVE frames[2] \in Frame
    BY <1>4, <1>8
<1> QED
    BY <1>1, <1>3, <1>5, <1>6, <1>7, <1>8

(* What an interrupt gate does to the type of the state. *)
LEMMA DeliverType ==
    ASSUME NEW vec, Deliver(vec)
    PROVE  rip' \in Locations /\ IF_' \in BOOLEAN
    BY DEF Deliver, Locations, Handler

(* The vector of the running handler's frame. *)
LEMMA InterruptVector ==
    ASSUME TypeInv, Len(frames) > 0, IsInterrupt(Top)
    PROVE  Top.vector \in Vectors
<1>1. Top.vector \in Vectors \union {2, 6, 14} /\ Top.vector >= 32
    BY StackFacts DEF Frame, IsInterrupt
<1> QED
    BY <1>1

(* A trap that is not an NMI has nothing beneath it but the program. *)
LEMMA TrapsAreFirst ==
    ASSUME TypeInv, rip \in Handler, Top.vector # 2
    PROVE  Len(frames) = 1 /\ Top = frames[1]
<1>1. Len(frames) = 1 \/ Len(frames) = 2
    BY StackFacts
<1>2. Len(frames) # 2
    BY DEF TypeInv, StackShape, Top
<1> QED
    BY <1>1, <1>2 DEF Top

(* What the walk of a page of test_buf can find. *)
LEMMA UpperFacts ==
    ASSUME TypeOK, NEW p \in Pages
    PROVE  /\ layout.upper[p] \in Upper
           /\ Lookup(p) \in Upper
           /\ pte[p] \in PTE
    BY LayoutsAssumption DEF TypeOK, Lookup, Upper

(* A walk yields flags, whether the page is mapped or not. *)
LEMMA WalkFlags ==
    ASSUME TypeOK, NEW p \in Pages
    PROVE  Walk(p) \subseteq Flags /\ Permissions(p) \subseteq Flags
    BY UpperFacts DEF TypeOK, Walk, Permissions, Upper, PTE

(* Writing the flags of a leaf entry leaves page table entries. *)
LEMMA SetFlagsType ==
    ASSUME TypeOK, NEW p \in Pages, NEW flags \in SUBSET Flags, SetFlags(p, flags)
    PROVE  pte' \in [Pages -> PTE]
    BY DEF TypeOK, SetFlags, PTE

(* A trap of the running program. *)
LEMMA TrapFromProgram ==
    ASSUME TypeInv, NEW vec \in Vectors \union {2, 6, 14}, Deliver(vec),
           rip \in Program, i' = i, nrepeats' = nrepeats,
           vec = 2 => nmi_blocked',
           vec = 6 => rip = "ud2" /\ i < nrepeats
    PROVE  StackShape' /\ LoopPosition' /\ frames' \in Seq(Frame)
<1>1. Len(frames) = 0 /\ TypeOK /\ rip \in Program \union Handler
    BY StackFacts DEF TypeInv
<1>2. /\ frames' \in Seq(Frame)
      /\ Len(frames') = 1
      /\ frames'[1] = [vector |-> vec, rip |-> rip, IF_ |-> IF_]
      /\ IF_' = FALSE
      /\ rip' = "common"
  <2>1. Len(frames) <= 1 /\ Len(frames) + 1 = 1
    BY <1>1
  <2> QED
    BY ONLY <1>1, <2>1, Deliver(vec), vec \in Vectors \union {2, 6, 14}, DeliverFacts
<1>3. StackShape'
    BY <1>2 DEF StackShape, Program, Handler
<1>4. LoopPosition'
    BY <1>1, <1>2 DEF TypeInv, LoopPosition, ProgramRip, Pages
<1> QED
    BY <1>2, <1>3, <1>4

(* A store of one of the two loops, done or faulting, preserves the invariant. *)
LEMMA StorePageTypeInv ==
    ASSUME TypeInv, NEW loop, NEW after, StorePage(loop, after),
           <<loop, after>> \in {<<"touch", "mprotect">>, <<"write", "ud2">>}
    PROVE  TypeInv'
<1> USE SizesAssumption DEF bench, counts, setup, mmu, cpu, devices, history, Pages
<1>1. /\ rip \in {"touch", "write"} /\ rip \in Program
      /\ Len(frames) = 0
      /\ i \in Pages
    BY DEF StorePage, TypeInv, StackShape, LoopPosition, ProgramRip, Program
<1>2. CASE /\ AccessOk(i)
           /\ NextIteration(loop, after)
           /\ UNCHANGED <<cr2, cpu>>
  <2>1. tlb' \in [Pages -> SUBSET Flags]
    BY <1>1, <1>2, WalkFlags DEF AccessOk, TypeInv, TypeOK
  <2>2. TypeOK'
    BY <1>1, <1>2, <2>1 DEF StorePage, NextIteration, TypeInv, TypeOK, Locations,
                            Program
  <2>3. StackShape' /\ LoopPosition'
    BY <1>1, <1>2 DEF StorePage, NextIteration, TypeInv, TypeOK, StackShape,
                      LoopPosition, ProgramRip, Program, Handler
  <2> QED
    BY <2>2, <2>3 DEF TypeInv
<1>3. CASE PageFault(i) /\ UNCHANGED <<i, nmi_blocked>>
  <2>1. StackShape' /\ LoopPosition' /\ frames' \in Seq(Frame)
    BY <1>1, <1>3, TrapFromProgram DEF StorePage, PageFault
  <2>2. /\ tlb' \in [Pages -> SUBSET Flags]
        /\ cr2' \in [page : Pages, off : Nat]
        /\ rip' \in Locations
        /\ IF_' \in BOOLEAN
    BY <1>1, <1>3 DEF PageFault, Deliver, TypeInv, TypeOK, Locations, Handler
  <2>3. TypeOK'
    BY <1>3, <2>1, <2>2 DEF StorePage, TypeInv, TypeOK
  <2> QED
    BY <2>1, <2>3 DEF TypeInv
<1> QED
    BY <1>2, <1>3 DEF StorePage

(* Every step of the enclave and of its environment preserves it. *)
LEMMA NextTypeInv == TypeInv /\ [Next]_vars => TypeInv'
<1> SUFFICES ASSUME TypeInv, [Next]_vars PROVE TypeInv'
    OBVIOUS
<1> USE SizesAssumption, VectorsAssumption DEF TypeInv
<1> USE DEF bench, counts, setup, mmu, cpu, devices, history, Pages
<1>1. CASE InitException
  <2>1. TypeOK'
    BY <1>1 DEF InitException, TypeOK, LoopPosition, StackShape, ProgramRip, Locations, Program, Handler, Stopped
  <2>2. StackShape'
    BY <1>1 DEF InitException, TypeOK, StackShape, Program, Handler
  <2>3. LoopPosition'
    BY <1>1 DEF InitException, TypeOK, StackShape, LoopPosition, ProgramRip,
               Program, Handler
  <2> QED
    BY <2>1, <2>2, <2>3
<1>2. CASE RegisterHandler
  <2>1. TypeOK'
    BY <1>2 DEF RegisterHandler, TypeOK, LoopPosition, StackShape, ProgramRip, Locations, Program, Handler, Stopped
  <2>2. StackShape'
    BY <1>2 DEF RegisterHandler, TypeOK, StackShape, Program, Handler
  <2>3. LoopPosition'
    BY <1>2 DEF RegisterHandler, TypeOK, StackShape, LoopPosition, ProgramRip,
               Program, Handler
  <2> QED
    BY <2>1, <2>2, <2>3
<1>3. CASE CacheCr3
  <2>1. TypeOK'
    BY <1>3 DEF CacheCr3, TypeOK, LoopPosition, StackShape, ProgramRip, Locations, Program, Handler, Stopped
  <2>2. StackShape'
    BY <1>3 DEF CacheCr3, TypeOK, StackShape, Program, Handler
  <2>3. LoopPosition'
    BY <1>3 DEF CacheCr3, TypeOK, StackShape, LoopPosition, ProgramRip,
               Program, Handler
  <2> QED
    BY <2>1, <2>2, <2>3
<1>4. CASE Touch
    BY <1>4, StorePageTypeInv DEF Touch
<1>5. CASE Write
    BY <1>5, StorePageTypeInv DEF Write
<1>6. CASE ProtectPage
  <2>1. i \in Pages /\ Len(frames) = 0
    BY <1>6 DEF ProtectPage, StackShape, LoopPosition, ProgramRip, Program
  <2>2. TypeOK'
    <3>1. pte' \in [Pages -> PTE]
      BY <1>6, <2>1, SetFlagsType DEF ProtectPage, TypeOK, Flags
    <3>2. i' \in 0 .. Modulus - 1 /\ rip' \in Locations
      BY <1>6, <2>1 DEF ProtectPage, TypeOK, NextIteration, Locations, Program, Stopped
    <3> QED
      BY <1>6, <3>1, <3>2 DEF ProtectPage, TypeOK
  <2>3. StackShape'
    BY <1>6, <2>1 DEF ProtectPage, NextIteration, StackShape, Program, Handler
  <2>4. LoopPosition'
    <3>1. /\ Len(frames) = 0 /\ UNCHANGED <<frames, nrepeats>>
          /\ \/ rip' = "invlpg" /\ i' = i
             \/ rip' = "aborted"
             \/ rip' = "mprotect" /\ i' = i + 1 /\ i + 1 < NPages
             \/ rip' = "read" /\ i' = 0
      BY <1>6, <2>1 DEF ProtectPage, NextIteration
    <3>2. i \in Pages /\ i + 1 < NPages => i + 1 \in Pages
      BY DEF Pages
    <3> QED
      BY ONLY <2>1, <3>1, <3>2 DEF LoopPosition, ProgramRip
  <2> QED
    BY <2>2, <2>3, <2>4
<1>7. CASE InvalidatePage
  <2>1. i \in Pages /\ Len(frames) = 0
    BY <1>7 DEF InvalidatePage, StackShape, LoopPosition, ProgramRip, Program
  <2>2. TypeOK'
    BY <1>7, <2>1 DEF InvalidatePage, TypeOK, NextIteration, Locations, Program
  <2>3. StackShape'
    BY <1>7, <2>1 DEF InvalidatePage, NextIteration, StackShape, Program, Handler
  <2>4. LoopPosition'
    BY <1>7, <2>1 DEF InvalidatePage, NextIteration, TypeOK, LoopPosition, ProgramRip
  <2> QED
    BY <2>2, <2>3, <2>4
<1>8. CASE ReadBack
  <2>1. i = 0 /\ Len(frames) = 0 /\ rip \in Program
    BY <1>8 DEF ReadBack, StackShape, LoopPosition, ProgramRip, Program
  <2>2. CASE AccessOk(0) /\ rip' = "write" /\ UNCHANGED <<cr2, cpu>>
    <3>1. tlb' \in [Pages -> SUBSET Flags]
      BY <2>2, WalkFlags DEF AccessOk, TypeOK
    <3>2. TypeOK'
      BY <1>8, <2>1, <2>2, <3>1 DEF ReadBack, TypeOK, Locations, Program
    <3>3. StackShape' /\ LoopPosition'
      BY <1>8, <2>1, <2>2 DEF ReadBack, TypeOK, StackShape, LoopPosition, ProgramRip,
                           Program, Handler
    <3> QED
      BY <3>2, <3>3
  <2>3. CASE PageFault(0) /\ UNCHANGED nmi_blocked
    <3>1. StackShape' /\ LoopPosition' /\ frames' \in Seq(Frame)
      BY <1>8, <2>1, <2>3, TrapFromProgram DEF ReadBack, PageFault
    <3>2. /\ tlb' \in [Pages -> SUBSET Flags]
          /\ cr2' \in [page : Pages, off : Nat]
          /\ rip' \in Locations
          /\ IF_' \in BOOLEAN
      BY <2>3, DeliverType DEF PageFault, TypeOK
    <3>3. TypeOK'
      BY <1>8, <2>3, <3>1, <3>2 DEF ReadBack, TypeOK
    <3> QED
      BY <3>1, <3>3
  <2> QED
    BY <1>8, <2>2, <2>3 DEF ReadBack
<1>9. CASE Ud2
  <2>1. StackShape' /\ LoopPosition' /\ frames' \in Seq(Frame)
    BY <1>9, TrapFromProgram DEF Ud2, Program
  <2>2. TypeOK'
    BY <1>9, <2>1 DEF Ud2, Deliver, TypeOK, Locations, Handler
  <2> QED
    BY <2>1, <2>2
<1>10. CASE Ud2Next
  <2>1. TypeOK'
    BY <1>10 DEF Ud2Next, TypeOK, LoopPosition, StackShape, ProgramRip, Locations, Program, Handler, Stopped
  <2>2. StackShape'
    BY <1>10 DEF Ud2Next, TypeOK, StackShape, Program, Handler
  <2>3. LoopPosition'
    BY <1>10 DEF Ud2Next, TypeOK, StackShape, LoopPosition, ProgramRip,
               Program, Handler
  <2> QED
    BY <2>1, <2>2, <2>3
<1>11. CASE Ud2Done
  <2>1. TypeOK'
    BY <1>11 DEF Ud2Done, TypeOK, LoopPosition, StackShape, ProgramRip, Locations, Program, Handler, Stopped
  <2>2. StackShape'
    BY <1>11 DEF Ud2Done, TypeOK, StackShape, Program, Handler
  <2>3. LoopPosition'
    BY <1>11 DEF Ud2Done, TypeOK, StackShape, LoopPosition, ProgramRip,
               Program, Handler
  <2> QED
    BY <2>1, <2>2, <2>3
<1>12. CASE Report
  <2>1. /\ rip' \in {"report_ud", "report_pf", "return", "done"} /\ rip \in Program
        /\ UNCHANGED <<i, nrepeats, counts, setup, layout, mmu, cpu, devices, history>>
    BY <1>12 DEF Report, ReportIntr, ReportUd, ReportPf, Return, Program
  <2>2. /\ out' \in [intr : 0 .. Modulus - 1, ud : 0 .. Modulus - 1, pf : 0 .. Modulus - 1]
        /\ printed' \in Seq(Vectors)
    <3>1. /\ out \in [intr : 0 .. Modulus - 1, ud : 0 .. Modulus - 1, pf : 0 .. Modulus - 1]
          /\ g_intr_count \in 0 .. Modulus - 1 /\ g_ud_count \in 0 .. Modulus - 1
          /\ g_pf_count \in 0 .. Modulus - 1
          /\ printed \in Seq(Vectors) /\ forwarded \in Seq(Vectors)
      BY DEF TypeOK
    <3>2. CASE ReportIntr
      BY <3>1, <3>2 DEF ReportIntr
    <3>3. CASE ReportUd
      BY <3>1, <3>3 DEF ReportUd
    <3>4. CASE ReportPf
      BY <3>1, <3>4 DEF ReportPf
    <3>5. CASE Return
      BY <3>1, <3>5 DEF Return, bench
    <3> QED
      BY <1>12, <3>2, <3>3, <3>4, <3>5 DEF Report
  <2>3. TypeOK'
    BY <2>1, <2>2 DEF TypeOK, Locations, Program, Stopped
  <2>4. StackShape'
    BY <2>1 DEF StackShape, Program, Handler
  <2>5. LoopPosition'
    BY <2>1 DEF StackShape, LoopPosition, ProgramRip
  <2> QED
    BY <2>3, <2>4, <2>5
<1>13. CASE CommonHandler
  <2>1. frames \in Seq(Frame) /\ (Len(frames) = 1 \/ Len(frames) = 2)
    BY <1>13, StackFacts DEF CommonHandler, Handler
  <2>2. dropped' \in Seq(Vectors)
    <3>1. Len(frames) > 0
      BY <2>1
    <3>2. CASE dropped' = dropped
      BY <3>2 DEF TypeOK
    <3>3. CASE dropped' = Append(dropped, Top.vector) /\ IsInterrupt(Top)
      BY <3>1, <3>3, InterruptVector DEF TypeOK
    <3> QED
      BY <1>13, <3>2, <3>3 DEF CommonHandler
  <2>3. TypeOK'
    BY <1>13, <2>2 DEF CommonHandler, TypeOK, Locations, Handler
  <2>4. StackShape' /\ LoopPosition'
    BY <1>13, <2>1 DEF CommonHandler, StackShape, LoopPosition, ProgramRip, Program, Handler
  <2> QED
    BY <2>3, <2>4
<1>14. CASE HandleUd
  <2>1. /\ frames \in Seq(Frame) /\ Len(frames) = 1
        /\ Top = frames[1] /\ frames[1] \in Frame
    BY <1>14, StackFacts, TrapsAreFirst DEF HandleUd, Handler
  <2>0. SkipInstruction(frames[1]) \in Frame
    BY <2>1 DEF SkipInstruction, Frame, Program
  <2>2. /\ frames' \in Seq(Frame)
        /\ Len(frames') = 1
        /\ frames'[1] = SkipInstruction(frames[1])
    <3>1. frames' = [frames EXCEPT ![1] = SkipInstruction(frames[1])]
      BY <1>14, <2>1 DEF HandleUd
    <3> QED
      BY <2>0, <2>1, <3>1, ExceptSeq
  <2>3. TypeOK'
    BY <1>14, <2>2 DEF HandleUd, TypeOK, Inc, Locations, Handler
  <2>4. /\ frames[1].rip \in {"ud2", "ud2_next"}
        /\ frames'[1].rip = "ud2_next"
        /\ frames'[1].vector = 6
    BY <1>14, <2>1, <2>2 DEF HandleUd, StackShape, SkipInstruction, Frame
  <2>5. StackShape'
    BY <1>14, <2>1, <2>2, <2>4 DEF HandleUd, StackShape, Program, Handler
  <2>6. LoopPosition'
    BY <1>14, <2>1, <2>2, <2>4 DEF HandleUd, LoopPosition, ProgramRip, TypeOK
  <2> QED
    BY <2>3, <2>5, <2>6
<1>15. CASE HandlePf
  <2>1. TypeOK'
    BY <1>15 DEF HandlePf, TypeOK, Locations, Program, Handler, Stopped, Inc
  <2>2. StackShape'
    BY <1>15, TrapsAreFirst DEF HandlePf, StackShape, Program, Handler
  <2>3. LoopPosition'
    BY <1>15 DEF HandlePf, StackShape, LoopPosition, ProgramRip, Handler
  <2> QED
    BY <2>1, <2>2, <2>3
<1>16. CASE HandleInterrupt
  <2>1. TypeOK'
    BY <1>16 DEF HandleInterrupt, TypeOK, Locations, Program, Handler, Stopped, Inc
  <2>2. StackShape'
    BY <1>16, TrapsAreFirst DEF HandleInterrupt, IsInterrupt, StackShape, Program,
                               Handler
  <2>3. LoopPosition'
    BY <1>16 DEF HandleInterrupt, StackShape, LoopPosition, ProgramRip, Handler
  <2> QED
    BY <2>1, <2>2, <2>3
<1>17. CASE HandleUnexpected
  <2>1. TypeOK'
    BY <1>17 DEF HandleUnexpected, TypeOK, Locations, Program, Handler, Stopped
  <2>2. StackShape'
    BY <1>17 DEF HandleUnexpected, TypeOK, StackShape, Program, Handler
  <2>3. LoopPosition'
    BY <1>17 DEF HandleUnexpected, StackShape, LoopPosition, ProgramRip, Handler
  <2> QED
    BY <2>1, <2>2, <2>3
<1>18. CASE Unprotect
  <2>1. pte' \in [Pages -> PTE] /\ rip' \in {"aborted", "iretq", "pf_invlpg"}
    BY <1>18, SetFlagsType DEF Unprotect, TypeOK, Flags
  <2>2. TypeOK'
    BY <1>18, <2>1 DEF Unprotect, TypeOK, Locations, Handler, Stopped
  <2>3. StackShape' /\ LoopPosition'
    BY <1>18, <2>1 DEF Unprotect, StackShape, LoopPosition, ProgramRip, Program, Handler
  <2> QED
    BY <2>2, <2>3
<1>19. CASE InvalidateFaulting
  <2>1. TypeOK'
    BY <1>19 DEF InvalidateFaulting, TypeOK, Locations, Program, Handler, Stopped
  <2>2. StackShape'
    BY <1>19 DEF InvalidateFaulting, TypeOK, StackShape, Program, Handler
  <2>3. LoopPosition'
    BY <1>19 DEF InvalidateFaulting, StackShape, LoopPosition, ProgramRip, Handler
  <2> QED
    BY <2>1, <2>2, <2>3
<1>20. CASE Forward
  <2>1. frames \in Seq(Frame) /\ (Len(frames) = 1 \/ Len(frames) = 2)
    BY <1>20, StackFacts DEF Forward, Handler
  <2>2. forwarded' \in Seq(Vectors)
    <3>1. rip = "vmmcall" /\ rip \in Handler /\ forwarded' = Append(forwarded, Top.vector)
      BY <1>20 DEF Forward, Handler
    <3>2. Top = frames[1] /\ Top.vector >= 32
      BY <2>1, <3>1 DEF StackShape, Top, Handler
    <3>3. Top \in Frame
      <4>1. Len(frames) > 0
        BY ONLY <2>1
      <4> QED
        BY <4>1, StackFacts
    <3>4. Top.vector \in Vectors
      BY ONLY <3>2, <3>3 DEF Frame
    <3>5. forwarded \in Seq(Vectors)
      BY DEF TypeOK
    <3> QED
      BY ONLY <3>1, <3>4, <3>5
  <2>3. TypeOK'
    BY <1>20, <2>2 DEF Forward, TypeOK, Locations, Handler
  <2>4. StackShape' /\ LoopPosition'
    BY <1>20, <2>1 DEF Forward, StackShape, LoopPosition, ProgramRip, Program, Handler
  <2> QED
    BY <2>3, <2>4
<1>21. CASE Iretq
  <2>1. frames \in Seq(Frame) /\ (Len(frames) = 1 \/ Len(frames) = 2)
    BY <1>21, StackFacts DEF Iretq, Handler
  <2>2. CASE Len(frames) = 1
    <3>1. Len(frames') = 0 /\ frames' \in Seq(Frame) /\ rip' = frames[1].rip /\ rip' \in Program
      BY <1>21, <2>1, <2>2, PopFrame DEF Iretq, Top, StackShape
    <3>2. TypeOK'
      <4>1. IF_' \in BOOLEAN
        BY <1>21, <2>2, StackFacts DEF Iretq, Frame
      <4> QED
        BY <1>21, <3>1, <4>1 DEF Iretq, TypeOK, Locations
    <3>3. StackShape' /\ LoopPosition'
      BY <1>21, <2>1, <2>2, <3>1 DEF Iretq, StackShape, LoopPosition, ProgramRip, Program,
                                 Handler
    <3> QED
      BY <3>2, <3>3
  <2>3. CASE Len(frames) = 2
    <3>1. /\ frames' \in Seq(Frame) /\ Len(frames') = 1
          /\ frames'[1] = frames[1]
          /\ rip' = frames[2].rip /\ rip' \in Handler /\ ~IF_'
          /\ frames[1].vector # 2
      BY <1>21, <2>1, <2>3, PopFrame DEF Iretq, Top, StackShape
    <3>4. /\ UNCHANGED <<i, nrepeats>>
          /\ frames[1].rip \in Program
          /\ frames[2].rip = "vmmcall" => frames[1].vector >= 32
          /\ frames[1].vector = 6 => frames[1].rip \in {"ud2", "ud2_next"}
      BY <1>21, <2>3 DEF Iretq, StackShape
    <3>5. StackShape'
      BY ONLY <3>1, <3>4 DEF StackShape, Program, Handler
    <3>6. ProgramRip = frames[1].rip /\ ProgramRip' = frames[1].rip
      BY <2>3, <3>1 DEF ProgramRip
    <3>7. LoopPosition'
      BY <2>3, <3>1, <3>4, <3>6 DEF LoopPosition
    <3>2. TypeOK'
      <4>1. IF_' \in BOOLEAN
        BY <1>21, <2>3, StackFacts DEF Iretq, Frame
      <4> QED
        BY <1>21, <3>1, <4>1 DEF Iretq, TypeOK, Locations
    <3> QED
      BY <3>2, <3>5, <3>7
  <2> QED
    BY <2>1, <2>2, <2>3
<1>22. ASSUME NEW p \in Pages, TlbFill(p) \/ TlbEvict(p) PROVE TypeInv'
  <2>1. tlb' \in [Pages -> SUBSET Flags]
    <3>1. Walk(p) \in SUBSET Flags /\ {} \in SUBSET Flags
      BY WalkFlags
    <3> QED
      BY <1>22, <3>1 DEF TlbFill, TlbEvict, TypeOK
  <2>2. UNCHANGED <<rip, i, bench, counts, setup, layout, pte, cr2, cpu, devices, history>>
    BY <1>22 DEF TlbFill, TlbEvict
  <2>3. TypeOK'
    BY <2>1, <2>2 DEF TypeOK
  <2>4. StackShape'
    BY <2>2 DEF StackShape
  <2>5. LoopPosition'
    BY <2>2 DEF LoopPosition, ProgramRip
  <2> QED
    BY <2>3, <2>4, <2>5
<1>23. ASSUME NEW v \in Vectors, RaiseInterrupt(v) PROVE TypeInv'
  <2>1. TypeOK'
    BY <1>23 DEF RaiseInterrupt, TypeOK
  <2>2. StackShape'
    BY <1>23 DEF RaiseInterrupt, StackShape
  <2>3. LoopPosition'
    BY <1>23 DEF RaiseInterrupt, LoopPosition, ProgramRip
  <2> QED
    BY <2>1, <2>2, <2>3
<1>24. ASSUME NEW v \in Vectors, AcceptInterrupt(v) PROVE TypeInv'
  <2>1. Len(frames) = 0 /\ rip \in Program
    BY <1>24 DEF AcceptInterrupt, StackShape, TypeOK, Locations
  <2>2. StackShape' /\ LoopPosition' /\ frames' \in Seq(Frame)
    BY <1>24, <2>1, TrapFromProgram DEF AcceptInterrupt
  <2>3. TypeOK'
    BY <1>24, <2>2, DeliverType DEF AcceptInterrupt, TypeOK
  <2> QED
    BY <2>2, <2>3
<1>25. CASE AcceptNmi
  <2>1. CASE rip \in Program
    <3>1. StackShape' /\ LoopPosition' /\ frames' \in Seq(Frame)
      BY <1>25, <2>1, TrapFromProgram DEF AcceptNmi
    <3>2. TypeOK'
      <4>1. nmis' \in 0 .. MaxNmi
        BY <1>25 DEF AcceptNmi, TypeOK
      <4> QED
        BY <1>25, <3>1, <4>1, DeliverType DEF AcceptNmi, TypeOK
    <3> QED
      BY <3>1, <3>2
  <2>2. CASE rip \in Handler
    <3>1. Len(frames) = 1 /\ frames[1].vector # 2 /\ ~IF_
      BY <1>25, <2>2, StackFacts DEF AcceptNmi, StackShape
    <3>2. /\ frames' \in Seq(Frame) /\ Len(frames') = 2
          /\ frames'[1] = frames[1]
          /\ frames'[2] = [vector |-> 2, rip |-> rip, IF_ |-> IF_]
          /\ IF_' = FALSE /\ rip' = "common"
      <4>1. /\ Deliver(2) /\ TypeOK /\ 2 \in Vectors \union {2, 6, 14}
            /\ rip \in Program \union Handler /\ Len(frames) <= 1
            /\ Len(frames) + 1 = 2
        BY <1>25, <2>2, <3>1 DEF AcceptNmi
      <4> QED
        BY ONLY <3>1, <4>1, DeliverFacts
    <3>3. StackShape' /\ LoopPosition'
      BY <1>25, <2>2, <3>1, <3>2 DEF AcceptNmi, StackShape, LoopPosition, ProgramRip,
                                 Program, Handler
    <3>4. TypeOK'
      <4>1. nmis' \in 0 .. MaxNmi
        BY <1>25 DEF AcceptNmi, TypeOK
      <4> QED
        BY <1>25, <3>2, <4>1, DeliverType DEF AcceptNmi, TypeOK
    <3> QED
      BY <3>3, <3>4
  <2> QED
    BY <1>25, <2>1, <2>2 DEF AcceptNmi, TypeOK, Locations
<1>26. CASE UNCHANGED vars
  <2>1. TypeOK'
    BY <1>26 DEF vars, TypeOK
  <2>2. StackShape'
    BY <1>26 DEF vars, StackShape
  <2>3. LoopPosition'
    BY <1>26 DEF vars, LoopPosition, ProgramRip
  <2> QED
    BY <2>1, <2>2, <2>3
<1> QED
    BY <1>1, <1>2, <1>3, <1>4, <1>5, <1>6, <1>7, <1>8, <1>9, <1>10, <1>11, <1>12, <1>13, <1>14, <1>15, <1>16, <1>17, <1>18, <1>19, <1>20, <1>21, <1>22, <1>23, <1>24, <1>25, <1>26
       DEF Next, Execute, Ecall, Report, Trap, Environment, Terminating

(* The types of all variables, the bound on the counters' bit patterns and on the
   loop variable included. *)
THEOREM TypeCorrect == Spec => []TypeOK
<1>1. Spec => []TypeInv
    BY InitTypeInv, NextTypeInv, PTL DEF Spec
<1>2. TypeInv => TypeOK
    BY DEF TypeInv
<1> QED
    BY <1>1, <1>2, PTL

(* Traps nest at most twice and the second level is an NMI: the stack that
   common_exception_entry uses is bounded, for every sequence of interrupts. *)
THEOREM NestingIsBounded == Spec => []NestingBounded
<1>1. Spec => []TypeInv
    BY InitTypeInv, NextTypeInv, PTL DEF Spec
<1>2. TypeInv => NestingBounded
    BY StackFacts DEF TypeInv, StackShape, NestingBounded
<1> QED
    BY <1>1, <1>2, PTL

-----------------------------------------------------------------------------
(* Interrupts. *)

(* Nothing is forwarded before the handler is registered, and the handler does
   not run before. *)
HandlerRegistered ==
    /\ g_handler = "NULL" => forwarded = <<>>
    /\ rip \in {"switch", "pf", "pf_invlpg", "vmmcall"} => g_handler # "NULL"
    /\ HandlerRip \in {"switch", "pf", "pf_invlpg", "vmmcall"} => g_handler # "NULL"

ForwardInv == TypeInv /\ HandlerRegistered /\ InterruptsForwarded

(* An interrupt moves from one history to the next. *)
LEMMA Arrives ==
    ASSUME NEW S, NEW d \in Seq(S), NEW f \in Seq(S), NEW v \in S
    PROVE  Append(d \o f \o <<>>, v) = d \o f \o <<v>>
<1>1. d \o f \in Seq(S)
    BY ConcatProperties
<1>2. (d \o f) \o <<>> = d \o f
    BY <1>1, ConcatEmptySeq
<1> QED
    BY <1>1, <1>2, AppendIsConcat

(* ... from the one in flight to the forwarded ones by vmmcall, *)
LEMMA MovesToForwarded ==
    ASSUME NEW S, NEW d \in Seq(S), NEW f \in Seq(S), NEW v \in S
    PROVE  d \o f \o <<v>> = d \o Append(f, v) \o <<>>
<1>1. <<v>> \in Seq(S) /\ Append(f, v) = f \o <<v>> /\ Append(f, v) \in Seq(S)
    BY AppendIsConcat, AppendProperties
<1>2. (d \o f) \o <<v>> = d \o (f \o <<v>>)
    BY <1>1, ConcatAssociative
<1>3. d \o Append(f, v) \in Seq(S)
    BY <1>1, ConcatProperties
<1> QED
    BY <1>1, <1>2, <1>3, ConcatEmptySeq

(* ... or to the dropped ones when no handler is registered. *)
LEMMA MovesToDropped ==
    ASSUME NEW S, NEW d \in Seq(S), NEW v \in S
    PROVE  d \o <<>> \o <<v>> = Append(d, v) \o <<>> \o <<>>
<1>1. Append(d, v) = d \o <<v>> /\ Append(d, v) \in Seq(S)
    BY AppendIsConcat, AppendProperties
<1> QED
    BY <1>1, ConcatEmptySeq

(* No interrupt has arrived yet. *)
LEMMA InitForwardInv == Init => ForwardInv
<1> SUFFICES ASSUME Init PROVE ForwardInv
    OBVIOUS
<1>1. TypeInv
    BY InitTypeInv
<1>2. HandlerRegistered
    BY DEF Init, HandlerRegistered, HandlerRip
<1>3. InterruptsForwarded
  <2>1. InFlight = <<>>
    BY DEF Init, InFlight
  <2>2. <<>> \in Seq(Vectors)
    OBVIOUS
  <2> QED
    BY <2>1, <2>2, ConcatEmptySeq DEF Init, InterruptsForwarded
<1> QED
    BY <1>1, <1>2, <1>3 DEF ForwardInv

(* A step that leaves the histories and what is in flight alone. *)
LEMMA HistoriesUnchanged ==
    ASSUME InterruptsForwarded, UNCHANGED <<accepted, dropped, forwarded>>,
           InFlight' = InFlight
    PROVE  InterruptsForwarded'
    BY DEF InterruptsForwarded

(* A step of the program itself. *)
LEMMA ProgramForwards ==
    ASSUME ForwardInv, rip \in Program, UNCHANGED frames,
           rip' \in Program \union Stopped,
           UNCHANGED <<accepted, dropped, forwarded>>,
           g_handler' \in {g_handler, "exception_handler"}
    PROVE  HandlerRegistered' /\ InterruptsForwarded'
<1>1. Len(frames) = 0
    BY StackFacts DEF ForwardInv
<1>2. HandlerRegistered'
    BY <1>1 DEF ForwardInv, HandlerRegistered, HandlerRip, Program, Stopped
<1>3. InFlight' = InFlight
    BY <1>1 DEF InFlight
<1> QED
    BY <1>2, <1>3, HistoriesUnchanged DEF ForwardInv

(* A fault or an NMI that hits the program. *)
LEMMA TrapForwards ==
    ASSUME ForwardInv, NEW vec \in {2, 6, 14}, Deliver(vec), rip \in Program,
           UNCHANGED <<g_handler, accepted, dropped, forwarded>>
    PROVE  HandlerRegistered' /\ InterruptsForwarded'
<1>1. Len(frames) = 0 /\ TypeOK /\ Len(frames) <= 1 /\ Len(frames) + 1 = 1
    BY StackFacts DEF ForwardInv, TypeInv
<1>2. /\ Len(frames') = 1
      /\ frames'[1] = [vector |-> vec, rip |-> rip, IF_ |-> IF_]
      /\ rip' = "common"
    BY ONLY <1>1, DeliverFacts, vec \in {2, 6, 14}, Deliver(vec), rip \in Program
<1>3. HandlerRegistered'
    BY <1>2 DEF ForwardInv, HandlerRegistered, HandlerRip
<1>4. InFlight' = InFlight
  <2>1. InFlight = <<>>
    BY <1>1 DEF InFlight
  <2>2. ~IsInterrupt(frames'[1])
    BY <1>2 DEF IsInterrupt
  <2> QED
    BY <1>2, <2>1, <2>2 DEF InFlight, IsInterrupt
<1> QED
    BY <1>3, <1>4, HistoriesUnchanged DEF ForwardInv

(* A step of the handler of a fault, or of an NMI over another handler. *)
LEMMA HandlerForwards ==
    ASSUME ForwardInv, rip \in Handler, Len(frames') = Len(frames),
           frames'[1].vector = frames[1].vector,
           Len(frames) = 2 => frames'[2].rip = frames[2].rip,
           UNCHANGED <<g_handler, accepted, dropped, forwarded>>,
           rip' \in {"switch", "pf", "pf_invlpg", "vmmcall"} => g_handler # "NULL",
           Len(frames) = 2 \/ ~IsInterrupt(frames[1])
    PROVE  HandlerRegistered' /\ InterruptsForwarded'
<1>1. Len(frames) = 1 \/ Len(frames) = 2
    BY StackFacts DEF ForwardInv
<1>2. HandlerRegistered'
    BY <1>1 DEF ForwardInv, HandlerRegistered, HandlerRip
<1>3. InFlight' = InFlight
    BY <1>1 DEF InFlight, IsInterrupt, HandlerRip
<1> QED
    BY <1>2, <1>3, HistoriesUnchanged DEF ForwardInv

(* No step loses, doubles or reorders an interrupt. *)
LEMMA NextForwardInv == ForwardInv /\ [Next]_vars => ForwardInv'
<1> SUFFICES ASSUME ForwardInv, [Next]_vars
             PROVE  HandlerRegistered' /\ InterruptsForwarded'
    BY NextTypeInv DEF ForwardInv
<1> USE DEF bench, counts, setup, mmu, cpu, devices, history
<1>0. TypeInv /\ TypeOK /\ HandlerRegistered /\ InterruptsForwarded
    BY DEF ForwardInv, TypeInv
<1>1. CASE InitException \/ RegisterHandler \/ CacheCr3
    BY <1>0, <1>1, ProgramForwards DEF InitException, RegisterHandler, CacheCr3,
                                       Program
<1>2. ASSUME NEW loop, NEW after, StorePage(loop, after),
             <<loop, after>> \in {<<"touch", "mprotect">>, <<"write", "ud2">>}
      PROVE  HandlerRegistered' /\ InterruptsForwarded'
  <2>1. rip \in Program /\ loop \in Program /\ after \in Program
    BY <1>2 DEF StorePage, Program
  <2>2. CASE NextIteration(loop, after) /\ UNCHANGED <<cr2, cpu>>
    BY <1>2, <2>1, <2>2, ProgramForwards DEF StorePage, NextIteration
  <2>3. CASE PageFault(i)
    BY <1>2, <2>1, <2>3, TrapForwards DEF StorePage, PageFault
  <2> QED
    BY <1>2, <2>2, <2>3 DEF StorePage
<1>3. CASE Touch \/ Write
    BY <1>2, <1>3 DEF Touch, Write
<1>4. CASE ProtectPage \/ InvalidatePage
    BY <1>0, <1>4, ProgramForwards DEF ProtectPage, InvalidatePage, NextIteration,
                                       Program, Stopped
<1>5. CASE ReadBack
  <2>1. rip \in Program
    BY <1>5 DEF ReadBack, Program
  <2>2. CASE rip' = "write" /\ UNCHANGED <<cr2, cpu>>
    BY <1>5, <2>1, <2>2, ProgramForwards DEF ReadBack, Program
  <2>3. CASE PageFault(0)
    BY <1>5, <2>1, <2>3, TrapForwards DEF ReadBack, PageFault
  <2> QED
    BY <1>5, <2>2, <2>3 DEF ReadBack
<1>6. CASE Ud2
    BY <1>6, TrapForwards DEF Ud2, Program
<1>7. CASE Ud2Next \/ Ud2Done \/ Report
    BY <1>0, <1>7, ProgramForwards DEF Ud2Next, Ud2Done, Report, ReportIntr, ReportUd,
                                            ReportPf, Return, Program, Stopped
<1>8. CASE CommonHandler
  <2>1. rip \in Handler /\ (Len(frames) = 1 \/ Len(frames) = 2)
    BY <1>0, <1>8, StackFacts DEF CommonHandler, Handler
  <2>2. CASE Len(frames) = 2 \/ ~IsInterrupt(frames[1])
    <3>1. ~IsInterrupt(Top)
      BY <1>0, <2>1, <2>2 DEF TypeInv, StackShape, IsInterrupt, Top
    <3> QED
      BY <1>8, <2>1, <2>2, <3>1, HandlerForwards DEF CommonHandler
  <2>3. CASE Len(frames) = 1 /\ IsInterrupt(frames[1])
    <3>1. Top = frames[1] /\ InFlight = <<frames[1].vector>>
      BY <1>8, <2>3 DEF CommonHandler, Top, InFlight, HandlerRip
    <3>2. CASE g_handler # "NULL"
      <4>1. InFlight' = InFlight /\ UNCHANGED <<accepted, dropped, forwarded>>
        BY <1>8, <2>3, <3>1, <3>2 DEF CommonHandler, InFlight, HandlerRip
      <4>2. HandlerRegistered'
        BY <1>0, <1>8, <2>3, <3>2 DEF CommonHandler, HandlerRegistered, HandlerRip
      <4> QED
        BY <1>0, <4>1, <4>2, HistoriesUnchanged
    <3>3. CASE g_handler = "NULL"
      <4>1. /\ InFlight' = <<>>
            /\ dropped' = Append(dropped, frames[1].vector)
            /\ UNCHANGED <<accepted, forwarded>>
        BY <1>8, <2>3, <3>1, <3>3 DEF CommonHandler, InFlight, HandlerRip
      <4>2. forwarded = <<>> /\ frames[1].vector \in Vectors /\ dropped \in Seq(Vectors)
        BY <1>0, <2>3, <3>1, <3>3, InterruptVector DEF HandlerRegistered, TypeOK
      <4>3. InterruptsForwarded'
        BY <1>0, <3>1, <4>1, <4>2, MovesToDropped DEF InterruptsForwarded
      <4>4. HandlerRegistered'
        BY <1>0, <1>8, <2>3, <3>3, <4>1 DEF CommonHandler, HandlerRegistered, HandlerRip
      <4> QED
        BY <4>3, <4>4
    <3> QED
      BY <3>2, <3>3
  <2> QED
    BY <2>1, <2>2, <2>3
<1>9. CASE HandleUd
  <2>1. /\ rip \in Handler /\ frames \in Seq(Frame) /\ Len(frames) = 1
        /\ Top = frames[1] /\ frames[1] \in Frame /\ frames[1].vector = 6
    BY <1>0, <1>9, StackFacts, TrapsAreFirst DEF HandleUd, Handler
  <2>2. frames' = [frames EXCEPT ![1] = SkipInstruction(frames[1])]
    BY <1>9, <2>1 DEF HandleUd
  <2>3. SkipInstruction(frames[1]) \in Frame /\ SkipInstruction(frames[1]).vector = 6
    BY <2>1 DEF SkipInstruction, Frame, Program
  <2>4. Len(frames') = 1 /\ frames'[1].vector = 6
    BY <2>1, <2>2, <2>3, ExceptSeq
  <2> QED
    BY <1>9, <2>1, <2>4, HandlerForwards DEF HandleUd, IsInterrupt
<1>10. CASE HandlePf \/ HandleUnexpected
  <2>1. rip \in Handler /\ g_handler # "NULL"
    BY <1>0, <1>10 DEF HandlePf, HandleUnexpected, HandlerRegistered, Handler
  <2>2. Len(frames) = 2 \/ ~IsInterrupt(frames[1])
    <3>1. Len(frames) = 1 \/ Len(frames) = 2
      BY <1>0, <2>1, StackFacts
    <3>2. Top.vector \in Int
      <4>1. Top \in Frame
        BY <1>0, <2>1, <3>1, StackFacts
      <4>2. Top.vector \in Vectors \/ Top.vector \in {2, 6, 14}
        BY <4>1 DEF Frame
      <4>3. \A v \in Vectors : v \in Int
        BY VectorsAssumption
      <4>4. CASE Top.vector \in {2, 6, 14}
        BY <4>4
      <4> QED
        BY <4>2, <4>3, <4>4
    <3>3. ~IsInterrupt(Top)
      BY <1>10, <3>2 DEF HandlePf, HandleUnexpected, IsInterrupt
    <3> QED
      BY <3>1, <3>3 DEF Top
  <2> QED
    BY <1>10, <2>1, <2>2, HandlerForwards DEF HandlePf, HandleUnexpected
<1>11. CASE HandleInterrupt
  <2>1. Len(frames) = 1 /\ Top = frames[1] /\ g_handler # "NULL"
    BY <1>0, <1>11, TrapsAreFirst DEF HandleInterrupt, HandlerRegistered, Handler,
                                      IsInterrupt
  <2>2. InFlight' = InFlight /\ UNCHANGED <<accepted, dropped, forwarded>>
    BY <1>11, <2>1 DEF HandleInterrupt, InFlight, HandlerRip
  <2>3. HandlerRegistered'
    BY <1>0, <1>11, <2>1 DEF HandleInterrupt, HandlerRegistered, HandlerRip
  <2> QED
    BY <1>0, <2>2, <2>3, HistoriesUnchanged
<1>12. CASE Unprotect \/ InvalidateFaulting
  <2>1. /\ rip \in {"pf", "pf_invlpg"} /\ rip \in Handler /\ Len(frames) = 1
        /\ g_handler # "NULL" /\ rip' \in {"aborted", "iretq", "pf_invlpg"}
    BY <1>0, <1>12, StackFacts DEF Unprotect, InvalidateFaulting, TypeInv, StackShape,
                                   HandlerRegistered, Handler
  <2>2. InFlight' = InFlight /\ UNCHANGED <<accepted, dropped, forwarded>>
    BY <1>12, <2>1 DEF Unprotect, InvalidateFaulting, InFlight, HandlerRip
  <2>3. HandlerRegistered'
    BY <1>0, <1>12, <2>1 DEF Unprotect, InvalidateFaulting, HandlerRegistered,
                             HandlerRip
  <2> QED
    BY <1>0, <2>2, <2>3, HistoriesUnchanged
<1>13. CASE Forward
  <2>1. /\ Len(frames) = 1 /\ Top = frames[1] /\ IsInterrupt(Top)
        /\ g_handler # "NULL"
    BY <1>0, <1>13, StackFacts DEF Forward, TypeInv, StackShape, HandlerRegistered,
                                   Handler, IsInterrupt, Top
  <2>2. /\ InFlight = <<frames[1].vector>>
        /\ InFlight' = <<>>
        /\ forwarded' = Append(forwarded, frames[1].vector)
        /\ UNCHANGED <<accepted, dropped>>
    BY <1>13, <2>1 DEF Forward, InFlight, HandlerRip
  <2>3. frames[1].vector \in Vectors
    BY <1>0, <2>1, InterruptVector
  <2>4. InterruptsForwarded'
    <3>1. dropped \in Seq(Vectors) /\ forwarded \in Seq(Vectors)
      BY <1>0 DEF TypeOK
    <3>2. dropped \o forwarded \o <<frames[1].vector>>
            = dropped \o Append(forwarded, frames[1].vector) \o <<>>
      BY <2>3, <3>1, MovesToForwarded
    <3>3. accepted = dropped \o forwarded \o InFlight
      BY <1>0 DEF InterruptsForwarded
    <3> QED
      BY ONLY <2>2, <3>2, <3>3 DEF InterruptsForwarded
  <2>5. HandlerRegistered'
    BY <1>13, <2>1 DEF Forward, HandlerRegistered, HandlerRip
  <2> QED
    BY <2>4, <2>5
<1>14. CASE Iretq
  <2>1. frames \in Seq(Frame) /\ (Len(frames) = 1 \/ Len(frames) = 2)
    BY <1>0, <1>14, StackFacts DEF Iretq, Handler
  <2>2. CASE Len(frames) = 1
    <3>1. Len(frames') = 0 /\ rip' \in Program
      BY <1>0, <1>14, <2>1, <2>2, PopFrame DEF Iretq, Top, TypeInv, StackShape
    <3>2. InFlight' = InFlight /\ UNCHANGED <<accepted, dropped, forwarded>>
      BY <1>14, <2>2, <3>1 DEF Iretq, InFlight, HandlerRip
    <3>3. HandlerRegistered'
      BY <1>0, <1>14, <3>1 DEF Iretq, HandlerRegistered, HandlerRip, Program
    <3> QED
      BY <1>0, <3>2, <3>3, HistoriesUnchanged
  <2>3. CASE Len(frames) = 2
    <3>1. Len(frames') = 1 /\ frames'[1] = frames[1] /\ rip' = frames[2].rip
      BY <1>0, <1>14, <2>1, <2>3, PopFrame DEF Iretq, Top
    <3>2. InFlight' = InFlight /\ UNCHANGED <<accepted, dropped, forwarded>>
      BY <1>14, <2>3, <3>1 DEF Iretq, InFlight, HandlerRip
    <3>3. HandlerRegistered'
      BY <1>0, <1>14, <2>3, <3>1 DEF Iretq, HandlerRegistered, HandlerRip
    <3> QED
      BY <1>0, <3>2, <3>3, HistoriesUnchanged
  <2> QED
    BY <2>1, <2>2, <2>3
<1>15. ASSUME NEW p \in Pages, TlbFill(p) \/ TlbEvict(p)
       PROVE  HandlerRegistered' /\ InterruptsForwarded'
    BY <1>0, <1>15 DEF TlbFill, TlbEvict, HandlerRegistered, InterruptsForwarded,
                       InFlight, HandlerRip
<1>16. ASSUME NEW v \in Vectors, RaiseInterrupt(v)
       PROVE  HandlerRegistered' /\ InterruptsForwarded'
    BY <1>0, <1>16 DEF RaiseInterrupt, HandlerRegistered, InterruptsForwarded,
                       InFlight, HandlerRip
<1>17. ASSUME NEW v \in Vectors, AcceptInterrupt(v)
       PROVE  HandlerRegistered' /\ InterruptsForwarded'
  <2>1. /\ Len(frames) = 0 /\ rip \in Program \union Handler
        /\ Len(frames) <= 1 /\ Len(frames) + 1 = 1
    BY <1>0, <1>17, StackFacts DEF AcceptInterrupt, TypeInv, StackShape, TypeOK,
                                   Locations
  <2>2. v \in Vectors \union {2, 6, 14} /\ Deliver(v)
    BY <1>17 DEF AcceptInterrupt
  <2>3. /\ Len(frames') = 1 /\ rip' = "common"
        /\ frames'[1] = [vector |-> v, rip |-> rip, IF_ |-> IF_]
    BY ONLY <1>0, <2>1, <2>2, DeliverFacts
  <2>4. IsInterrupt(frames'[1])
    BY <2>3, VectorsAssumption DEF IsInterrupt
  <2>5. InFlight = <<>> /\ InFlight' = <<v>>
    BY <2>1, <2>3, <2>4 DEF InFlight, HandlerRip, IsInterrupt
  <2>6. InterruptsForwarded'
    <3>1. dropped \in Seq(Vectors) /\ forwarded \in Seq(Vectors)
      BY <1>0 DEF TypeOK
    <3>2. Append(dropped \o forwarded \o <<>>, v) = dropped \o forwarded \o <<v>>
      BY <1>17, <3>1, Arrives
    <3>3. accepted = dropped \o forwarded \o InFlight
      BY <1>0 DEF InterruptsForwarded
    <3>4. accepted' = Append(accepted, v) /\ UNCHANGED <<dropped, forwarded>>
      BY <1>17 DEF AcceptInterrupt
    <3> QED
      BY ONLY <2>5, <3>2, <3>3, <3>4 DEF InterruptsForwarded
  <2>7. HandlerRegistered'
    BY <1>0, <1>17, <2>3 DEF AcceptInterrupt, HandlerRegistered, HandlerRip
  <2> QED
    BY <2>6, <2>7
<1>18. CASE AcceptNmi
  <2>1. CASE rip \in Program
    BY <1>18, <2>1, TrapForwards DEF AcceptNmi
  <2>2. CASE rip \in Handler
    <3>1. /\ Len(frames) = 1 /\ Len(frames) <= 1 /\ Len(frames) + 1 = 2
          /\ rip \in Program \union Handler /\ 2 \in Vectors \union {2, 6, 14}
          /\ Deliver(2)
      <4>1. Deliver(2) /\ ~nmi_blocked
        BY <1>18 DEF AcceptNmi
      <4>2. Len(frames) = 1
        BY <1>0, <2>2, <4>1, StackFacts DEF TypeInv, StackShape
      <4> QED
        BY <2>2, <4>1, <4>2
    <3>2. /\ Len(frames') = 2 /\ frames'[1] = frames[1] /\ rip' = "common"
          /\ frames'[2] = [vector |-> 2, rip |-> rip, IF_ |-> IF_]
      BY ONLY <1>0, <3>1, DeliverFacts
    <3>3. InFlight' = InFlight /\ UNCHANGED <<accepted, dropped, forwarded>>
      BY <1>18, <3>1, <3>2 DEF AcceptNmi, InFlight, HandlerRip
    <3>4. HandlerRegistered'
      BY <1>0, <1>18, <3>1, <3>2 DEF AcceptNmi, HandlerRegistered, HandlerRip
    <3> QED
      BY <1>0, <3>3, <3>4, HistoriesUnchanged
  <2> QED
    BY <1>0, <1>18, <2>1, <2>2 DEF AcceptNmi, TypeOK, Locations
<1>19. CASE UNCHANGED vars
    BY <1>0, <1>19 DEF vars, HandlerRegistered, InterruptsForwarded, InFlight, HandlerRip
<1> QED
    BY <1>1, <1>3, <1>4, <1>5, <1>6, <1>7, <1>8, <1>9, <1>10, <1>11, <1>12, <1>13,
       <1>14, <1>15, <1>16, <1>17, <1>18, <1>19
       DEF Next, Execute, Ecall, Report, Trap, Environment, Terminating

(* Every interrupt taken through the enclave's IDT reaches RustMonitor once and in
   order, or was taken before the handler was registered; for every number and
   every order of interrupts and NMIs. *)
THEOREM InterruptsAreForwarded == Spec => []InterruptsForwarded
<1>1. ForwardInv => InterruptsForwarded
    BY DEF ForwardInv
<1> QED
    BY <1>1, InitForwardInv, NextForwardInv, PTL DEF Spec

-----------------------------------------------------------------------------
(* Control. *)

(* All that the properties see of the stack: where the program is and where the
   handling of its trap, with the vector of that trap. *)
FirstVector == IF Len(frames) = 0 THEN 0 ELSE frames[1].vector
control == <<ProgramRip, HandlerRip, FirstVector>>

(* A step of the program: there are no traps. *)
LEMMA ProgramControl ==
    ASSUME TypeInv, rip \in Program, UNCHANGED frames
    PROVE  /\ ProgramRip = rip /\ ProgramRip' = rip'
           /\ HandlerRip = "none" /\ HandlerRip' = "none"
           /\ FirstVector = 0 /\ FirstVector' = 0
<1>1. Len(frames) = 0
    BY StackFacts
<1> QED
    BY <1>1 DEF ProgramRip, HandlerRip, FirstVector

(* A trap that finds the program. *)
LEMMA TrapControl ==
    ASSUME TypeInv, NEW vec \in Vectors \union {2, 6, 14}, Deliver(vec), rip \in Program
    PROVE  /\ ProgramRip = rip /\ ProgramRip' = rip
           /\ HandlerRip = "none" /\ HandlerRip' = "common"
           /\ FirstVector = 0 /\ FirstVector' = vec
<1>1. Len(frames) = 0 /\ TypeOK /\ Len(frames) <= 1 /\ Len(frames) + 1 = 1
    BY StackFacts DEF TypeInv
<1>2. /\ Len(frames') = 1
      /\ frames'[1] = [vector |-> vec, rip |-> rip, IF_ |-> IF_]
      /\ rip' = "common"
    BY ONLY <1>1, DeliverFacts, vec \in Vectors \union {2, 6, 14}, Deliver(vec),
            rip \in Program
<1> QED
    BY <1>1, <1>2 DEF ProgramRip, HandlerRip, FirstVector

(* An NMI that finds the handler of another trap is not seen. *)
LEMMA NmiControl ==
    ASSUME TypeInv, AcceptNmi, rip \in Handler
    PROVE  UNCHANGED control
<1>1. /\ Len(frames) = 1 /\ Len(frames) <= 1 /\ Len(frames) + 1 = 2
      /\ rip \in Program \union Handler /\ 2 \in Vectors \union {2, 6, 14}
      /\ Deliver(2) /\ TypeOK
  <2>1. Deliver(2) /\ ~nmi_blocked /\ TypeOK
    BY DEF AcceptNmi, TypeInv
  <2>2. Len(frames) = 1
    BY <2>1, StackFacts DEF TypeInv, StackShape
  <2> QED
    BY <2>1, <2>2
<1>2. /\ Len(frames') = 2 /\ frames'[1] = frames[1] /\ rip' = "common"
      /\ frames'[2] = [vector |-> 2, rip |-> rip, IF_ |-> IF_]
    BY ONLY <1>1, DeliverFacts
<1> QED
    BY <1>1, <1>2 DEF control, ProgramRip, HandlerRip, FirstVector

(* A step of the handler is one of the trap that hit the program, *)
LEMMA FirstControl ==
    ASSUME TypeInv, rip \in Handler, Top.vector # 2 \/ rip \notin {"common", "switch", "iretq"},
           UNCHANGED frames
    PROVE  /\ Len(frames) = 1 /\ Top = frames[1] /\ FirstVector = Top.vector
           /\ HandlerRip = rip /\ HandlerRip' = rip'
           /\ ProgramRip \in Program
           /\ UNCHANGED <<ProgramRip, FirstVector>>
<1>1. Len(frames) = 1 /\ Top = frames[1]
    BY StackFacts, TrapsAreFirst DEF TypeInv, StackShape, Handler, Top
<1> QED
    BY <1>1 DEF ProgramRip, HandlerRip, FirstVector, TypeInv, StackShape

(* ... or of an NMI on top of it. *)
LEMMA HandlerControl ==
    ASSUME TypeInv, rip \in Handler, UNCHANGED frames
    PROVE  \/ UNCHANGED control
           \/ /\ HandlerRip = rip /\ HandlerRip' = rip' /\ FirstVector = Top.vector
              /\ UNCHANGED <<ProgramRip, FirstVector>>
<1>1. Len(frames) = 1 \/ Len(frames) = 2
    BY StackFacts
<1> QED
    BY <1>1 DEF control, ProgramRip, HandlerRip, FirstVector, Top

(* The return to the program, or to the handler below. *)
LEMMA IretqControl ==
    ASSUME TypeInv, Iretq
    PROVE  /\ UNCHANGED ProgramRip
           /\ \/ UNCHANGED control
              \/ /\ HandlerRip = "iretq" /\ HandlerRip' = "none" /\ FirstVector' = 0
<1>1. frames \in Seq(Frame) /\ (Len(frames) = 1 \/ Len(frames) = 2)
    BY StackFacts DEF Iretq, Handler
<1>2. CASE Len(frames) = 1
  <2>1. Len(frames') = 0 /\ rip' = frames[1].rip /\ rip = "iretq"
    BY <1>1, <1>2, PopFrame DEF Iretq, Top
  <2> QED
    BY <1>2, <2>1 DEF control, ProgramRip, HandlerRip, FirstVector
<1>3. CASE Len(frames) = 2
  <2>1. Len(frames') = 1 /\ frames'[1] = frames[1] /\ rip' = frames[2].rip
    BY <1>1, <1>3, PopFrame DEF Iretq, Top
  <2> QED
    BY <1>3, <2>1 DEF control, ProgramRip, HandlerRip, FirstVector
<1> QED
    BY <1>1, <1>2, <1>3

(* case 0x6 moves the program on, and nothing else does while it is interrupted. *)
LEMMA UdControl ==
    ASSUME TypeInv, HandleUd
    PROVE  /\ HandlerRip = "switch" /\ HandlerRip' = "iretq"
           /\ FirstVector = 6 /\ FirstVector' = 6
           /\ ProgramRip \in {"ud2", "ud2_next"} /\ ProgramRip' = "ud2_next"
<1>1. /\ frames \in Seq(Frame) /\ Len(frames) = 1 /\ rip = "switch"
      /\ Top = frames[1] /\ frames[1] \in Frame /\ frames[1].vector = 6
      /\ frames[1].rip \in {"ud2", "ud2_next"}
    BY StackFacts, TrapsAreFirst DEF HandleUd, Handler, TypeInv, StackShape
<1>2. frames' = [frames EXCEPT ![1] = SkipInstruction(frames[1])] /\ rip' = "iretq"
    BY <1>1 DEF HandleUd
<1>3. /\ SkipInstruction(frames[1]) \in Frame
      /\ SkipInstruction(frames[1]).vector = 6
      /\ SkipInstruction(frames[1]).rip = "ud2_next"
    BY <1>1 DEF SkipInstruction, Frame, Program
<1>4. /\ Len(frames') = 1
      /\ frames'[1].vector = 6
      /\ frames'[1].rip = "ud2_next"
    BY <1>1, <1>2, <1>3, ExceptSeq
<1> QED
    BY <1>1, <1>2, <1>4 DEF ProgramRip, HandlerRip, FirstVector

-----------------------------------------------------------------------------
(* The buffer and its translations. *)

Writable(p)  == "W" \in Walk(p)
Protected(p) == layout.upper[p] = "table" /\ pte[p].flags = {"P"}

Starting == {"init_exception", "register", "cache_cr3"}
Written  == {"ud2", "ud2_next", "report_intr", "report_ud", "report_pf", "return", "done"}

(* A page fault is one of the two loops', at the page the loop is at, which cannot be
   written until the handler has repaired its leaf entry. *)
FaultInv ==
    /\ cr2.off = 0
    /\ FirstVector = 14 => ProgramRip \in {"touch", "write"} /\ cr2.page = i
    /\ HandlerRip \in {"pf", "pf_invlpg"} => FirstVector = 14
    /\ FirstVector = 14 /\ HandlerRip \in {"common", "switch", "pf"} => ~Writable(i)
    /\ HandlerRip = "pf_invlpg" => layout.upper[i] = "table" /\ pte[i].flags = Flags

(* What is cached is what the page tables say, but for the page whose entry was
   written and not yet invalidated, by the program or by the handler. *)
TlbExact ==
    \A p \in Pages :
        \/ tlb[p] \in {{}, Walk(p)}
        \/ ProgramRip = "invlpg" /\ p = i
        \/ HandlerRip = "pf_invlpg" /\ p = i

(* What the program has made of the leaf entries so far: the first loop leaves them
   writable, mprotect protects them one by one, and the timed loop is as far as i. *)
BufferInv ==
    /\ ProgramRip \in Starting => pte = layout.pte
    /\ ProgramRip \notin Starting \union Stopped => g_cached_cr3 = "cr3"
    /\ ProgramRip = "touch" =>
           \A p \in Pages : /\ p < i => Writable(p)
                            /\ p > i => pte[p] = layout.pte[p]
                            /\ pte[p] # layout.pte[p] => Writable(p)
    /\ ProgramRip = "mprotect" =>
           \A p \in Pages : IF p < i THEN Protected(p) ELSE Writable(p)
    /\ ProgramRip = "invlpg" =>
           \A p \in Pages : IF p <= i THEN Protected(p) ELSE Writable(p)
    /\ ProgramRip = "read" => \A p \in Pages : Protected(p)
    /\ ProgramRip = "write" =>
           \A p \in Pages : /\ layout.upper[p] = "table"
                            /\ p < i => Writable(p)
                            /\ p > i => Protected(p)
                            /\ Protected(p) \/ Writable(p)
    /\ ProgramRip \in Written =>
           \A p \in Pages : layout.upper[p] = "table" /\ Writable(p)

MemoryInv == TypeInv /\ FaultInv /\ TlbExact /\ BufferInv

memory == <<i, g_cached_cr3, layout, pte, tlb, cr2>>

(* What the walk of a page finds, by the shape of the tables above its leaf. *)
LEMMA WalkFacts ==
    ASSUME TypeOK, NEW p \in Pages
    PROVE  /\ Walk(p) \subseteq Flags
           /\ Protected(p) => Walk(p) = {"P"} /\ ~Writable(p)
           /\ Writable(p) /\ layout.upper[p] = "table" => pte[p].flags = Flags
           /\ layout.upper[p] = "table" /\ pte[p].flags = Flags => Walk(p) = Flags /\ Writable(p)
           /\ layout.upper[p] = "absent" => ~Writable(p)
           /\ layout.upper[p] = "large" => Walk(p) = Flags /\ Writable(p)
           /\ layout.upper[p] \in {"table", "absent", "large"}
<1>1. pte[p].flags \in SUBSET {"P", "W"} /\ layout.upper[p] \in {"table", "absent", "large"}
    BY UpperFacts DEF PTE, Flags, Upper
<1> QED
    BY <1>1 DEF Walk, Writable, Protected, Flags

(* A write of the flags of one leaf entry. *)
LEMMA SetFlagsFacts ==
    ASSUME TypeOK, NEW p \in Pages, NEW flags \in SUBSET Flags, SetFlags(p, flags),
           UNCHANGED layout
    PROVE  /\ pte'[p].flags = flags
           /\ \A q \in Pages : q # p => pte'[q] = pte[q] /\ Walk(q)' = Walk(q)
<1>1. pte \in [Pages -> PTE]
    BY DEF TypeOK
<1> QED
    BY <1>1 DEF SetFlags, Walk

(* Steps that do not touch the buffer, the cache or what the program knows of it. *)
LEMMA MemoryUntouched ==
    ASSUME MemoryInv, UNCHANGED memory, UNCHANGED ProgramRip,
           \/ UNCHANGED control
           \/ /\ HandlerRip # "pf_invlpg" /\ HandlerRip' \notin {"pf", "pf_invlpg"}
              /\ FirstVector' \in {FirstVector, 0}
              /\ HandlerRip' \in {"common", "switch"} => HandlerRip \in {"common", "switch"}
    PROVE  FaultInv' /\ TlbExact' /\ BufferInv'
<1>1. \A p \in Pages : UNCHANGED <<Walk(p), Writable(p), Protected(p)>>
    BY DEF memory, Walk, Writable, Protected
<1>2. FaultInv'
    BY <1>1 DEF MemoryInv, FaultInv, control, memory, Writable, Walk
<1>3. TlbExact'
    BY <1>1 DEF MemoryInv, TlbExact, control, memory
<1>4. BufferInv'
    BY <1>1 DEF MemoryInv, BufferInv, control, memory
<1> QED
    BY <1>2, <1>3, <1>4

(* Nothing is protected, cached or known before the program starts. *)
LEMMA InitMemoryInv == Init => MemoryInv
<1> SUFFICES ASSUME Init PROVE MemoryInv
    OBVIOUS
<1>1. TypeInv
    BY InitTypeInv
<1>2. ProgramRip = "init_exception" /\ HandlerRip = "none" /\ FirstVector = 0
    BY DEF Init, ProgramRip, HandlerRip, FirstVector
<1>3. FaultInv /\ TlbExact /\ BufferInv
    BY <1>2 DEF Init, FaultInv, TlbExact, BufferInv, Starting, Written, Stopped
<1> QED
    BY <1>1, <1>3 DEF MemoryInv

(* A store through a translation that was cached or walked goes on to the next page;
   the page it wrote is writable. *)
LEMMA StoreDone ==
    ASSUME MemoryInv, rip \in {"touch", "write"}, UNCHANGED frames,
           "W" \in Permissions(i), AccessOk(i),
           NextIteration(rip, IF rip = "touch" THEN "mprotect" ELSE "ud2"),
           UNCHANGED <<g_cached_cr3, layout, pte, cr2>>
    PROVE  FaultInv' /\ TlbExact' /\ BufferInv'
<1> USE SizesAssumption DEF MemoryInv
<1>1. /\ ProgramRip = rip /\ ProgramRip' = rip'
      /\ HandlerRip = "none" /\ HandlerRip' = "none"
      /\ FirstVector = 0 /\ FirstVector' = 0
    BY ProgramControl DEF Program
<1>2. i \in Pages /\ TypeOK /\ tlb \in [Pages -> SUBSET Flags]
    BY <1>1 DEF TypeInv, LoopPosition, TypeOK
<1>3. \A p \in Pages : UNCHANGED <<Walk(p), Writable(p), Protected(p)>>
    BY DEF Walk, Writable, Protected
<1>4. Permissions(i) = Walk(i)
    BY <1>1, <1>2 DEF Permissions, TlbExact
<1>5. Writable(i) /\ tlb' = [tlb EXCEPT ![i] = Walk(i)]
    BY <1>4 DEF Writable, AccessOk
<1>6. FaultInv'
    BY <1>1 DEF FaultInv
<1>7. TlbExact'
    BY <1>1, <1>2, <1>3, <1>5 DEF TlbExact
<1>8. BufferInv'
  <2>1. \A p \in Pages : Writable(p) => layout.upper[p] # "absent"
    BY <1>2, WalkFacts
  <2>2. CASE i + 1 < NPages
    BY <1>1, <1>2, <1>3, <1>5, <2>2 DEF NextIteration, BufferInv, Pages, Starting,
                                        Stopped, Written
  <2>3. CASE ~(i + 1 < NPages)
    BY <1>1, <1>2, <1>3, <1>5, <2>3 DEF NextIteration, BufferInv, Pages, Starting,
                                        Stopped, Written
  <2> QED
    BY <2>2, <2>3
<1> QED
    BY <1>6, <1>7, <1>8

(* A store that faults. *)
LEMMA StoreFaults ==
    ASSUME MemoryInv, rip \in {"touch", "write"}, "W" \notin Permissions(i), PageFault(i),
           UNCHANGED <<i, g_cached_cr3, layout, pte>>
    PROVE  FaultInv' /\ TlbExact' /\ BufferInv'
<1> USE DEF MemoryInv
<1>1. /\ ProgramRip = rip /\ ProgramRip' = rip
      /\ HandlerRip = "none" /\ HandlerRip' = "common"
      /\ FirstVector = 0 /\ FirstVector' = 14
    BY TrapControl DEF Program, PageFault
<1>2. i \in Pages /\ TypeOK /\ tlb \in [Pages -> SUBSET Flags]
    BY <1>1 DEF TypeInv, LoopPosition, TypeOK
<1>3. \A p \in Pages : UNCHANGED <<Walk(p), Writable(p), Protected(p)>>
    BY DEF Walk, Writable, Protected
<1>4. Permissions(i) = Walk(i) /\ ~Writable(i)
    BY <1>1, <1>2 DEF Permissions, TlbExact, Writable
<1>5. FaultInv'
    BY <1>1, <1>2, <1>3, <1>4 DEF FaultInv, PageFault
<1>6. TlbExact'
    BY <1>1, <1>2, <1>3 DEF TlbExact, PageFault
<1>7. BufferInv'
    BY <1>1, <1>3 DEF BufferInv
<1> QED
    BY <1>5, <1>6, <1>7

(* mprotect writes the entry of the page it is at, or aborts on a large one; it never
   passes a page over, since the first loop could write all of them. *)
LEMMA ProtectMemory ==
    ASSUME MemoryInv, ProtectPage
    PROVE  /\ FaultInv' /\ TlbExact' /\ BufferInv'
           /\ ProgramRip = "mprotect" /\ ProgramRip' = rip' /\ HandlerRip' = "none"
           /\ i \in Pages /\ Writable(i)
           /\ \/ /\ rip' = "invlpg" /\ UNCHANGED i /\ ~Writable(i)'
                 /\ \A q \in Pages : q # i => Walk(q)' = Walk(q)
              \/ rip' = "aborted" /\ UNCHANGED <<i, pte>>
<1> USE DEF MemoryInv, mmu, cpu, setup
<1>1. /\ ProgramRip = "mprotect" /\ ProgramRip' = rip'
      /\ HandlerRip = "none" /\ HandlerRip' = "none"
      /\ FirstVector = 0 /\ FirstVector' = 0
    BY ProgramControl DEF Program, ProtectPage
<1>2. i \in Pages /\ TypeOK /\ Lookup(i) = layout.upper[i] /\ Writable(i)
    BY <1>1 DEF TypeInv, LoopPosition, Lookup, BufferInv, Starting, Stopped, Pages
<1>3. layout.upper[i] \in {"table", "large"}
    BY <1>2, WalkFacts
<1>4. CASE layout.upper[i] = "table"
  <2>1. SetFlags(i, {"P"}) /\ rip' = "invlpg" /\ UNCHANGED <<i, layout, tlb, cr2, g_cached_cr3>>
    BY <1>2, <1>4 DEF ProtectPage
  <2>2. /\ pte'[i].flags = {"P"}
        /\ \A q \in Pages : q # i => pte'[q] = pte[q] /\ Walk(q)' = Walk(q)
    BY <1>2, <2>1, SetFlagsFacts DEF Flags
  <2>3. \A q \in Pages : q # i => UNCHANGED <<Walk(q), Writable(q), Protected(q)>>
    BY <2>1, <2>2 DEF Writable, Protected
  <2>4. FaultInv' /\ TlbExact'
    BY <1>1, <2>1, <2>3 DEF FaultInv, TlbExact
  <2>5. Protected(i)'
    BY <1>4, <2>1, <2>2 DEF Protected
  <2>6. BufferInv'
    BY <1>1, <1>2, <2>1, <2>3, <2>5 DEF BufferInv, Starting, Stopped, Written, Pages
  <2>7. ~Writable(i)'
    BY <2>5, <2>1, <1>4, <2>2 DEF Writable, Walk
  <2> QED
    BY <1>1, <1>2, <2>1, <2>2, <2>4, <2>6, <2>7
<1>5. CASE layout.upper[i] = "large"
  <2>1. rip' = "aborted" /\ UNCHANGED <<i, pte, layout, tlb, cr2, g_cached_cr3>>
    BY <1>2, <1>5 DEF ProtectPage
  <2>2. \A p \in Pages : UNCHANGED <<Walk(p), Writable(p), Protected(p)>>
    BY <2>1 DEF Walk, Writable, Protected
  <2>3. FaultInv' /\ TlbExact' /\ BufferInv'
    BY <1>1, <2>1, <2>2 DEF FaultInv, TlbExact, BufferInv, Starting, Stopped, Written
  <2> QED
    BY <1>1, <1>2, <2>1, <2>3
<1> QED
    BY <1>3, <1>4, <1>5

(* invlpg: nothing is cached of the page that was protected. *)
LEMMA InvalidateMemory ==
    ASSUME MemoryInv, InvalidatePage
    PROVE  FaultInv' /\ TlbExact' /\ BufferInv'
<1> USE SizesAssumption DEF MemoryInv, cpu, setup
<1>1. /\ ProgramRip = "invlpg" /\ ProgramRip' = rip'
      /\ HandlerRip = "none" /\ HandlerRip' = "none"
      /\ FirstVector = 0 /\ FirstVector' = 0
    BY ProgramControl DEF Program, InvalidatePage
<1>2. i \in Pages /\ TypeOK /\ tlb \in [Pages -> SUBSET Flags]
    BY <1>1 DEF TypeInv, LoopPosition, TypeOK
<1>3. /\ tlb' = [tlb EXCEPT ![i] = {}]
      /\ NextIteration("mprotect", "read")
      /\ UNCHANGED <<g_cached_cr3, layout, pte, cr2>>
    BY DEF InvalidatePage
<1>4. \A p \in Pages : UNCHANGED <<Walk(p), Writable(p), Protected(p)>>
    BY <1>3 DEF Walk, Writable, Protected
<1>5. FaultInv' /\ TlbExact'
    BY <1>1, <1>2, <1>3, <1>4 DEF FaultInv, TlbExact, NextIteration
<1>6. CASE i + 1 < NPages
    BY <1>1, <1>2, <1>3, <1>4, <1>5, <1>6 DEF NextIteration, BufferInv, Pages, Starting,
                                              Stopped, Written
<1>7. CASE ~(i + 1 < NPages)
    BY <1>1, <1>2, <1>3, <1>4, <1>5, <1>7 DEF NextIteration, BufferInv, Pages, Starting,
                                              Stopped, Written
<1> QED
    BY <1>6, <1>7

(* The first page can be read back: its protected entry is present. *)
LEMMA ReadBackMemory ==
    ASSUME MemoryInv, ReadBack
    PROVE  /\ FaultInv' /\ TlbExact' /\ BufferInv'
           /\ rip' = "write" /\ UNCHANGED <<frames, cr2>>
<1> USE SizesAssumption DEF MemoryInv, cpu, setup, Pages
<1>1. rip = "read" /\ HandlerRip = "none" /\ ProgramRip = "read" /\ i = 0
    BY StackFacts DEF ReadBack, Program, ProgramRip, HandlerRip, TypeInv, LoopPosition
<1>2. 0 \in Pages /\ TypeOK /\ tlb \in [Pages -> SUBSET Flags] /\ Protected(0)
  <2>1. 0 \in Pages /\ TypeOK /\ tlb \in [Pages -> SUBSET Flags]
    BY DEF TypeInv, TypeOK
  <2>2. \A p \in Pages : Protected(p)
    BY <1>1 DEF BufferInv
  <2> QED
    BY <2>1, <2>2
<1>3. Walk(0) = {"P"} /\ Permissions(0) = {"P"}
    BY <1>1, <1>2, WalkFacts DEF TlbExact, Permissions
<1>4. /\ tlb' = [tlb EXCEPT ![0] = Walk(0)] /\ rip' = "write"
      /\ UNCHANGED <<frames, i, g_cached_cr3, layout, pte, cr2>>
    BY <1>3 DEF ReadBack, AccessOk
<1>5. /\ ProgramRip' = rip' /\ HandlerRip' = "none"
      /\ FirstVector = 0 /\ FirstVector' = 0
    BY <1>1, <1>4, ProgramControl DEF Program
<1>6. \A p \in Pages : UNCHANGED <<Walk(p), Writable(p), Protected(p)>>
    BY <1>4 DEF Walk, Writable, Protected
<1>7. FaultInv' /\ TlbExact'
    BY <1>1, <1>2, <1>4, <1>5, <1>6 DEF FaultInv, TlbExact
<1>8. BufferInv'
    BY <1>1, <1>4, <1>5, <1>6 DEF BufferInv, Starting, Stopped, Written, Protected
<1> QED
    BY <1>4, <1>7, <1>8

(* The handler of a page fault finds the leaf entry and makes the page writable, or
   finds none; the address is aligned and not under a large page. *)
LEMMA UnprotectMemory ==
    ASSUME MemoryInv, Unprotect
    PROVE  /\ FaultInv' /\ TlbExact' /\ BufferInv'
           /\ FirstVector = 14 /\ HandlerRip = "pf" /\ i \in Pages /\ ~Writable(i)
           /\ HandlerRip' = rip' /\ UNCHANGED <<FirstVector, ProgramRip, i, layout>>
           /\ \/ /\ layout.upper[i] = "table" /\ rip' = "pf_invlpg"
                 /\ Writable(i)'
                 /\ \A q \in Pages : q # i => pte'[q] = pte[q] /\ Walk(q)' = Walk(q)
              \/ /\ layout.upper[i] = "absent" /\ rip' = "iretq"
                 /\ ProgramRip = "touch" /\ UNCHANGED pte
<1> USE SizesAssumption DEF MemoryInv, cpu, setup
<1>1. /\ HandlerRip = "pf" /\ HandlerRip' = rip' /\ FirstVector = 14
      /\ UNCHANGED <<ProgramRip, FirstVector>>
  <2>1. rip \in Handler /\ UNCHANGED frames /\ rip = "pf"
    BY DEF Unprotect, Handler
  <2>2. HandlerRip = "pf" /\ HandlerRip' = rip' /\ UNCHANGED <<ProgramRip, FirstVector>>
    BY <2>1, FirstControl
  <2> QED
    BY <2>2 DEF FaultInv
<1>2. /\ ProgramRip \in {"touch", "write"} /\ cr2.page = i /\ cr2.off = 0
      /\ i \in Pages /\ TypeOK /\ ~Writable(i) /\ tlb \in [Pages -> SUBSET Flags]
    BY <1>1 DEF FaultInv, TypeInv, LoopPosition, TypeOK
<1>3. Lookup(i) = layout.upper[i] /\ layout.upper[i] \in {"table", "absent"}
    BY <1>2, WalkFacts DEF Lookup, BufferInv, Starting, Stopped
<1>4. CASE layout.upper[i] = "table"
  <2>1. /\ SetFlags(i, {"P", "W"}) /\ rip' = "pf_invlpg"
        /\ UNCHANGED <<i, layout, tlb, cr2, g_cached_cr3>>
    BY <1>2, <1>3, <1>4 DEF Unprotect
  <2>2. /\ pte'[i].flags = {"P", "W"}
        /\ \A q \in Pages : q # i => pte'[q] = pte[q] /\ Walk(q)' = Walk(q)
    BY <1>2, <2>1, SetFlagsFacts DEF Flags
  <2>3. \A q \in Pages : q # i => UNCHANGED <<Walk(q), Writable(q), Protected(q)>>
    BY <2>1, <2>2 DEF Writable, Protected
  <2>4. Walk(i)' = Flags /\ Writable(i)'
    BY <1>4, <2>1, <2>2 DEF Walk, Writable, Flags
  <2>5. FaultInv' /\ TlbExact'
    BY <1>1, <1>2, <1>4, <2>1, <2>2, <2>3 DEF FaultInv, TlbExact, Flags
  <2>6. BufferInv'
    BY <1>1, <1>2, <2>1, <2>2, <2>3, <2>4 DEF BufferInv, Starting, Stopped, Written, Pages
  <2> QED
    BY <1>1, <1>2, <1>4, <2>1, <2>2, <2>4, <2>5, <2>6
<1>5. CASE layout.upper[i] = "absent"
  <2>1. rip' = "iretq" /\ UNCHANGED <<i, g_cached_cr3, pte, layout, tlb, cr2>>
    BY <1>2, <1>3, <1>5 DEF Unprotect
  <2>2. FaultInv' /\ TlbExact' /\ BufferInv'
    BY <1>1, <2>1, MemoryUntouched DEF memory
  <2>3. ProgramRip = "touch"
    BY <1>2, <1>5 DEF BufferInv
  <2> QED
    BY <1>1, <1>2, <1>5, <2>1, <2>2, <2>3
<1> QED
    BY <1>3, <1>4, <1>5

(* ... and leaves nothing cached of it. *)
LEMMA InvalidateFaultingMemory ==
    ASSUME MemoryInv, InvalidateFaulting
    PROVE  /\ FaultInv' /\ TlbExact' /\ BufferInv'
           /\ HandlerRip = "pf_invlpg" /\ HandlerRip' = "iretq"
           /\ UNCHANGED <<FirstVector, ProgramRip>>
<1> USE DEF MemoryInv, cpu, setup
<1>1. /\ HandlerRip = "pf_invlpg" /\ HandlerRip' = "iretq" /\ FirstVector = 14
      /\ UNCHANGED <<ProgramRip, FirstVector>>
  <2>1. rip \in Handler /\ UNCHANGED frames /\ rip = "pf_invlpg" /\ rip' = "iretq"
    BY DEF InvalidateFaulting, Handler
  <2>2. HandlerRip = "pf_invlpg" /\ HandlerRip' = rip' /\ UNCHANGED <<ProgramRip, FirstVector>>
    BY <2>1, FirstControl
  <2> QED
    BY <2>1, <2>2 DEF FaultInv
<1>2. /\ ProgramRip \in {"touch", "write"} /\ cr2.page = i
      /\ i \in Pages /\ tlb \in [Pages -> SUBSET Flags]
    BY <1>1 DEF FaultInv, TypeInv, LoopPosition, TypeOK
<1>3. tlb' = [tlb EXCEPT ![i] = {}] /\ UNCHANGED <<i, g_cached_cr3, layout, pte, cr2>>
    BY <1>2 DEF InvalidateFaulting
<1>4. \A p \in Pages : UNCHANGED <<Walk(p), Writable(p), Protected(p)>>
    BY <1>3 DEF Walk, Writable, Protected
<1>5. FaultInv' /\ TlbExact' /\ BufferInv'
    BY <1>1, <1>2, <1>3, <1>4 DEF FaultInv, TlbExact, BufferInv
<1> QED
    BY <1>1, <1>5

(* The CPU caches what it walks, and forgets it. *)
LEMMA CacheMemory ==
    ASSUME MemoryInv, NEW p \in Pages, TlbFill(p) \/ TlbEvict(p)
    PROVE  FaultInv' /\ TlbExact' /\ BufferInv' /\ UNCHANGED control
<1> USE DEF MemoryInv
<1>1. /\ tlb' = [tlb EXCEPT ![p] = Walk(p)] \/ tlb' = [tlb EXCEPT ![p] = {}]
      /\ UNCHANGED <<rip, frames, i, g_cached_cr3, layout, pte, cr2>>
    BY DEF TlbFill, TlbEvict, cpu, setup
<1>2. UNCHANGED control /\ tlb \in [Pages -> SUBSET Flags]
    BY <1>1 DEF control, ProgramRip, HandlerRip, FirstVector, TypeInv, TypeOK
<1>3. \A q \in Pages : UNCHANGED <<Walk(q), Writable(q), Protected(q)>>
    BY <1>1 DEF Walk, Writable, Protected
<1>4. FaultInv'
  <2>1. UNCHANGED Writable(i)
    BY <1>1 DEF Writable, Walk
  <2> QED
    BY <1>1, <1>2, <2>1 DEF FaultInv, control
<1>5. TlbExact'
    BY <1>1, <1>2, <1>3 DEF TlbExact, control
<1>6. BufferInv'
    BY <1>1, <1>2, <1>3 DEF BufferInv, control
<1> QED
    BY <1>2, <1>4, <1>5, <1>6

(* No step makes the cache, the leaf entries and the program's loops disagree. *)
LEMMA NextMemoryInv == MemoryInv /\ [Next]_vars => MemoryInv'
<1> SUFFICES ASSUME MemoryInv, [Next]_vars
             PROVE  FaultInv' /\ TlbExact' /\ BufferInv'
    BY NextTypeInv DEF MemoryInv
<1> USE DEF bench, counts, setup, mmu, cpu, devices, history
<1>0. TypeInv /\ TypeOK
    BY DEF MemoryInv, TypeInv
<1>1. CASE InitException \/ RegisterHandler
  <2>1. /\ ProgramRip \in Starting /\ ProgramRip' \in Starting /\ UNCHANGED memory
        /\ HandlerRip = "none" /\ HandlerRip' = "none"
        /\ FirstVector = 0 /\ FirstVector' = 0
    BY <1>0, <1>1, ProgramControl DEF InitException, RegisterHandler, Program, Starting,
                                      memory
  <2>2. \A p \in Pages : UNCHANGED Walk(p)
    BY <2>1 DEF Walk, memory
  <2> QED
    BY <2>1, <2>2 DEF MemoryInv, FaultInv, TlbExact, BufferInv, memory, Starting, Written
<1>2. CASE CacheCr3
  <2>1. /\ ProgramRip = "cache_cr3" /\ ProgramRip' = "touch"
        /\ HandlerRip = "none" /\ HandlerRip' = "none"
        /\ FirstVector = 0 /\ FirstVector' = 0
        /\ g_cached_cr3' = "cr3" /\ UNCHANGED <<i, layout, pte, tlb, cr2>>
    BY <1>0, <1>2, ProgramControl DEF CacheCr3, Program
  <2>2. i = 0 /\ pte = layout.pte
    BY <1>0, <2>1 DEF MemoryInv, BufferInv, Starting, TypeInv, LoopPosition
  <2>3. \A p \in Pages : UNCHANGED <<Walk(p), Writable(p)>>
    BY <2>1 DEF Walk, Writable
  <2>4. FaultInv' /\ TlbExact'
    BY <2>1, <2>3 DEF MemoryInv, FaultInv, TlbExact
  <2>5. BufferInv'
    BY <2>1, <2>2 DEF BufferInv, Starting, Written, Pages
  <2> QED
    BY <2>4, <2>5
<1>3. CASE Touch
  <2>1. CASE /\ "W" \in Permissions(i) /\ AccessOk(i)
             /\ NextIteration("touch", "mprotect") /\ UNCHANGED <<cr2, cpu>>
    BY <1>3, <2>1, StoreDone DEF Touch, StorePage
  <2>2. CASE "W" \notin Permissions(i) /\ PageFault(i) /\ UNCHANGED <<i, nmi_blocked>>
    BY <1>3, <2>2, StoreFaults DEF Touch, StorePage
  <2> QED
    BY <1>3, <2>1, <2>2 DEF Touch, StorePage
<1>4. CASE Write
  <2>1. CASE /\ "W" \in Permissions(i) /\ AccessOk(i)
             /\ NextIteration("write", "ud2") /\ UNCHANGED <<cr2, cpu>>
    BY <1>4, <2>1, StoreDone DEF Write, StorePage
  <2>2. CASE "W" \notin Permissions(i) /\ PageFault(i) /\ UNCHANGED <<i, nmi_blocked>>
    BY <1>4, <2>2, StoreFaults DEF Write, StorePage
  <2> QED
    BY <1>4, <2>1, <2>2 DEF Write, StorePage
<1>5. CASE ProtectPage
    BY <1>5, ProtectMemory
<1>6. CASE InvalidatePage
    BY <1>6, InvalidateMemory
<1>7. CASE ReadBack
    BY <1>7, ReadBackMemory
<1>8. CASE Ud2
  <2>1. /\ UNCHANGED ProgramRip /\ UNCHANGED memory
        /\ HandlerRip = "none" /\ HandlerRip' = "common" /\ FirstVector' = 6
    BY <1>0, <1>8, TrapControl DEF Ud2, Program, memory
  <2>2. \A p \in Pages : UNCHANGED <<Walk(p), Writable(p), Protected(p)>>
    BY <2>1 DEF Walk, Writable, Protected, memory
  <2> QED
    BY <2>1, <2>2 DEF MemoryInv, FaultInv, TlbExact, BufferInv, memory
<1>9. CASE Ud2Next \/ Ud2Done \/ Report
  <2>1. /\ ProgramRip \in Written /\ ProgramRip' \in Written
        /\ HandlerRip = "none" /\ HandlerRip' = "none"
        /\ FirstVector = 0 /\ FirstVector' = 0
        /\ UNCHANGED <<g_cached_cr3, layout, pte, tlb, cr2>>
    BY <1>0, <1>9, ProgramControl DEF Ud2Next, Ud2Done, Report, ReportIntr, ReportUd,
                                            ReportPf, Return, Program, Written
  <2>2. ProgramRip \notin Starting \union Stopped
    BY <1>0, <1>9, ProgramControl DEF Ud2Next, Ud2Done, Report, ReportIntr, ReportUd,
                                            ReportPf, Return, Program, Starting, Stopped
  <2>3. \A p \in Pages : UNCHANGED <<Walk(p), Writable(p)>>
    BY <2>1 DEF Walk, Writable
  <2> QED
    BY <2>1, <2>2, <2>3 DEF MemoryInv, FaultInv, TlbExact, BufferInv, Starting, Written
<1>10. CASE CommonHandler
  <2>1. /\ rip = "common" /\ rip \in Handler /\ rip' \in {"switch", "iretq"}
        /\ UNCHANGED frames /\ UNCHANGED memory
    BY <1>10 DEF CommonHandler, Handler, memory
  <2>2. \/ UNCHANGED control
        \/ /\ HandlerRip = rip /\ HandlerRip' = rip'
           /\ UNCHANGED <<ProgramRip, FirstVector>>
    BY <1>0, <2>1, HandlerControl
  <2>3. UNCHANGED ProgramRip
    BY <2>2 DEF control
  <2> QED
    BY <2>1, <2>2, <2>3, MemoryUntouched
<1>11. CASE HandleUd
  <2>1. /\ HandlerRip = "switch" /\ HandlerRip' = "iretq"
        /\ FirstVector = 6 /\ FirstVector' = 6
        /\ ProgramRip \in Written /\ ProgramRip' \in Written
        /\ ProgramRip \notin Starting \union Stopped
    BY <1>0, <1>11, UdControl DEF Written, Starting, Stopped
  <2>2. UNCHANGED memory
    BY <1>11 DEF HandleUd, memory
  <2>3. \A p \in Pages : UNCHANGED <<Walk(p), Writable(p)>>
    BY <2>2 DEF Walk, Writable, memory
  <2> QED
    BY <2>1, <2>2, <2>3 DEF MemoryInv, FaultInv, TlbExact, BufferInv, memory, Starting, Written
<1>12. CASE HandlePf
  <2>1. /\ rip = "switch" /\ rip \in Handler /\ rip' = "pf" /\ Top.vector = 14
        /\ UNCHANGED frames /\ UNCHANGED memory
    BY <1>12 DEF HandlePf, Handler, memory
  <2>2. /\ HandlerRip = "switch" /\ HandlerRip' = "pf" /\ FirstVector = 14
        /\ UNCHANGED <<ProgramRip, FirstVector>>
    BY <1>0, <2>1, FirstControl
  <2>3. \A p \in Pages : UNCHANGED <<Walk(p), Writable(p), Protected(p)>>
    BY <2>1 DEF Walk, Writable, Protected, memory
  <2>4. FaultInv'
    <3>1. UNCHANGED Writable(i)
      BY <2>1 DEF Writable, Walk, memory
    <3> QED
      BY <2>1, <2>2, <3>1 DEF MemoryInv, FaultInv, memory
  <2>5. TlbExact' /\ BufferInv'
    BY <2>1, <2>2, <2>3 DEF MemoryInv, TlbExact, BufferInv, memory
  <2> QED
    BY <2>4, <2>5
<1>13. CASE HandleInterrupt \/ HandleUnexpected
  <2>1. /\ rip = "switch" /\ rip \in Handler /\ rip' \in {"vmmcall", "aborted"}
        /\ UNCHANGED frames /\ UNCHANGED memory
    BY <1>13 DEF HandleInterrupt, HandleUnexpected, Handler, memory
  <2>2. \/ UNCHANGED control
        \/ /\ HandlerRip = rip /\ HandlerRip' = rip'
           /\ UNCHANGED <<ProgramRip, FirstVector>>
    BY <1>0, <2>1, HandlerControl
  <2>3. UNCHANGED ProgramRip
    BY <2>2 DEF control
  <2> QED
    BY <2>1, <2>2, <2>3, MemoryUntouched
<1>14. CASE Unprotect
    BY <1>14, UnprotectMemory
<1>15. CASE InvalidateFaulting
    BY <1>15, InvalidateFaultingMemory
<1>16. CASE Forward
  <2>1. /\ rip = "vmmcall" /\ rip \in Handler /\ rip' = "iretq"
        /\ UNCHANGED frames /\ UNCHANGED memory
    BY <1>16 DEF Forward, Handler, memory
  <2>2. HandlerRip = rip /\ HandlerRip' = rip' /\ UNCHANGED <<ProgramRip, FirstVector>>
    BY <1>0, <2>1, FirstControl
  <2> QED
    BY <2>1, <2>2, MemoryUntouched
<1>17. CASE Iretq
  <2>1. UNCHANGED memory
    BY <1>17 DEF Iretq, memory
  <2> QED
    BY <1>0, <1>17, <2>1, IretqControl, MemoryUntouched
<1>18. ASSUME NEW p \in Pages, TlbFill(p) \/ TlbEvict(p)
       PROVE  FaultInv' /\ TlbExact' /\ BufferInv'
    BY <1>18, CacheMemory
<1>19. ASSUME NEW v \in Vectors, RaiseInterrupt(v)
       PROVE  FaultInv' /\ TlbExact' /\ BufferInv'
  <2>1. UNCHANGED control /\ UNCHANGED memory
    BY <1>19 DEF RaiseInterrupt, control, memory, ProgramRip, HandlerRip, FirstVector
  <2> QED
    BY <2>1, MemoryUntouched DEF control
<1>20. ASSUME NEW vec \in Vectors \union {2}, Deliver(vec), rip \in Program,
              UNCHANGED memory
       PROVE  FaultInv' /\ TlbExact' /\ BufferInv'
  <2>1. vec # 14
    BY VectorsAssumption
  <2>2. /\ UNCHANGED ProgramRip
        /\ HandlerRip = "none" /\ HandlerRip' = "common" /\ FirstVector' = vec
    BY <1>0, <1>20, TrapControl
  <2>3. \A p \in Pages : UNCHANGED <<Walk(p), Writable(p), Protected(p)>>
    BY <1>20 DEF Walk, Writable, Protected, memory
  <2> QED
    BY <1>20, <2>1, <2>2, <2>3 DEF MemoryInv, FaultInv, TlbExact, BufferInv, memory
<1>21. ASSUME NEW v \in Vectors, AcceptInterrupt(v)
       PROVE  FaultInv' /\ TlbExact' /\ BufferInv'
  <2>1. rip \in Program
    BY <1>0, <1>21 DEF AcceptInterrupt, TypeInv, StackShape, TypeOK, Locations
  <2> QED
    BY <1>20, <1>21, <2>1 DEF AcceptInterrupt, memory
<1>22. CASE AcceptNmi
  <2>1. UNCHANGED memory /\ rip \in Program \union Handler
    BY <1>0, <1>22 DEF AcceptNmi, memory, TypeOK, Locations
  <2>2. CASE rip \in Program
    BY <1>20, <1>22, <2>1, <2>2 DEF AcceptNmi
  <2>3. CASE rip \in Handler
    BY <1>0, <1>22, <2>1, <2>3, NmiControl, MemoryUntouched DEF control
  <2> QED
    BY <2>1, <2>2, <2>3
<1>23. CASE UNCHANGED vars
  <2>1. UNCHANGED control /\ UNCHANGED memory
    BY <1>23 DEF vars, control, memory, ProgramRip, HandlerRip, FirstVector
  <2> QED
    BY <2>1, MemoryUntouched DEF control
<1> QED
    BY <1>1, <1>2, <1>3, <1>4, <1>5, <1>6, <1>7, <1>8, <1>9, <1>10, <1>11, <1>12, <1>13,
       <1>14, <1>15, <1>16, <1>17, <1>18, <1>19, <1>21, <1>22, <1>23
       DEF Next, Execute, Ecall, Report, Trap, Environment, Terminating

(* What is cached is no more than what a walk allows. *)
LEMMA MemoryIsCoherent == MemoryInv => TlbCoherent
<1> SUFFICES ASSUME MemoryInv, NEW p \in Pages, HandlerRip = "pf_invlpg", p = i
             PROVE  tlb[p] \subseteq Walk(p)
    BY DEF MemoryInv, TlbExact, TlbCoherent
<1>1. Walk(p) = Flags
    BY WalkFacts DEF MemoryInv, TypeInv, FaultInv
<1> QED
    BY <1>1 DEF MemoryInv, TypeInv, TypeOK

(* What the timed loop has before and behind it. *)
LEMMA MemoryTimesFaults == MemoryInv => TimedLoopFaults
<1> SUFFICES ASSUME MemoryInv, ProgramRip = "write", NEW p \in Pages
             PROVE  (p < i => Writable(p)) /\ (p > i => ~Writable(p))
    BY DEF TimedLoopFaults, Writable
<1> QED
    BY WalkFacts DEF MemoryInv, TypeInv, BufferInv

(* No cached translation allows a store that the page tables forbid, except between
   the write of the entry in mprotect_page and its invlpg, whatever the CPU caches
   and forgets and whatever traps come. *)
THEOREM TlbIsCoherent == Spec => []TlbCoherent
<1> QED
    BY MemoryIsCoherent, InitMemoryInv, NextMemoryInv, PTL DEF Spec

(* The timed loop meets a protected page at each of its stores and leaves a writable
   one behind, on every shape of the page tables. *)
THEOREM TimedLoopAlwaysFaults == Spec => []TimedLoopFaults
<1> QED
    BY MemoryTimesFaults, InitMemoryInv, NextMemoryInv, PTL DEF Spec

-----------------------------------------------------------------------------
(* The counts. *)

(* What the program and its pages are; the counts of faults and of ud2. *)
progress == <<ProgramRip, i, nrepeats, layout, pte, g_pf_count, g_ud_count>>

(* The CPU, the devices and most of the handler leave all of that alone. *)
LEMMA QuietSteps ==
    ASSUME TypeInv,
           \/ CommonHandler \/ HandleInterrupt \/ HandleUnexpected \/ InvalidateFaulting
           \/ Forward \/ Iretq \/ Environment \/ UNCHANGED vars
    PROVE  /\ UNCHANGED progress
           /\ HandlerRip = "pf" <=> HandlerRip' = "pf"
           /\ FirstVector' = 6 /\ HandlerRip' \in {"common", "switch"} =>
                  FirstVector = 6 /\ HandlerRip \in {"common", "switch"}
<1> USE DEF bench, counts, setup, mmu, cpu, devices, history, progress
<1>1. CASE CommonHandler \/ HandleInterrupt \/ HandleUnexpected
  <2>1. /\ rip \in {"common", "switch"} /\ rip' \in {"switch", "vmmcall", "aborted", "iretq"}
        /\ UNCHANGED <<frames, i, nrepeats, layout, pte, g_pf_count, g_ud_count>>
    BY <1>1 DEF CommonHandler, HandleInterrupt, HandleUnexpected
  <2> QED
    BY <2>1, HandlerControl DEF Handler, control
<1>2. CASE InvalidateFaulting \/ Forward
  <2>1. /\ rip \in {"pf_invlpg", "vmmcall"} /\ rip' = "iretq"
        /\ UNCHANGED <<frames, i, nrepeats, layout, pte, g_pf_count, g_ud_count>>
    BY <1>2 DEF InvalidateFaulting, Forward
  <2> QED
    BY <2>1, HandlerControl DEF Handler, control
<1>3. CASE Iretq
    BY <1>3, IretqControl DEF Iretq, control
<1>4. ASSUME NEW p \in Pages, TlbFill(p) \/ TlbEvict(p)
      PROVE  UNCHANGED progress /\ UNCHANGED control
    BY <1>4 DEF TlbFill, TlbEvict, ProgramRip, HandlerRip, FirstVector, control
<1>5. ASSUME NEW v \in Vectors, RaiseInterrupt(v)
      PROVE  UNCHANGED progress /\ UNCHANGED control
    BY <1>5 DEF RaiseInterrupt, ProgramRip, HandlerRip, FirstVector, control
<1>6. ASSUME NEW v \in Vectors, AcceptInterrupt(v)
      PROVE  /\ UNCHANGED progress
             /\ HandlerRip = "none" /\ HandlerRip' = "common" /\ FirstVector' # 6
  <2>1. rip \in Program /\ Deliver(v) /\ v # 6
    BY <1>6, VectorsAssumption DEF AcceptInterrupt, TypeInv, StackShape, TypeOK, Locations
  <2> QED
    BY <1>6, <2>1, TrapControl DEF AcceptInterrupt
<1>7. CASE AcceptNmi
  <2>1. rip \in Program \union Handler
    BY <1>7 DEF AcceptNmi, TypeInv, TypeOK, Locations
  <2>2. CASE rip \in Program
    BY <1>7, <2>2, TrapControl DEF AcceptNmi
  <2>3. CASE rip \in Handler
    BY <1>7, <2>3, NmiControl DEF AcceptNmi, control
  <2> QED
    BY <2>1, <2>2, <2>3
<1>8. CASE UNCHANGED vars
    BY <1>8 DEF vars, ProgramRip, HandlerRip, FirstVector
<1> QED
    BY <1>1, <1>2, <1>3, <1>4, <1>5, <1>6, <1>7, <1>8 DEF Environment, control

(* A store is done, on a writable page, or it faults. *)
LEMMA StoreSteps ==
    ASSUME MemoryInv, NEW loop, NEW after, StorePage(loop, after),
           <<loop, after>> \in {<<"touch", "mprotect">>, <<"write", "ud2">>}
    PROVE  /\ rip = loop /\ ProgramRip = loop /\ HandlerRip = "none" /\ i \in Pages
           /\ UNCHANGED <<nrepeats, layout, pte, g_pf_count, g_ud_count>>
           /\ \/ /\ Writable(i)
                 /\ NextIteration(loop, after)
                 /\ ProgramRip' = rip' /\ HandlerRip' = "none" /\ FirstVector' = 0
              \/ /\ ~Writable(i)
                 /\ UNCHANGED <<ProgramRip, i>>
                 /\ HandlerRip' = "common" /\ FirstVector' = 14
<1> USE DEF bench, counts, cpu
<1>1. rip = loop /\ rip \in Program /\ TypeInv
    BY DEF StorePage, Program, MemoryInv
<1>2. ProgramRip = loop /\ HandlerRip = "none"
    BY <1>1, StackFacts DEF ProgramRip, HandlerRip
<1>3. i \in Pages /\ Permissions(i) = Walk(i)
    BY <1>1, <1>2 DEF MemoryInv, TypeInv, LoopPosition, TlbExact, Permissions
<1>4. CASE "W" \in Permissions(i) /\ NextIteration(loop, after) /\ UNCHANGED cpu
    BY <1>1, <1>2, <1>3, <1>4, ProgramControl DEF Writable, StorePage
<1>5. CASE "W" \notin Permissions(i) /\ PageFault(i) /\ UNCHANGED i
    BY <1>1, <1>2, <1>3, <1>5, TrapControl DEF Writable, StorePage, PageFault
<1> QED
    BY <1>4, <1>5 DEF StorePage

Untimed == Starting \union {"touch", "mprotect", "invlpg", "read", "write"}

(* A ud2 is counted by its handler, which also moves the program on. *)
UdInv ==
    /\ ProgramRip \in Untimed => g_ud_count = 0
    /\ ProgramRip = "ud2" => g_ud_count = i
    /\ ProgramRip = "ud2_next" => g_ud_count = i + 1
    /\ ProgramRip \in Reporting \union {"done"} => g_ud_count = nrepeats
    /\ FirstVector = 6 /\ HandlerRip \in {"common", "switch"} => ProgramRip = "ud2"

(* No ud2 is counted twice or skipped. *)
LEMMA NextUdInv == MemoryInv /\ UdInv /\ [Next]_vars => UdInv'
<1> SUFFICES ASSUME MemoryInv, UdInv, [Next]_vars
             PROVE  UdInv'
    OBVIOUS
<1> USE SizesAssumption DEF bench, counts, setup, mmu, cpu, devices, history
<1>0. TypeInv /\ TypeOK
    BY DEF MemoryInv, TypeInv
<1>1. CASE InitException \/ RegisterHandler \/ CacheCr3
  <2>1. /\ ProgramRip \in Untimed /\ ProgramRip' \in Untimed
        /\ FirstVector' = 0 /\ UNCHANGED g_ud_count
    BY <1>0, <1>1, ProgramControl
       DEF InitException, RegisterHandler, CacheCr3, Program, Untimed, Starting
  <2> QED
    BY <2>1 DEF UdInv, Untimed, Starting, Reporting
<1>2. CASE Touch
  <2>1. /\ ProgramRip = "touch" /\ ProgramRip' \in {"touch", "mprotect"}
        /\ FirstVector' # 6 /\ UNCHANGED g_ud_count
    BY <1>2, StoreSteps DEF Touch, NextIteration
  <2> QED
    BY <2>1 DEF UdInv, Untimed, Starting, Reporting
<1>3. CASE Write
  <2>1. /\ ProgramRip = "write" /\ ProgramRip' \in {"write", "ud2"}
        /\ ProgramRip' = "ud2" => i' = 0
        /\ FirstVector' # 6 /\ UNCHANGED g_ud_count
    BY <1>3, StoreSteps DEF Write, NextIteration
  <2> QED
    BY <2>1 DEF UdInv, Untimed, Starting, Reporting
<1>4. CASE ProtectPage \/ InvalidatePage
  <2>1. /\ ProgramRip \in {"mprotect", "invlpg"}
        /\ ProgramRip' \in {"mprotect", "invlpg", "read", "aborted"}
        /\ FirstVector' = 0 /\ UNCHANGED g_ud_count
    BY <1>0, <1>4, ProgramControl DEF ProtectPage, InvalidatePage, NextIteration, Program
  <2> QED
    BY <2>1 DEF UdInv, Untimed, Starting, Reporting
<1>5. CASE ReadBack
  <2>1. /\ ProgramRip = "read" /\ ProgramRip' = "write"
        /\ FirstVector' = 0 /\ UNCHANGED g_ud_count
    BY <1>0, <1>5, ReadBackMemory, ProgramControl DEF ReadBack, Program
  <2> QED
    BY <2>1 DEF UdInv, Untimed, Starting, Reporting
<1>6. CASE Ud2
  <2>1. /\ ProgramRip = "ud2" /\ ProgramRip' = "ud2" /\ UNCHANGED <<i, g_ud_count>>
    BY <1>0, <1>6, TrapControl DEF Ud2, Program
  <2> QED
    BY <2>1 DEF UdInv, Untimed, Starting, Reporting
<1>7. CASE Ud2Next
  <2>1. /\ ProgramRip = "ud2_next" /\ ProgramRip' = "ud2" /\ FirstVector' = 0
        /\ i' = i + 1 /\ UNCHANGED g_ud_count
    BY <1>0, <1>7, ProgramControl DEF Ud2Next, Program
  <2> QED
    BY <2>1 DEF UdInv, Untimed, Starting, Reporting
<1>8. CASE Ud2Done
  <2>1. /\ ProgramRip = "ud2" /\ ProgramRip' = "report_intr" /\ FirstVector' = 0
        /\ i = nrepeats /\ UNCHANGED <<nrepeats, g_ud_count>>
    BY <1>0, <1>8, ProgramControl DEF Ud2Done, Program
  <2> QED
    BY <2>1 DEF UdInv, Untimed, Starting, Reporting
<1>9. CASE Report
  <2>1. /\ ProgramRip \in Reporting /\ ProgramRip' \in Reporting \union {"done"}
        /\ FirstVector' = 0 /\ UNCHANGED <<nrepeats, g_ud_count>>
    BY <1>0, <1>9, ProgramControl
       DEF Report, ReportIntr, ReportUd, ReportPf, Return, Program, Reporting
  <2> QED
    BY <2>1 DEF UdInv, Untimed, Starting, Reporting
<1>10. CASE HandleUd
  <2>1. /\ HandlerRip = "switch" /\ HandlerRip' = "iretq"
        /\ FirstVector = 6 /\ FirstVector' = 6 /\ ProgramRip' = "ud2_next"
    BY <1>0, <1>10, UdControl
  <2>2. g_ud_count = i /\ i < nrepeats /\ g_ud_count' = Inc(g_ud_count) /\ UNCHANGED i
    BY <1>0, <1>10, <2>1 DEF UdInv, HandleUd, TypeInv, LoopPosition, FirstVector
  <2>3. g_ud_count' = i' + 1
    BY <1>0, <2>2 DEF TypeOK, Inc
  <2> QED
    BY <2>1, <2>3 DEF UdInv, Untimed, Starting, Reporting
<1>11. CASE HandlePf \/ Unprotect
  <2>1. /\ rip \in Handler /\ UNCHANGED frames
        /\ Top.vector # 2 \/ rip \notin {"common", "switch", "iretq"}
        /\ rip' \in {"pf", "pf_invlpg", "iretq", "aborted"}
        /\ UNCHANGED <<i, nrepeats, g_ud_count>>
    BY <1>11 DEF HandlePf, Unprotect, Handler
  <2>2. HandlerRip' = rip' /\ UNCHANGED ProgramRip
    BY <1>0, <2>1, FirstControl
  <2> QED
    BY <2>1, <2>2 DEF UdInv
<1>12. CASE \/ CommonHandler \/ HandleInterrupt \/ HandleUnexpected \/ InvalidateFaulting
            \/ Forward \/ Iretq \/ Environment \/ UNCHANGED vars
    BY <1>0, <1>12, QuietSteps DEF UdInv, progress
<1> QED
    BY <1>1, <1>2, <1>3, <1>4, <1>5, <1>6, <1>7, <1>8, <1>9, <1>10, <1>11, <1>12
       DEF Next, Execute, Ecall, Report, Trap, Terminating

(* Pages the first loop has made writable, pages the timed loop has, and the fault
   that is counted and not yet repaired. *)
Repaired == {p \in ReadOnly : layout.upper[p] = "table" /\ Writable(p)}
Refilled == {p \in Pages : Writable(p)}
Counting == IF HandlerRip = "pf" THEN 1 ELSE 0

(* Every page fault repairs a leaf entry: the count is the number of entries repaired.
   (A page without a leaf faults for ever: the count goes round.) *)
PfInv ==
    /\ ProgramRip \in Starting => g_pf_count = 0
    /\ ProgramRip = "touch" /\ layout.upper[i] # "absent" =>
           g_pf_count = Cardinality(Repaired) + Counting
    /\ ProgramRip \in {"mprotect", "invlpg", "read"}
           /\ (\A p \in Pages : layout.upper[p] = "table") =>
           g_pf_count = Cardinality(ReadOnly)
    /\ ProgramRip = "write" =>
           g_pf_count = Cardinality(ReadOnly) + Cardinality(Refilled) + Counting
    /\ ProgramRip \in Written => g_pf_count = Cardinality(ReadOnly) + NPages

(* The sets of pages, and what their sizes can be. *)
LEMMA PageSets ==
    ASSUME NEW S, S \subseteq Pages
    PROVE  /\ IsFiniteSet(S) /\ Cardinality(S) \in Nat /\ Cardinality(S) <= NPages
           /\ (\E p \in Pages : p \notin S) => Cardinality(S) < NPages
           /\ S = Pages => Cardinality(S) = NPages
<1>1. IsFiniteSet(Pages) /\ Cardinality(Pages) = NPages
    BY SizesAssumption, FS_Interval DEF Pages
<1>2. /\ IsFiniteSet(S) /\ Cardinality(S) <= Cardinality(Pages)
      /\ Cardinality(Pages) = Cardinality(S) => Pages = S
    BY <1>1, FS_Subset
<1>3. Cardinality(S) \in Nat
    BY <1>2, FS_CardinalityType
<1> QED
    BY <1>1, <1>2, <1>3, SizesAssumption

(* A page that is added to a set of pages adds one. *)
LEMMA PageAdded ==
    ASSUME NEW S, S \subseteq Pages, NEW p \in Pages, p \notin S
    PROVE  Cardinality(S \union {p}) = Cardinality(S) + 1
    BY PageSets, FS_AddElement

(* The count does not change unless a fault is taken up or a leaf entry written. *)
LEMMA PfUntouched ==
    ASSUME PfInv, UNCHANGED <<ProgramRip, i, layout, pte, g_pf_count>>,
           HandlerRip = "pf" <=> HandlerRip' = "pf"
    PROVE  PfInv'
<1>1. \A p : UNCHANGED Writable(p)
    BY DEF Writable, Walk
<1>2. UNCHANGED <<ReadOnly, Repaired, Refilled, Counting>>
    BY <1>1 DEF ReadOnly, Repaired, Refilled, Counting
<1> QED
    BY <1>2 DEF PfInv

(* What a fault of a page that has a leaf entry adds to the sets of pages. *)
LEMMA FaultAdds ==
    ASSUME MemoryInv, ProgramRip \in {"touch", "write"}, FirstVector = 14,
           HandlerRip \in {"switch", "pf"}
    PROVE  /\ i \in Pages /\ layout.upper[i] # "large"
           /\ i \notin Repaired /\ i \notin Refilled
           /\ ProgramRip = "touch" /\ layout.upper[i] = "table" => i \in ReadOnly
<1>1. i \in Pages /\ TypeOK /\ ~Writable(i)
    BY DEF MemoryInv, FaultInv, TypeInv, LoopPosition
<1>2. ASSUME ProgramRip = "touch", layout.upper[i] = "table"
      PROVE  i \in ReadOnly
  <2>1. pte[i] = layout.pte[i]
    BY <1>1, <1>2 DEF MemoryInv, BufferInv
  <2> QED
    BY <1>1, <1>2, <2>1, WalkFacts DEF ReadOnly
<1> QED
    BY <1>1, <1>2, WalkFacts DEF Repaired, Refilled

(* No fault is counted twice, and none comes but the ones that are needed. *)
LEMMA NextPfInv == MemoryInv /\ PfInv /\ [Next]_vars => PfInv'
<1> SUFFICES ASSUME MemoryInv, PfInv, [Next]_vars
             PROVE  PfInv'
    OBVIOUS
<1> USE SizesAssumption DEF bench, counts, setup, mmu, cpu, devices, history
<1>0. TypeInv /\ TypeOK
    BY DEF MemoryInv, TypeInv
<1>s. ReadOnly \subseteq Pages /\ Repaired \subseteq Pages /\ Refilled \subseteq Pages
    BY DEF ReadOnly, Repaired, Refilled
<1>1. CASE InitException \/ RegisterHandler
  <2>1. /\ ProgramRip \in Starting /\ ProgramRip' \in Starting /\ UNCHANGED g_pf_count
    BY <1>0, <1>1, ProgramControl DEF InitException, RegisterHandler, Program, Starting
  <2> QED
    BY <2>1 DEF PfInv, Starting, Written
<1>2. CASE CacheCr3
  <2>1. /\ ProgramRip = "cache_cr3" /\ ProgramRip' = "touch" /\ HandlerRip' = "none"
        /\ UNCHANGED <<g_pf_count, layout, pte>>
    BY <1>0, <1>2, ProgramControl DEF CacheCr3, Program
  <2>2. pte = layout.pte /\ g_pf_count = 0
    BY <2>1 DEF MemoryInv, BufferInv, PfInv, Starting
  <2>3. Repaired' = {}
    <3>1. \A p \in Pages : layout.upper[p] = "table" /\ Writable(p) => pte[p].flags = Flags
      BY <1>0, WalkFacts
    <3>2. \A p \in ReadOnly : ~(layout.upper[p] = "table" /\ Writable(p))
      BY <2>2, <3>1 DEF ReadOnly
    <3> QED
      BY <2>1, <3>2 DEF Repaired, ReadOnly, Writable, Walk
  <2> QED
    BY <2>1, <2>2, <2>3, FS_EmptySet DEF PfInv, Counting, Starting, Written
<1>3. CASE Touch
  <2>1. /\ ProgramRip = "touch" /\ HandlerRip = "none" /\ i \in Pages
        /\ UNCHANGED <<layout, pte, g_pf_count>>
    BY <1>3, StoreSteps DEF Touch
  <2>2. CASE UNCHANGED <<ProgramRip, i>> /\ HandlerRip' = "common"
    BY <2>1, <2>2, PfUntouched
  <2>3. CASE /\ Writable(i) /\ NextIteration("touch", "mprotect")
             /\ ProgramRip' = rip' /\ HandlerRip' = "none"
    <3>1. UNCHANGED <<ReadOnly, Repaired>> /\ Counting = 0 /\ Counting' = 0
      BY <2>1, <2>3 DEF ReadOnly, Repaired, Writable, Walk, Counting
    <3>2. g_pf_count = Cardinality(Repaired)
      BY <1>0, <1>s, <2>1, <2>3, <3>1, WalkFacts, PageSets DEF PfInv
    <3>3. CASE ProgramRip' = "touch"
      BY <1>s, <2>1, <3>1, <3>2, <3>3, PageSets DEF PfInv, Starting, Written
    <3>4. CASE ProgramRip' = "mprotect" /\ i + 1 = NPages
      <4>1. \A p \in Pages : Writable(p)
        BY <2>1, <2>3, <3>4 DEF MemoryInv, BufferInv, Pages
      <4>2. (\A p \in Pages : layout.upper[p] = "table") => Repaired = ReadOnly
        BY <1>s, <4>1 DEF Repaired
      <4> QED
        BY <2>1, <3>1, <3>2, <3>4, <4>2 DEF PfInv, Starting, Written
    <3> QED
      BY <2>1, <2>3, <3>3, <3>4 DEF NextIteration, Pages
  <2> QED
    BY <1>3, <2>1, <2>2, <2>3, StoreSteps DEF Touch
<1>4. CASE Write
  <2>1. /\ ProgramRip = "write" /\ HandlerRip = "none" /\ i \in Pages
        /\ UNCHANGED <<layout, pte, g_pf_count>>
    BY <1>4, StoreSteps DEF Write
  <2>2. CASE UNCHANGED <<ProgramRip, i>> /\ HandlerRip' = "common"
    BY <2>1, <2>2, PfUntouched
  <2>3. CASE /\ Writable(i) /\ NextIteration("write", "ud2")
             /\ ProgramRip' = rip' /\ HandlerRip' = "none"
    <3>1. UNCHANGED <<ReadOnly, Refilled>> /\ Counting = 0 /\ Counting' = 0
      BY <2>1, <2>3 DEF ReadOnly, Refilled, Writable, Walk, Counting
    <3>2. g_pf_count = Cardinality(ReadOnly) + Cardinality(Refilled)
      BY <1>s, <2>1, <3>1, PageSets DEF PfInv
    <3>3. CASE ProgramRip' = "write"
      BY <1>s, <2>1, <3>1, <3>2, <3>3, PageSets DEF PfInv, Starting, Written
    <3>4. CASE ProgramRip' = "ud2" /\ i + 1 = NPages
      <4>1. \A p \in Pages : Writable(p)
        BY <2>1, <2>3, <3>4 DEF MemoryInv, BufferInv, Pages
      <4>2. Cardinality(Refilled) = NPages
        BY <4>1, PageSets DEF Refilled
      <4> QED
        BY <2>1, <3>1, <3>2, <3>4, <4>2 DEF PfInv, Starting, Written
    <3> QED
      BY <2>1, <2>3, <3>3, <3>4 DEF NextIteration, Pages
  <2> QED
    BY <1>4, <2>1, <2>2, <2>3, StoreSteps DEF Write
<1>5. CASE ProtectPage \/ InvalidatePage
  <2>1. /\ ProgramRip \in {"mprotect", "invlpg"}
        /\ ProgramRip' \in {"mprotect", "invlpg", "read", "aborted"}
        /\ UNCHANGED <<layout, g_pf_count>>
    BY <1>0, <1>5, ProgramControl DEF ProtectPage, InvalidatePage, NextIteration, Program
  <2>2. UNCHANGED ReadOnly
    BY <2>1 DEF ReadOnly
  <2> QED
    BY <2>1, <2>2 DEF PfInv, Starting, Written
<1>6. CASE ReadBack
  <2>1. /\ ProgramRip = "read" /\ ProgramRip' = "write" /\ HandlerRip' = "none"
        /\ UNCHANGED <<layout, pte, g_pf_count>>
    BY <1>0, <1>6, ReadBackMemory, ProgramControl DEF ReadBack, Program
  <2>2. \A p \in Pages : Protected(p)
    BY <2>1 DEF MemoryInv, BufferInv
  <2>3. \A p \in Pages : layout.upper[p] = "table" /\ ~Writable(p)
    BY <1>0, <2>2, WalkFacts DEF Protected
  <2>4. Refilled' = {} /\ UNCHANGED ReadOnly
    BY <2>1, <2>3 DEF Refilled, ReadOnly, Writable, Walk
  <2> QED
    BY <1>s, <2>1, <2>3, <2>4, PageSets, FS_EmptySet DEF PfInv, Counting, Starting, Written
<1>7. CASE Ud2
  <2>1. /\ UNCHANGED <<ProgramRip, i, layout, pte, g_pf_count>>
        /\ HandlerRip = "none" /\ HandlerRip' = "common"
    BY <1>0, <1>7, TrapControl DEF Ud2, Program
  <2> QED
    BY <2>1, PfUntouched
<1>8. CASE Ud2Next \/ Ud2Done \/ Report
  <2>1. /\ ProgramRip \in Written /\ ProgramRip' \in Written
        /\ UNCHANGED <<layout, g_pf_count>>
    BY <1>0, <1>8, ProgramControl DEF Ud2Next, Ud2Done, Report, ReportIntr, ReportUd,
                                            ReportPf, Return, Program, Written
  <2> QED
    BY <2>1 DEF PfInv, ReadOnly, Starting, Written
<1>9. CASE HandleUd
  <2>1. /\ ProgramRip \in Written /\ ProgramRip' \in Written
        /\ UNCHANGED <<layout, g_pf_count>>
    BY <1>0, <1>9, UdControl DEF HandleUd, Written
  <2> QED
    BY <2>1 DEF PfInv, ReadOnly, Starting, Written
<1>10. CASE HandlePf
  <2>1. /\ HandlerRip = "switch" /\ HandlerRip' = "pf" /\ FirstVector = 14
        /\ UNCHANGED <<ProgramRip, i, layout, pte>> /\ g_pf_count' = Inc(g_pf_count)
    BY <1>0, <1>10, FirstControl DEF HandlePf, Handler
  <2>2. ProgramRip \in {"touch", "write"}
    BY <2>1 DEF MemoryInv, FaultInv
  <2>3. UNCHANGED <<ReadOnly, Repaired, Refilled>> /\ Counting = 0 /\ Counting' = 1
    BY <2>1 DEF ReadOnly, Repaired, Refilled, Writable, Walk, Counting
  <2>4. Cardinality(Repaired) < NPages /\ Cardinality(Refilled) < NPages
    BY <1>s, <2>1, <2>2, FaultAdds, PageSets
  <2>5. /\ Cardinality(ReadOnly) \in Nat /\ Cardinality(ReadOnly) <= NPages
        /\ Cardinality(Repaired) \in Nat /\ Cardinality(Refilled) \in Nat
    BY <1>s, PageSets
  <2>6. CASE ProgramRip = "touch" /\ layout.upper[i] # "absent"
    <3>1. g_pf_count = Cardinality(Repaired)
      BY <2>3, <2>5, <2>6 DEF PfInv
    <3>2. g_pf_count' = Cardinality(Repaired) + 1
      BY <2>1, <2>4, <2>5, <3>1 DEF Inc
    <3> QED
      BY <2>1, <2>3, <2>6, <3>2 DEF PfInv, Starting, Written
  <2>7. CASE ProgramRip = "touch" /\ layout.upper[i] = "absent"
    BY <2>1, <2>7 DEF PfInv, Starting, Written
  <2>8. CASE ProgramRip = "write"
    <3>1. g_pf_count = Cardinality(ReadOnly) + Cardinality(Refilled)
      BY <2>3, <2>5, <2>8 DEF PfInv
    <3>2. g_pf_count' = Cardinality(ReadOnly) + Cardinality(Refilled) + 1
      BY <2>1, <2>4, <2>5, <3>1 DEF Inc
    <3> QED
      BY <2>1, <2>3, <2>8, <3>2 DEF PfInv, Starting, Written
  <2> QED
    BY <2>2, <2>6, <2>7, <2>8
<1>11. CASE Unprotect
  <2>1. /\ FirstVector = 14 /\ HandlerRip = "pf" /\ i \in Pages /\ ~Writable(i)
        /\ HandlerRip' \in {"pf_invlpg", "iretq"} /\ UNCHANGED <<ProgramRip, i, layout>>
        /\ g_pf_count' = g_pf_count /\ ProgramRip \in {"touch", "write"}
    BY <1>11, UnprotectMemory DEF Unprotect, MemoryInv, FaultInv
  <2>2. Counting = 1 /\ Counting' = 0 /\ UNCHANGED ReadOnly
    BY <2>1 DEF Counting, ReadOnly
  <2>3. CASE layout.upper[i] = "absent" /\ ProgramRip = "touch"
    BY <2>1, <2>3 DEF PfInv, Starting, Written
  <2>4. CASE /\ layout.upper[i] = "table" /\ Writable(i)'
             /\ \A q \in Pages : q # i => Walk(q)' = Walk(q)
    <3>1. \A q \in Pages : Writable(q)' <=> (Writable(q) \/ q = i)
      <4>1. \A q \in Pages : q # i => (Writable(q)' <=> Writable(q))
        BY <2>4 DEF Writable
      <4>2. \A q \in Pages : q = i => Writable(q)'
        BY <2>1, <2>4 DEF Writable, Walk
      <4> QED
        BY <2>1, <4>1, <4>2
    <3>2. Refilled' = Refilled \union {i}
      BY <2>1, <3>1 DEF Refilled
    <3>3. CASE ProgramRip = "touch"
      <4>1. i \in ReadOnly /\ i \notin Repaired
        BY <2>1, <2>4, <3>3, FaultAdds
      <4>2. Repaired' = Repaired \union {i}
        BY <1>s, <2>1, <2>2, <2>4, <3>1, <4>1 DEF Repaired
      <4>3. Cardinality(Repaired') = Cardinality(Repaired) + 1
        BY <1>s, <2>1, <4>1, <4>2, PageAdded
      <4> QED
        BY <1>s, <2>1, <2>2, <2>4, <3>3, <4>3, PageSets DEF PfInv, Starting, Written
    <3>4. CASE ProgramRip = "write"
      <4>1. Cardinality(Refilled') = Cardinality(Refilled) + 1
        BY <1>s, <2>1, <3>2, PageAdded DEF Refilled
      <4> QED
        BY <1>s, <2>1, <2>2, <3>4, <4>1, PageSets DEF PfInv, Starting, Written
    <3> QED
      BY <2>1, <3>3, <3>4
  <2> QED
    BY <1>11, <2>3, <2>4, UnprotectMemory
<1>12. CASE \/ CommonHandler \/ HandleInterrupt \/ HandleUnexpected \/ InvalidateFaulting
            \/ Forward \/ Iretq \/ Environment \/ UNCHANGED vars
    BY <1>0, <1>12, QuietSteps, PfUntouched DEF progress
<1> QED
    BY <1>1, <1>2, <1>3, <1>4, <1>5, <1>6, <1>7, <1>8, <1>9, <1>10, <1>11, <1>12
       DEF Next, Execute, Ecall, Report, Trap, Terminating

(* The interrupt that is counted and not yet passed on. *)
Telling == IF HandlerRip = "vmmcall" THEN 1 ELSE 0

(* Interrupts are raised, then accepted; the count is that of the vmmcalls. *)
IntrInv ==
    /\ IsFiniteSet(pending)
    /\ Len(accepted) + Cardinality(pending) = raised
    /\ g_intr_count = Len(forwarded) + Telling

InterruptCountInv == MemoryInv /\ ForwardInv /\ IntrInv

(* No interrupt has been raised yet. *)
LEMMA InitInterruptCountInv == Init => InterruptCountInv
<1> SUFFICES ASSUME Init PROVE InterruptCountInv
    OBVIOUS
<1>1. HandlerRip = "none"
    BY DEF Init, HandlerRip
<1>2. IntrInv
    BY <1>1, FS_EmptySet DEF Init, IntrInv, Telling
<1> QED
    BY <1>2, InitMemoryInv, InitForwardInv DEF InterruptCountInv

(* Steps that do not take an interrupt up, count it or pass it on. *)
LEMMA InterruptUntouched ==
    ASSUME IntrInv, UNCHANGED <<pending, raised, accepted, forwarded, g_intr_count>>,
           HandlerRip = "vmmcall" <=> HandlerRip' = "vmmcall"
    PROVE  IntrInv'
    BY DEF IntrInv, Telling

(* An interrupt that is being handled is one of the accepted ones, which are no more
   than were raised. *)
LEMMA HandledIsRaised ==
    ASSUME InterruptCountInv, HandleInterrupt
    PROVE  /\ HandlerRip = "switch" /\ HandlerRip' = "vmmcall"
           /\ Len(forwarded) \in Nat /\ Len(forwarded) < raised
<1>0. TypeInv /\ TypeOK
    BY DEF InterruptCountInv, ForwardInv, TypeInv
<1>1. rip = "switch" /\ rip \in Handler /\ rip' = "vmmcall" /\ Top.vector >= 32 /\ UNCHANGED frames
    BY DEF HandleInterrupt, IsInterrupt, Handler, cpu
<1>2. Top.vector # 2
    BY <1>1
<1>3. /\ Len(frames) = 1 /\ Top = frames[1]
      /\ HandlerRip = "switch" /\ HandlerRip' = "vmmcall"
    BY <1>0, <1>1, <1>2, FirstControl
<1>4. InFlight = <<frames[1].vector>> /\ frames[1].vector \in Vectors
    BY <1>0, <1>1, <1>3, InterruptVector DEF InFlight, IsInterrupt
<1>5. /\ accepted = dropped \o forwarded \o <<frames[1].vector>>
      /\ dropped \in Seq(Vectors) /\ forwarded \in Seq(Vectors)
    BY <1>0, <1>4 DEF InterruptCountInv, ForwardInv, InterruptsForwarded, TypeOK
<1>6. Len(accepted) = Len(dropped) + Len(forwarded) + 1
    BY <1>4, <1>5
<1>7. Len(dropped) \in Nat /\ Len(forwarded) \in Nat
    BY <1>5
<1>8. Cardinality(pending) \in Nat /\ Len(accepted) + Cardinality(pending) = raised
    BY FS_CardinalityType DEF InterruptCountInv, IntrInv
<1> QED
    BY <1>3, <1>6, <1>7, <1>8

(* No interrupt is counted that is not passed on, while there are fewer of them than the
   counter can count. *)
LEMMA NextInterruptCountInv ==
    ASSUME MaxIntr < Modulus
    PROVE  InterruptCountInv /\ [Next]_vars => InterruptCountInv'
<1> SUFFICES ASSUME InterruptCountInv, [Next]_vars
             PROVE  IntrInv'
    BY NextMemoryInv, NextForwardInv DEF InterruptCountInv
<1> USE DEF bench, counts, setup, mmu, cpu, devices, history
<1>0. MemoryInv /\ TypeInv /\ TypeOK /\ IntrInv
    BY DEF InterruptCountInv, MemoryInv, TypeInv
<1>1. CASE \/ InitException \/ RegisterHandler \/ CacheCr3 \/ ProtectPage \/ InvalidatePage
           \/ Ud2Next \/ Ud2Done \/ Report
  <2>1. HandlerRip = "none" /\ HandlerRip' = "none"
    BY <1>0, <1>1, ProgramControl
       DEF InitException, RegisterHandler, CacheCr3, ProtectPage, InvalidatePage,
           Ud2Next, Ud2Done, Report, ReportIntr, ReportUd, ReportPf, Return, Program
  <2> QED
    BY <1>0, <1>1, <2>1, InterruptUntouched
       DEF InitException, RegisterHandler, CacheCr3, ProtectPage, InvalidatePage,
           Ud2Next, Ud2Done, Report, ReportIntr, ReportUd, ReportPf, Return
<1>2. CASE Touch \/ Write
  <2>1. HandlerRip = "none" /\ HandlerRip' \in {"none", "common"}
    BY <1>0, <1>2, StoreSteps DEF Touch, Write
  <2> QED
    BY <1>0, <1>2, <2>1, InterruptUntouched DEF Touch, Write, StorePage
<1>3. CASE ReadBack
  <2>1. HandlerRip = "none" /\ HandlerRip' = "none"
    BY <1>0, <1>3, ReadBackMemory, ProgramControl DEF ReadBack, Program
  <2> QED
    BY <1>0, <1>3, <2>1, InterruptUntouched DEF ReadBack
<1>4. CASE Ud2
  <2>1. HandlerRip = "none" /\ HandlerRip' = "common"
    BY <1>0, <1>4, TrapControl DEF Ud2, Program
  <2> QED
    BY <1>0, <1>4, <2>1, InterruptUntouched DEF Ud2
<1>5. CASE HandleUd
    BY <1>0, <1>5, UdControl, InterruptUntouched DEF HandleUd
<1>6. CASE CommonHandler \/ HandlePf \/ HandleUnexpected \/ Unprotect \/ InvalidateFaulting
  <2>1. /\ rip \in Handler \ {"vmmcall"} /\ rip' # "vmmcall"
        /\ UNCHANGED <<frames, pending, raised, accepted, forwarded, g_intr_count>>
    BY <1>6 DEF CommonHandler, HandlePf, HandleUnexpected, Unprotect, InvalidateFaulting, Handler
  <2>2. HandlerRip = "vmmcall" <=> HandlerRip' = "vmmcall"
    BY <1>0, <2>1, HandlerControl DEF control
  <2> QED
    BY <1>0, <2>1, <2>2, InterruptUntouched
<1>7. CASE HandleInterrupt
  <2>1. Len(forwarded) \in Nat /\ Len(forwarded) + 1 < Modulus
    BY <1>0, <1>7, HandledIsRaised, SizesAssumption DEF TypeOK
  <2>2. g_intr_count = Len(forwarded)
    BY <1>0, <1>7, <2>1, HandledIsRaised DEF IntrInv, Telling
  <2>3. g_intr_count' = Len(forwarded) + 1
    BY <1>7, <2>1, <2>2, SizesAssumption DEF HandleInterrupt, Inc
  <2>4. UNCHANGED <<pending, raised, accepted, forwarded>>
    BY <1>7 DEF HandleInterrupt
  <2> QED
    BY <1>0, <1>7, <2>3, <2>4, HandledIsRaised DEF IntrInv, Telling
<1>8. CASE Forward
  <2>1. /\ rip = "vmmcall" /\ rip \in Handler /\ rip' = "iretq"
        /\ UNCHANGED <<frames, pending, raised, accepted, g_intr_count>>
    BY <1>8 DEF Forward, Handler
  <2>2. /\ HandlerRip = "vmmcall" /\ HandlerRip' = "iretq"
    BY <1>0, <2>1, FirstControl
  <2>3. Top.vector \in Vectors /\ forwarded \in Seq(Vectors)
    <3>1. Len(frames) = 1 /\ frames[1].vector >= 32 /\ Top = frames[1]
      BY <1>0, <2>1, FirstControl DEF TypeInv, StackShape
    <3> QED
      BY <1>0, <3>1, InterruptVector DEF TypeOK, IsInterrupt
  <2>4. Len(forwarded') = Len(forwarded) + 1 /\ Len(forwarded) \in Nat
    BY <1>8, <2>3 DEF Forward
  <2> QED
    BY <1>0, <2>1, <2>2, <2>4 DEF IntrInv, Telling
<1>9. CASE Iretq
  <2>1. HandlerRip = "vmmcall" <=> HandlerRip' = "vmmcall"
    BY <1>0, <1>9, IretqControl DEF control
  <2> QED
    BY <1>0, <1>9, <2>1, InterruptUntouched DEF Iretq
<1>10. ASSUME NEW p \in Pages, TlbFill(p) \/ TlbEvict(p)
       PROVE  IntrInv'
  <2>1. /\ HandlerRip' = HandlerRip
        /\ UNCHANGED <<pending, raised, accepted, forwarded, g_intr_count>>
    BY <1>10 DEF TlbFill, TlbEvict, HandlerRip
  <2> QED
    BY <1>0, <2>1, InterruptUntouched
<1>11. ASSUME NEW v \in Vectors, RaiseInterrupt(v)
       PROVE  IntrInv'
  <2>1. /\ HandlerRip' = HandlerRip /\ UNCHANGED <<accepted, forwarded, g_intr_count>>
        /\ v \notin pending /\ pending' = pending \union {v} /\ raised' = raised + 1
    BY <1>11 DEF RaiseInterrupt, HandlerRip
  <2>2. /\ IsFiniteSet(pending') /\ Cardinality(pending') = Cardinality(pending) + 1
        /\ Cardinality(pending) \in Nat /\ Len(accepted) \in Nat
    <3>1. IsFiniteSet(pending) /\ Len(accepted) \in Nat
      BY <1>0 DEF IntrInv, TypeOK
    <3> QED
      BY ONLY <2>1, <3>1, FS_AddElement, FS_CardinalityType
  <2> QED
    BY <1>0, <2>1, <2>2 DEF IntrInv, Telling
<1>12. ASSUME NEW v \in Vectors, AcceptInterrupt(v)
       PROVE  IntrInv'
  <2>1. rip \in Program /\ Deliver(v)
    BY <1>0, <1>12 DEF AcceptInterrupt, TypeInv, StackShape, TypeOK, Locations
  <2>2. /\ HandlerRip = "none" /\ HandlerRip' = "common"
        /\ v \in pending /\ pending' = pending \ {v} /\ accepted' = Append(accepted, v)
        /\ UNCHANGED <<raised, forwarded, g_intr_count>>
    BY <1>0, <1>12, <2>1, TrapControl DEF AcceptInterrupt
  <2>3. /\ IsFiniteSet(pending') /\ Cardinality(pending') = Cardinality(pending) - 1
        /\ Cardinality(pending) \in Nat /\ Len(accepted) \in Nat
        /\ Len(accepted') = Len(accepted) + 1
    <3>1. IsFiniteSet(pending) /\ accepted \in Seq(Vectors)
      BY <1>0 DEF IntrInv, TypeOK
    <3>2. Len(accepted) \in Nat /\ Len(accepted') = Len(accepted) + 1
      BY ONLY <2>2, <3>1
    <3> QED
      BY ONLY <2>2, <3>1, <3>2, FS_RemoveElement, FS_CardinalityType
  <2> QED
    BY <1>0, <2>2, <2>3 DEF IntrInv, Telling
<1>13. CASE AcceptNmi
  <2>1. /\ rip \in Program \union Handler
        /\ UNCHANGED <<pending, raised, accepted, forwarded, g_intr_count>>
    BY <1>0, <1>13 DEF AcceptNmi, TypeOK, Locations
  <2>2. HandlerRip = "vmmcall" <=> HandlerRip' = "vmmcall"
    <3>1. CASE rip \in Program
      BY <1>0, <1>13, <3>1, TrapControl DEF AcceptNmi
    <3>2. CASE rip \in Handler
      BY <1>0, <1>13, <3>2, NmiControl DEF control
    <3> QED
      BY <2>1, <3>1, <3>2
  <2> QED
    BY <1>0, <2>1, <2>2, InterruptUntouched
<1>14. CASE UNCHANGED vars
    BY <1>0, <1>14, InterruptUntouched DEF vars, HandlerRip
<1> QED
    BY <1>1, <1>2, <1>3, <1>4, <1>5, <1>6, <1>7, <1>8, <1>9, <1>10, <1>11, <1>12, <1>13, <1>14
       DEF Next, Execute, Ecall, Report, Trap, Environment, Terminating

(* The frame of a running handler. *)
LEMMA TopFacts ==
    ASSUME TypeInv, rip \in Handler
    PROVE  /\ Top \in Frame /\ Top.rip \in Program \union Handler
           /\ Top.vector \in (32 .. 255) \union {2, 6, 14}
<1>1. Len(frames) > 0
  <2>1. Len(frames) = 1 \/ Len(frames) = 2
    BY StackFacts
  <2> QED
    BY <2>1
<1>2. Top \in Frame
    BY <1>1, StackFacts
<1> QED
    BY <1>2, VectorsAssumption DEF Frame

(* The page tables above the leaves do not change. *)
LEMMA LayoutConstant == [Next]_vars => UNCHANGED layout
<1> SUFFICES ASSUME [Next]_vars PROVE UNCHANGED layout
    OBVIOUS
<1>1. CASE Ecall
    BY <1>1 DEF Ecall, InitException, RegisterHandler, CacheCr3, Touch, Write, StorePage,
                ProtectPage, InvalidatePage, ReadBack, Ud2, Ud2Next, Ud2Done,
                ReportIntr, ReportUd, ReportPf, Return
<1>2. CASE Trap
    BY <1>2 DEF Trap, CommonHandler, HandleUd, HandlePf, HandleInterrupt, HandleUnexpected,
                Unprotect, InvalidateFaulting, Forward, Iretq
<1>3. CASE Environment
    BY <1>3 DEF Environment, TlbFill, TlbEvict, RaiseInterrupt, AcceptInterrupt, AcceptNmi
<1> QED
    BY <1>1, <1>2, <1>3 DEF Next, Execute, Terminating, vars

(* The benchmark ends by printing its counts, and is not touched after that. *)
LEMMA DoneIsReported ==
    ASSUME TypeInv, [Next]_vars, rip' = "done"
    PROVE  Return \/ UNCHANGED vars
<1>1. rip # "done" \/ UNCHANGED vars
    BY DEF Next, Execute, Ecall, Trap, Environment, Terminating, Stopped,
           InitException, RegisterHandler, CacheCr3, Touch, Write, StorePage, ProtectPage,
           InvalidatePage, ReadBack, Ud2, Ud2Next, Ud2Done, ReportIntr, ReportUd, ReportPf, Return,
           CommonHandler, HandleUd, HandlePf, HandleInterrupt, HandleUnexpected, Unprotect,
           InvalidateFaulting, Forward, Iretq, TlbFill, TlbEvict, RaiseInterrupt, AcceptInterrupt, AcceptNmi
<1>2. CASE Ecall
    BY <1>2 DEF Ecall, InitException, RegisterHandler, CacheCr3, Touch, Write, StorePage,
                ProtectPage, InvalidatePage, ReadBack, Ud2, Ud2Next, Ud2Done, ReportIntr, ReportUd,
                ReportPf, NextIteration, PageFault, Deliver
<1>3. CASE Iretq
  <2>1. rip' = Top.rip /\ rip \in Handler
    BY <1>3 DEF Iretq, Handler
  <2> QED
    BY <2>1, TopFacts DEF Program, Handler
<1>4. CASE Trap /\ ~Iretq
    BY <1>4 DEF Trap, CommonHandler, HandleUd, HandlePf, HandleInterrupt, HandleUnexpected,
                Unprotect, InvalidateFaulting, Forward
<1>5. CASE Environment
    BY <1>1, <1>5 DEF Environment, TlbFill, TlbEvict, RaiseInterrupt, AcceptInterrupt,
                      AcceptNmi, Deliver
<1> QED
    BY <1>2, <1>3, <1>4, <1>5 DEF Next, Execute, Terminating

(* At its end the program has no trap on the stack. *)
DoneInv == rip = "done" => Len(frames) = 0

(* The end of the program is reached with an empty stack. *)
LEMMA NextDoneInv == TypeInv /\ DoneInv /\ [Next]_vars => DoneInv'
<1> SUFFICES ASSUME TypeInv, DoneInv, [Next]_vars, rip' = "done"
             PROVE  Len(frames') = 0
    BY DEF DoneInv
<1>1. CASE Return
    BY <1>1, StackFacts DEF Return, Program, cpu
<1>2. CASE UNCHANGED vars
    BY <1>2 DEF vars, cpu, DoneInv
<1> QED
    BY <1>1, <1>2, DoneIsReported

(* What has been printed so far is what the work done amounts to: the number of ud2
   instructions and of faults does not change any more, that of the interrupts is the one
   of the moment. *)
PrintInv ==
    /\ ProgramRip \in {"report_ud", "report_pf", "return", "done"} =>
           out.intr = Len(printed)
    /\ ProgramRip \in {"report_pf", "return", "done"} => out.ud = nrepeats
    /\ ProgramRip \in {"return", "done"} => out.pf = NPages + Cardinality(ReadOnly)

CountInv == InterruptCountInv /\ UdInv /\ PfInv /\ PrintInv /\ DoneInv

(* All counts are zero at first. *)
LEMMA InitCountInv == Init => CountInv
<1> SUFFICES ASSUME Init PROVE CountInv
    OBVIOUS
<1>1. ProgramRip = "init_exception" /\ HandlerRip = "none" /\ FirstVector = 0
    BY DEF Init, ProgramRip, HandlerRip, FirstVector
<1>2. UdInv /\ PfInv /\ PrintInv /\ DoneInv
    BY <1>1 DEF Init, UdInv, PfInv, PrintInv, DoneInv, Untimed, Starting, Written, Reporting
<1> QED
    BY <1>2, InitInterruptCountInv DEF CountInv

(* A step of the enclave prints, or what is printed stays and the program does not come
   to the prints other than from before them. *)
LEMMA PrintsOrNot ==
    ASSUME MemoryInv, UdInv, [Next]_vars
    PROVE  \/ Report
           \/ /\ UNCHANGED bench
              /\ \/ UNCHANGED ProgramRip
                 \/ ProgramRip' \notin {"report_ud", "report_pf", "return", "done"}
<1> USE DEF setup, mmu, cpu, devices, history
<1>0. TypeInv /\ TypeOK
    BY DEF MemoryInv, TypeInv
<1> DEFINE Printing == {"report_ud", "report_pf", "return", "done"}
<1>1. CASE \/ InitException \/ RegisterHandler \/ CacheCr3 \/ ProtectPage \/ InvalidatePage
           \/ Ud2Next \/ Ud2Done
  <2>1. /\ rip \in Program /\ UNCHANGED frames /\ UNCHANGED bench
        /\ rip' \notin Printing
    BY <1>1 DEF InitException, RegisterHandler, CacheCr3, ProtectPage, InvalidatePage,
                NextIteration, Ud2Next, Ud2Done, Program
  <2> QED
    BY <1>0, <2>1, ProgramControl
<1>2. CASE Touch \/ Write
  <2>1. /\ ProgramRip \in {"touch", "write"} /\ UNCHANGED bench
        /\ \/ UNCHANGED ProgramRip
           \/ ProgramRip' \in {"mprotect", "ud2", "touch", "write"}
    BY <1>2, StoreSteps DEF Touch, Write, StorePage, NextIteration
  <2> QED
    BY <2>1
<1>3. CASE ReadBack
  <2>1. ProgramRip' = "write" /\ UNCHANGED bench
    BY <1>0, <1>3, ReadBackMemory, ProgramControl DEF ReadBack, Program
  <2> QED
    BY <2>1
<1>4. CASE Ud2
    BY <1>0, <1>4, TrapControl DEF Ud2, Program
<1>5. CASE HandleUd
  <2>1. ProgramRip' = "ud2_next" /\ UNCHANGED bench
    BY <1>0, <1>5, UdControl DEF HandleUd
  <2> QED
    BY <2>1
<1>6. CASE HandlePf
    BY <1>0, <1>6, FirstControl DEF HandlePf, Handler
<1>7. CASE Unprotect
    BY <1>0, <1>7, UnprotectMemory DEF Unprotect
<1>8. CASE \/ CommonHandler \/ HandleInterrupt \/ HandleUnexpected \/ InvalidateFaulting
           \/ Forward \/ Iretq \/ Environment \/ UNCHANGED vars
  <2>1. UNCHANGED bench
    BY <1>8 DEF CommonHandler, HandleInterrupt, HandleUnexpected, InvalidateFaulting,
                Forward, Iretq, Environment, TlbFill, TlbEvict, RaiseInterrupt,
                AcceptInterrupt, AcceptNmi, vars
  <2>2. UNCHANGED ProgramRip
    BY <1>0, <1>8, QuietSteps DEF progress
  <2> QED
    BY <2>1, <2>2
<1> QED
    BY <1>1, <1>2, <1>3, <1>4, <1>5, <1>6, <1>7, <1>8
       DEF Next, Execute, Ecall, Report, Trap, Terminating

(* The counts that are printed are those of the work done. *)
LEMMA NextCountInv ==
    ASSUME MaxIntr < Modulus
    PROVE  CountInv /\ [Next]_vars => CountInv'
<1> SUFFICES ASSUME CountInv, [Next]_vars
             PROVE  PrintInv'
    BY NextInterruptCountInv, NextUdInv, NextPfInv, NextDoneInv
       DEF CountInv, InterruptCountInv, MemoryInv
<1>0. MemoryInv /\ TypeInv /\ TypeOK /\ UdInv /\ PfInv /\ PrintInv
    BY DEF CountInv, InterruptCountInv, MemoryInv, TypeInv
<1>r. UNCHANGED ReadOnly
    BY LayoutConstant DEF ReadOnly
<1>1. ASSUME Report, rip \in Reporting
      PROVE  PrintInv'
  <2>1. /\ ProgramRip = rip /\ ProgramRip' = rip' /\ HandlerRip = "none"
        /\ UNCHANGED nrepeats
    BY <1>0, <1>1, ProgramControl
       DEF Report, ReportIntr, ReportUd, ReportPf, Return, Program, Reporting, cpu, bench
  <2>2. /\ g_ud_count = nrepeats
        /\ g_pf_count = Cardinality(ReadOnly) + NPages
        /\ g_intr_count = Len(forwarded) + 0
    BY <1>0, <1>1, <2>1
       DEF CountInv, InterruptCountInv, UdInv, PfInv, IntrInv, Telling, Written, Reporting
  <2>3. Len(forwarded) \in Nat /\ Cardinality(ReadOnly) \in Nat
    BY <1>0, PageSets DEF ReadOnly, TypeOK
  <2>4. CASE ReportIntr
    BY <1>0, <2>1, <2>2, <2>3, <2>4 DEF ReportIntr, PrintInv, TypeOK
  <2>5. CASE ReportUd
    BY <1>0, <2>1, <2>2, <2>3, <2>5 DEF ReportUd, PrintInv, TypeOK
  <2>6. CASE ReportPf
    BY <1>0, <1>r, <2>1, <2>2, <2>3, <2>6, SizesAssumption DEF ReportPf, PrintInv, TypeOK
  <2>7. CASE Return
    BY <1>0, <1>r, <2>1, <2>7 DEF Return, PrintInv, bench
  <2> QED
    BY <1>1, <2>4, <2>5, <2>6, <2>7 DEF Report
<1>2. Report => rip \in Reporting
    BY DEF Report, ReportIntr, ReportUd, ReportPf, Return, Reporting
<1>3. CASE UNCHANGED bench /\ UNCHANGED ProgramRip
    BY <1>0, <1>r, <1>3 DEF PrintInv, bench
<1>4. CASE ProgramRip' \notin {"report_ud", "report_pf", "return", "done"}
    BY <1>4 DEF PrintInv
<1> QED
    BY <1>0, <1>1, <1>2, <1>3, <1>4, PrintsOrNot

(* What is printed stays until the end. *)
LEMMA CountsAreExact == CountInv => ReportExact
<1> SUFFICES ASSUME CountInv, rip = "done"
             PROVE  ProgramRip = "done"
    BY DEF CountInv, PrintInv, ReportExact
<1> QED
    BY DEF CountInv, DoneInv, ProgramRip

(* The counts printed are exact for every buffer, every nrepeats and every page table
   of the enclave, whatever interrupts and NMIs come in between, as long as fewer
   interrupts come than an int can count. *)
THEOREM ReportIsExact ==
    ASSUME MaxIntr < Modulus
    PROVE  Spec => []ReportExact
<1>1. CountInv => ReportExact
    BY CountsAreExact
<1>2. CountInv /\ [Next]_vars => CountInv'
    BY NextCountInv
<1> QED
    BY <1>1, <1>2, InitCountInv, PTL DEF Spec

(* Without an NMI no frame is an NMI's, and on a well-mapped buffer nothing aborts. *)
AbortInv ==
    /\ nmis = 0 => Len(frames) # 2 /\ FirstVector # 2
    /\ NoSpuriousAbort

(* Only an NMI makes the handler abort. *)
LEMMA NextAbortInv == MemoryInv /\ AbortInv /\ [Next]_vars => AbortInv'
<1> SUFFICES ASSUME MemoryInv, AbortInv, [Next]_vars
             PROVE  AbortInv'
    OBVIOUS
<1>w. WellMapped' => WellMapped
    BY LayoutConstant DEF WellMapped
<1> SUFFICES ASSUME nmis' = 0
             PROVE  /\ Len(frames') # 2 /\ FirstVector' # 2
                    /\ WellMapped => rip' # "aborted"
    BY <1>w DEF AbortInv, NoSpuriousAbort
<1> USE SizesAssumption DEF bench, counts, setup, mmu, cpu, devices, history
<1>0. TypeInv /\ TypeOK /\ nmis \in Nat
    BY DEF MemoryInv, TypeInv, TypeOK
<1>1. CASE \/ InitException \/ RegisterHandler \/ CacheCr3 \/ InvalidatePage
           \/ Ud2Next \/ Ud2Done \/ Report
  <2>1. rip \in Program /\ UNCHANGED frames /\ rip' # "aborted"
    BY <1>1 DEF InitException, RegisterHandler, CacheCr3, InvalidatePage, NextIteration,
                Ud2Next, Ud2Done, Report, ReportIntr, ReportUd, ReportPf, Return, Program
  <2> QED
    BY <1>0, <2>1, ProgramControl, StackFacts
<1>2. ASSUME NEW vec \in Vectors \union {6, 14}, Deliver(vec), rip \in Program
      PROVE  Len(frames') # 2 /\ FirstVector' # 2 /\ rip' # "aborted"
  <2>1. vec # 2
    BY <1>2, VectorsAssumption
  <2>2. Len(frames) <= 1 /\ Len(frames) + 1 = 1
    BY <1>0, <1>2, StackFacts
  <2>3. Len(frames') = 1
    BY <1>0, <1>2, <2>2, DeliverFacts
  <2>4. FirstVector' = vec /\ rip' = "common"
    BY <1>0, <1>2, TrapControl DEF Deliver
  <2> QED
    BY <2>1, <2>3, <2>4
<1>3. ASSUME NEW loop, NEW after, StorePage(loop, after),
             <<loop, after>> \in {<<"touch", "mprotect">>, <<"write", "ud2">>}
      PROVE  Len(frames') # 2 /\ FirstVector' # 2 /\ rip' # "aborted"
  <2>1. rip \in Program
    BY <1>3 DEF StorePage, Program
  <2>2. CASE NextIteration(loop, after) /\ UNCHANGED <<cr2, cpu>>
    BY <1>0, <1>3, <2>1, <2>2, ProgramControl, StackFacts DEF NextIteration
  <2>3. CASE PageFault(i)
    BY <1>2, <2>1, <2>3 DEF PageFault
  <2> QED
    BY <1>3, <2>2, <2>3 DEF StorePage
<1>4. CASE Touch \/ Write
    BY <1>3, <1>4 DEF Touch, Write
<1>5. CASE ProtectPage
  <2>1. rip \in Program /\ UNCHANGED frames /\ rip = "mprotect"
    BY <1>5 DEF ProtectPage, Program
  <2>2. Len(frames') # 2 /\ FirstVector' # 2
    BY <1>0, <2>1, ProgramControl, StackFacts
  <2>3. rip' = "aborted" => layout.upper[i] = "large" /\ i \in Pages
    BY <1>0, <1>5, <2>1, ProgramControl
       DEF ProtectPage, NextIteration, Lookup, TypeInv, LoopPosition
  <2> QED
    BY <2>2, <2>3 DEF WellMapped
<1>6. CASE ReadBack
  <2>1. rip \in Program /\ UNCHANGED frames /\ rip' = "write"
    BY <1>6, ReadBackMemory DEF ReadBack, Program
  <2> QED
    BY <1>0, <2>1, ProgramControl, StackFacts
<1>7. CASE Ud2
    BY <1>2, <1>7 DEF Ud2, Program
<1>8. CASE \/ CommonHandler \/ HandlePf \/ HandleInterrupt \/ InvalidateFaulting \/ Forward
  <2>1. rip \in Handler /\ UNCHANGED frames /\ rip' # "aborted" /\ UNCHANGED nmis
    BY <1>8 DEF CommonHandler, HandlePf, HandleInterrupt, InvalidateFaulting, Forward, Handler
  <2> QED
    BY <2>1 DEF AbortInv, FirstVector
<1>9. CASE HandleUnexpected
  <2>1. rip \in Handler /\ UNCHANGED frames /\ UNCHANGED nmis
    BY <1>9 DEF HandleUnexpected, Handler
  <2>2. Top.vector = 2
    <3>1. Top.vector \in (32 .. 255) \union {2, 6, 14}
      BY <1>0, <2>1, TopFacts
    <3> QED
      BY <1>9, <3>1 DEF HandleUnexpected
  <2>3. Len(frames) = 1 \/ Len(frames) = 2
    BY <1>0, <2>1, StackFacts
  <2> QED
    BY <2>1, <2>2, <2>3 DEF AbortInv, FirstVector, Top
<1>10. CASE HandleUd
  <2>1. rip \in Handler /\ rip' = "iretq" /\ Top.vector # 2 /\ UNCHANGED nmis
    BY <1>10 DEF HandleUd, Handler
  <2>2. Len(frames) = 1 /\ frames \in Seq(Frame)
    BY <1>0, <2>1, TrapsAreFirst, StackFacts
  <2>3. Len(frames') = 1
    BY <1>10, <2>2, ExceptSeq DEF HandleUd
  <2> QED
    BY <1>0, <1>10, <2>1, <2>3, UdControl
<1>11. CASE Unprotect
  <2>1. UNCHANGED frames /\ UNCHANGED nmis /\ rip' # "aborted"
    BY <1>11, UnprotectMemory DEF Unprotect
  <2> QED
    BY <2>1 DEF AbortInv, FirstVector
<1>12. CASE Iretq
  <2>1. rip \in Handler /\ rip' = Top.rip /\ UNCHANGED nmis
    BY <1>12 DEF Iretq, Handler
  <2>2. Len(frames) = 1
    BY <1>0, <2>1, StackFacts DEF AbortInv
  <2>3. Len(frames') = 0
    BY <1>0, <1>12, <2>1, <2>2, StackFacts, PopFrame DEF Iretq
  <2> QED
    BY <1>0, <2>1, <2>3, TopFacts DEF FirstVector, Program, Handler
<1>13. ASSUME NEW p \in Pages, TlbFill(p) \/ TlbEvict(p)
       PROVE  Len(frames') # 2 /\ FirstVector' # 2 /\ rip' # "aborted"
    BY <1>13 DEF TlbFill, TlbEvict, AbortInv, FirstVector, Stopped
<1>14. ASSUME NEW v \in Vectors, RaiseInterrupt(v)
       PROVE  Len(frames') # 2 /\ FirstVector' # 2 /\ rip' # "aborted"
    BY <1>14 DEF RaiseInterrupt, AbortInv, FirstVector, Stopped
<1>15. ASSUME NEW v \in Vectors, AcceptInterrupt(v)
       PROVE  Len(frames') # 2 /\ FirstVector' # 2 /\ rip' # "aborted"
  <2>1. rip \in Program
    BY <1>0, <1>15 DEF AcceptInterrupt, TypeInv, StackShape, TypeOK, Locations
  <2> QED
    BY <1>2, <1>15, <2>1 DEF AcceptInterrupt
<1>16. ~AcceptNmi
    BY <1>0 DEF AcceptNmi
<1>17. CASE UNCHANGED vars
    BY <1>17 DEF vars, AbortInv, NoSpuriousAbort, FirstVector
<1> QED
    BY <1>1, <1>4, <1>5, <1>6, <1>7, <1>8, <1>9, <1>10, <1>11, <1>12, <1>13, <1>14, <1>15,
       <1>16, <1>17
       DEF Next, Execute, Ecall, Report, Trap, Environment, Terminating

(* On page tables where every page of the buffer is mapped and writable, only an NMI ends
   the benchmark: the checks of exception_handler and next_table are never the ones that
   abort. *)
THEOREM NoAbortIsSpurious == Spec => []NoSpuriousAbort
<1>1. Init => AbortInv
    BY DEF Init, AbortInv, NoSpuriousAbort, FirstVector
<1>2. AbortInv => NoSpuriousAbort
    BY DEF AbortInv
<1> QED
    BY <1>1, <1>2, InitMemoryInv, NextMemoryInv, NextAbortInv, PTL DEF Spec

-----------------------------------------------------------------------------
(* The abstract benchmark. *)

abstract == <<nrepeats, Unmapped, Phase, Iterations, Unwritable, Faults, g_ud_count>>

(* A step that the abstract benchmark does not see. *)
LEMMA Invisible ==
    ASSUME TypeInv, UNCHANGED progress, HandlerRip = "pf" <=> HandlerRip' = "pf",
           \/ rip \notin Stopped /\ rip' \notin Stopped
           \/ UNCHANGED rip
    PROVE  UNCHANGED abstract
<1> USE DEF progress
<1>1. UNCHANGED <<Unmapped, Unwritable>>
    BY DEF Unmapped, Unwritable, Walk
<1>2. UNCHANGED <<Iterations, Faults>>
    BY DEF Iterations, Faults
<1>3. UNCHANGED Phase
    BY DEF Phase
<1> QED
    BY <1>1, <1>2, <1>3 DEF abstract

(* The enclave's variables give the abstract ones that do not depend on the traps, when
   the program itself runs. *)
LEMMA ProgramImage ==
    ASSUME TypeInv, rip \in Program, UNCHANGED frames
    PROVE  /\ Iterations = IF rip = "ud2_next" THEN i + 1 ELSE i
           /\ Iterations' = IF rip' = "ud2_next" THEN i' + 1 ELSE i'
           /\ Faults = g_pf_count /\ Faults' = g_pf_count'
           /\ Phase = IF rip \in Starting THEN "setup"
                      ELSE IF rip \in {"mprotect", "invlpg"} THEN "protect"
                      ELSE IF rip \in Reporting THEN "report"
                      ELSE IF rip = "ud2_next" THEN "ud2" ELSE rip
           /\ rip' \in Program => 
                  Phase' = IF rip' \in Starting THEN "setup"
                           ELSE IF rip' \in {"mprotect", "invlpg"} THEN "protect"
                           ELSE IF rip' \in Reporting THEN "report"
                           ELSE IF rip' = "ud2_next" THEN "ud2" ELSE rip'
           /\ rip' \in Stopped => Phase' = rip'
<1>1. /\ ProgramRip = rip /\ ProgramRip' = rip'
      /\ HandlerRip = "none" /\ HandlerRip' = "none"
    BY ProgramControl
<1> QED
    BY <1>1 DEF Iterations, Faults, Phase, Program, Stopped, Starting, Reporting

BenchInv == MemoryInv /\ UdInv /\ PfInv

(* A page the program is at, and the sets of the abstract benchmark. *)
LEMMA PageImage ==
    ASSUME TypeOK, NEW p \in Pages
    PROVE  /\ p \in Unwritable <=> ~Writable(p)
           /\ p \in Unmapped <=> layout.upper[p] = "absent"
           /\ Unwritable \subseteq Pages /\ Unmapped \subseteq Pages
    BY DEF Unwritable, Unmapped, Writable

(* A store that is done is one of the abstract benchmark, one that faults is not seen. *)
LEMMA StoreImage ==
    ASSUME BenchInv, NEW loop, NEW after, StorePage(loop, after),
           <<loop, after>> \in {<<"touch", "mprotect">>, <<"write", "ud2">>}
    PROVE  \/ Abstract!Store(loop, IF loop = "touch" THEN "protect" ELSE "ud2")
           \/ UNCHANGED abstract
<1>0. TypeInv /\ TypeOK /\ MemoryInv
    BY DEF BenchInv, MemoryInv, TypeInv
<1>1. /\ rip = loop /\ ProgramRip = loop /\ HandlerRip = "none" /\ i \in Pages
      /\ UNCHANGED <<nrepeats, layout, pte, g_pf_count, g_ud_count>>
    BY <1>0, StoreSteps
<1>2. UNCHANGED <<Unmapped, Unwritable>>
    BY <1>1 DEF Unmapped, Unwritable, Walk
<1>3. CASE /\ Writable(i) /\ NextIteration(loop, after)
           /\ ProgramRip' = rip' /\ HandlerRip' = "none"
  <2>1. Phase = loop /\ Iterations = i /\ i \notin Unwritable
    BY <1>0, <1>1, <1>3, PageImage DEF Phase, Iterations, Stopped
  <2>2. Faults' = Faults
    BY <1>1, <1>3 DEF Faults
  <2>3. /\ Iterations' = IF i + 1 < NPages THEN i + 1 ELSE 0
        /\ Phase' = IF i + 1 < NPages THEN loop
                    ELSE IF loop = "touch" THEN "protect" ELSE "ud2"
    BY <1>1, <1>3 DEF Phase, Iterations, NextIteration, Stopped
  <2> QED
    BY <1>1, <1>2, <2>1, <2>2, <2>3 DEF Abstract!Store, Abstract!Advance
<1>4. CASE /\ ~Writable(i) /\ UNCHANGED <<ProgramRip, i>> /\ HandlerRip' = "common"
  <2>1. rip' \notin Stopped
    <3>1. "W" \notin Permissions(i)
      BY <1>1, <1>4, <1>0, WalkFlags DEF MemoryInv, TlbExact, Permissions, Writable
    <3> QED
      BY <3>1 DEF StorePage, PageFault, Deliver, Stopped
  <2> QED
    BY <1>0, <1>1, <1>4, <2>1, Invisible DEF progress, Stopped
<1> QED
    BY <1>0, <1>3, <1>4, StoreSteps

(* Every step of the enclave is one of the abstract benchmark, or not seen in it. *)
LEMMA NextImage ==
    BenchInv /\ [Next]_vars => [Abstract!Next]_(Abstract!vars)
<1> SUFFICES ASSUME BenchInv, [Next]_vars
             PROVE  Abstract!Next \/ UNCHANGED abstract
    BY DEF abstract, Abstract!vars
<1> USE SizesAssumption DEF bench, counts, setup, mmu, cpu, devices, history
<1>0. TypeInv /\ TypeOK /\ MemoryInv
    BY DEF BenchInv, MemoryInv, TypeInv
<1>1. CASE InitException \/ RegisterHandler \/ CacheCr3
  <2>1. /\ rip \in Starting /\ rip \in Program /\ UNCHANGED frames
        /\ rip' \in Program /\ rip' # "ud2_next"
        /\ rip' \notin {"mprotect", "invlpg"} \union Reporting
        /\ UNCHANGED <<nrepeats, i, layout, pte, g_pf_count, g_ud_count>>
    BY <1>1 DEF InitException, RegisterHandler, CacheCr3, Program, Starting, Reporting
  <2>2. /\ Iterations' = Iterations /\ Faults' = Faults /\ Phase = "setup"
        /\ Phase' = IF rip' \in Starting THEN "setup" ELSE rip'
    BY <1>0, <2>1, ProgramImage DEF Starting, Reporting
  <2>3. UNCHANGED <<Unmapped, Unwritable>>
    BY <2>1 DEF Unmapped, Unwritable, Walk
  <2>4. CASE rip' \in Starting
    BY <2>1, <2>2, <2>3, <2>4 DEF abstract
  <2>5. CASE rip' = "touch"
    BY <2>1, <2>2, <2>3, <2>5 DEF Abstract!Next, Abstract!Start, Starting
  <2> QED
    BY <1>1, <2>4, <2>5 DEF InitException, RegisterHandler, CacheCr3, Starting
<1>2. CASE Touch
    BY <1>2, StoreImage DEF Touch, Abstract!Next
<1>3. CASE Write
    BY <1>3, StoreImage DEF Write, Abstract!Next
<1>4. CASE ProtectPage
  <2>1. /\ rip = "mprotect" /\ rip \in Program /\ UNCHANGED frames
        /\ UNCHANGED <<nrepeats, layout, g_pf_count, g_ud_count>>
    BY <1>4 DEF ProtectPage, Program
  <2>2. i \in Pages /\ Writable(i) /\ i \notin Unwritable
    BY <1>0, <1>4, ProtectMemory, PageImage
  <2>3. UNCHANGED Unmapped
    BY <2>1 DEF Unmapped
  <2>4. CASE /\ rip' = "invlpg" /\ UNCHANGED i /\ ~Writable(i)'
             /\ \A q \in Pages : q # i => Walk(q)' = Walk(q)
    <3>1. Unwritable' = Unwritable \union {i}
      <4>1. i \in Unwritable'
        BY <2>2, <2>4 DEF Unwritable, Writable, Walk
      <4>2. \A q \in Pages : q # i => (q \in Unwritable' <=> q \in Unwritable)
        BY <2>4 DEF Unwritable
      <4>3. Unwritable \subseteq Pages /\ Unwritable' \subseteq Pages
        BY DEF Unwritable
      <4> QED
        BY <2>2, <4>1, <4>2, <4>3
    <3>2. /\ Phase = "protect" /\ Phase' = "protect" /\ Iterations = i /\ Iterations' = i
          /\ Faults' = Faults
      BY <1>0, <2>1, <2>4, ProgramImage DEF Program, Starting, Reporting
    <3> QED
      BY <2>1, <2>2, <2>3, <3>1, <3>2 DEF Abstract!Next, Abstract!Protect
  <2>5. CASE rip' = "aborted" /\ UNCHANGED <<i, pte>>
    <3>1. UNCHANGED Unwritable
      BY <2>1, <2>5 DEF Unwritable, Walk
    <3>2. /\ Phase = "protect" /\ Phase' = "aborted" /\ Iterations' = Iterations
          /\ Faults' = Faults
      BY <1>0, <2>1, <2>5, ProgramImage DEF Program, Starting, Stopped
    <3> QED
      BY <2>1, <2>3, <3>1, <3>2 DEF Abstract!Next, Abstract!Abort
  <2> QED
    BY <1>0, <1>4, <2>4, <2>5, ProtectMemory
<1>5. CASE InvalidatePage
  <2>1. /\ rip = "invlpg" /\ rip \in Program /\ UNCHANGED frames
        /\ NextIteration("mprotect", "read")
        /\ UNCHANGED <<nrepeats, layout, pte, g_pf_count, g_ud_count>>
    BY <1>5 DEF InvalidatePage, Program
  <2>2. i \in Pages /\ Protected(i)
    BY <1>0, <2>1, ProgramControl DEF TypeInv, LoopPosition, MemoryInv, BufferInv, Pages
  <2>3. i \in Unwritable
    BY <1>0, <2>2, WalkFacts, PageImage
  <2>4. UNCHANGED <<Unmapped, Unwritable>>
    BY <2>1 DEF Unmapped, Unwritable, Walk
  <2>5. /\ Phase = "protect" /\ Iterations = i /\ Faults' = Faults
        /\ Iterations' = i' /\ Phase' = IF i + 1 < NPages THEN "protect" ELSE "read"
    BY <1>0, <2>1, ProgramImage DEF NextIteration, Program, Starting, Reporting
  <2> QED
    BY <2>1, <2>3, <2>4, <2>5
       DEF NextIteration, Abstract!Next, Abstract!Protected, Abstract!Advance
<1>6. CASE ReadBack
  <2>1. /\ rip = "read" /\ rip \in Program /\ UNCHANGED frames /\ rip' = "write"
        /\ UNCHANGED <<i, nrepeats, layout, pte, g_pf_count, g_ud_count>>
    BY <1>0, <1>6, ReadBackMemory DEF ReadBack, Program
  <2>2. UNCHANGED <<Unmapped, Unwritable>>
    BY <2>1 DEF Unmapped, Unwritable, Walk
  <2>3. Phase = "read" /\ Phase' = "write" /\ Iterations' = Iterations /\ Faults' = Faults
    BY <1>0, <2>1, ProgramImage DEF Program, Starting, Reporting
  <2> QED
    BY <2>1, <2>2, <2>3 DEF Abstract!Next, Abstract!Read
<1>7. CASE Ud2
  <2>1. UNCHANGED progress /\ HandlerRip = "none" /\ HandlerRip' = "common"
    BY <1>0, <1>7, TrapControl DEF Ud2, Program, progress
  <2>2. rip \notin Stopped /\ rip' \notin Stopped
    BY <1>7 DEF Ud2, Deliver, Stopped
  <2> QED
    BY <1>0, <2>1, <2>2, Invisible
<1>8. CASE Ud2Next
  <2>1. /\ rip = "ud2_next" /\ rip' = "ud2" /\ i' = i + 1 /\ UNCHANGED frames
        /\ rip \in Program /\ rip' \in Program
        /\ UNCHANGED <<nrepeats, layout, pte, g_pf_count, g_ud_count>>
    BY <1>8 DEF Ud2Next, Program
  <2>2. Phase' = Phase /\ Iterations' = Iterations /\ Faults' = Faults
    BY <1>0, <2>1, ProgramImage DEF Starting, Reporting
  <2>3. UNCHANGED <<Unmapped, Unwritable>>
    BY <2>1 DEF Unmapped, Unwritable, Walk
  <2> QED
    BY <2>1, <2>2, <2>3 DEF abstract
<1>9. CASE Ud2Done
  <2>1. /\ rip = "ud2" /\ rip' = "report_intr" /\ i = nrepeats /\ UNCHANGED frames
        /\ rip \in Program /\ rip' \in Program
        /\ UNCHANGED <<i, nrepeats, layout, pte, g_pf_count, g_ud_count>>
    BY <1>9 DEF Ud2Done, Program
  <2>2. /\ Phase = "ud2" /\ Phase' = "report" /\ Iterations = nrepeats
        /\ Iterations' = Iterations /\ Faults' = Faults
    BY <1>0, <2>1, ProgramImage DEF Starting, Reporting
  <2>3. UNCHANGED <<Unmapped, Unwritable>>
    BY <2>1 DEF Unmapped, Unwritable, Walk
  <2> QED
    BY <2>1, <2>2, <2>3 DEF Abstract!Next, Abstract!Trapped
<1>10. CASE ReportIntr \/ ReportUd \/ ReportPf
  <2>1. /\ rip \in Reporting /\ rip' \in Reporting /\ UNCHANGED frames
        /\ rip \in Program /\ rip' \in Program
        /\ UNCHANGED <<i, nrepeats, layout, pte, g_pf_count, g_ud_count>>
    BY <1>10 DEF ReportIntr, ReportUd, ReportPf, Reporting, Program
  <2>2. Phase' = Phase /\ Iterations' = Iterations /\ Faults' = Faults
    BY <1>0, <2>1, ProgramImage DEF Starting, Reporting
  <2>3. UNCHANGED <<Unmapped, Unwritable>>
    BY <2>1 DEF Unmapped, Unwritable, Walk
  <2> QED
    BY <2>1, <2>2, <2>3 DEF abstract
<1>10b. CASE Return
  <2>1. /\ rip = "return" /\ rip' = "done" /\ UNCHANGED frames
        /\ rip \in Program /\ rip' \in Stopped
        /\ UNCHANGED <<i, nrepeats, layout, pte, g_pf_count, g_ud_count>>
    BY <1>10b DEF Return, Program, Stopped
  <2>2. /\ Phase = "report" /\ Phase' = "done" /\ Iterations' = Iterations
        /\ Faults' = Faults
    BY <1>0, <2>1, ProgramImage DEF Starting, Reporting
  <2>3. UNCHANGED <<Unmapped, Unwritable>>
    BY <2>1 DEF Unmapped, Unwritable, Walk
  <2> QED
    BY <2>1, <2>2, <2>3 DEF Abstract!Next, Abstract!Report
<1>11. CASE HandleUd
  <2>1. /\ HandlerRip = "switch" /\ HandlerRip' = "iretq" /\ FirstVector = 6
        /\ ProgramRip = "ud2" /\ ProgramRip' = "ud2_next"
    BY <1>0, <1>11, UdControl DEF BenchInv, UdInv
  <2>2. /\ g_ud_count = i /\ i < nrepeats /\ g_ud_count' = Inc(g_ud_count)
        /\ rip = "switch" /\ rip' = "iretq"
        /\ UNCHANGED <<i, nrepeats, layout, pte, g_pf_count>>
    BY <1>0, <1>11, <2>1 DEF BenchInv, UdInv, HandleUd, TypeInv, LoopPosition, FirstVector
  <2>3. g_ud_count' = g_ud_count + 1
    BY <1>0, <2>2 DEF TypeOK, Inc
  <2>4. UNCHANGED <<Unmapped, Unwritable>>
    BY <2>2 DEF Unmapped, Unwritable, Walk
  <2>5. /\ Phase = "ud2" /\ Phase' = "ud2" /\ Iterations = i /\ Iterations' = i + 1
        /\ Faults' = Faults
    BY <2>1, <2>2 DEF Phase, Iterations, Faults, Stopped
  <2> QED
    BY <2>2, <2>3, <2>4, <2>5 DEF Abstract!Next, Abstract!Trap
<1>12. CASE HandlePf
  <2>1. /\ HandlerRip = "switch" /\ HandlerRip' = "pf"
        /\ UNCHANGED <<ProgramRip, i, nrepeats, layout, pte, g_ud_count>>
        /\ g_pf_count' = Inc(g_pf_count) /\ rip \notin Stopped /\ rip' \notin Stopped
    BY <1>0, <1>12, FirstControl DEF HandlePf, Handler, Stopped
  <2>2. Faults' = Faults
    BY <1>0, <2>1 DEF Faults, Inc, Dec, TypeOK
  <2>3. UNCHANGED <<Unmapped, Unwritable, Phase, Iterations>>
    BY <2>1 DEF Unmapped, Unwritable, Walk, Phase, Iterations
  <2> QED
    BY <2>1, <2>2, <2>3 DEF abstract
<1>13. CASE HandleUnexpected
  <2>1. /\ rip \in Handler /\ rip' = "aborted" /\ UNCHANGED frames /\ rip = "switch"
        /\ UNCHANGED <<i, nrepeats, layout, pte, g_pf_count, g_ud_count>>
    BY <1>13 DEF HandleUnexpected, Handler
  <2>2. UNCHANGED progress /\ (HandlerRip = "pf" <=> HandlerRip' = "pf")
    BY <1>0, <1>13, QuietSteps
  <2>3. UNCHANGED <<Unmapped, Unwritable, Iterations, Faults>>
    BY <2>2 DEF Unmapped, Unwritable, Walk, Iterations, Faults, progress
  <2>4. Phase # "done" /\ Phase' = "aborted"
    <3>1. ProgramRip # "done"
      BY <1>0, <2>1, StackFacts DEF ProgramRip, TypeInv, StackShape, Program
    <3> QED
      BY <2>1, <3>1 DEF Phase, Stopped
  <2> QED
    BY <2>1, <2>3, <2>4 DEF Abstract!Next, Abstract!Abort
<1>14. CASE Unprotect
  <2>1. /\ FirstVector = 14 /\ HandlerRip = "pf" /\ i \in Pages /\ ~Writable(i)
        /\ HandlerRip' \in {"pf_invlpg", "iretq"} /\ UNCHANGED <<ProgramRip, i, layout>>
        /\ UNCHANGED <<nrepeats, g_pf_count, g_ud_count>>
        /\ ProgramRip \in {"touch", "write"}
        /\ rip \notin Stopped /\ rip' \notin Stopped
    BY <1>0, <1>14, UnprotectMemory DEF Unprotect, MemoryInv, FaultInv, Stopped
  <2>2. /\ UNCHANGED <<Unmapped, Phase, Iterations>> /\ Phase = ProgramRip /\ Iterations = i
    BY <2>1 DEF Unmapped, Phase, Iterations
  <2>3. Faults = Dec(g_pf_count) /\ Faults' = g_pf_count /\ g_pf_count \in Nat
    BY <1>0, <2>1 DEF Faults, TypeOK
  <2>4. CASE layout.upper[i] = "absent" /\ ProgramRip = "touch" /\ UNCHANGED pte
    <3>1. UNCHANGED Unwritable
      BY <2>1, <2>4 DEF Unwritable, Walk
    <3>2. i \in Unwritable \intersect Unmapped
      BY <1>0, <2>1, <2>4, PageImage
    <3> QED
      BY <2>1, <2>2, <2>3, <2>4, <3>1, <3>2 DEF Abstract!Next, Abstract!Refault
  <2>5. CASE /\ layout.upper[i] = "table" /\ Writable(i)'
             /\ \A q \in Pages : q # i => Walk(q)' = Walk(q)
    <3>1. i \in Unwritable \ Unmapped
      BY <1>0, <2>1, <2>5, PageImage
    <3>2. Unwritable' = Unwritable \ {i}
      <4>1. i \notin Unwritable'
        BY <2>1, <2>5 DEF Unwritable, Writable, Walk
      <4>2. \A q \in Pages : q # i => (q \in Unwritable' <=> q \in Unwritable)
        BY <2>5 DEF Unwritable
      <4>3. Unwritable \subseteq Pages /\ Unwritable' \subseteq Pages
        BY DEF Unwritable
      <4> QED
        BY <4>1, <4>2, <4>3
    <3>3. g_pf_count # 0
      <4>1. /\ Cardinality(ReadOnly) \in Nat /\ Cardinality(Repaired) \in Nat
            /\ Cardinality(Refilled) \in Nat /\ Counting = 1
        BY <2>1, PageSets DEF ReadOnly, Repaired, Refilled, Counting
      <4> QED
        BY <2>1, <2>5, <4>1 DEF BenchInv, PfInv
    <3>4. Faults' = Faults + 1
      BY <2>3, <3>3 DEF Dec
    <3> QED
      BY <2>1, <2>2, <3>1, <3>2, <3>4 DEF Abstract!Next, Abstract!Repair
  <2> QED
    BY <1>0, <1>14, <2>4, <2>5, UnprotectMemory
<1>15. CASE CommonHandler \/ HandleInterrupt \/ InvalidateFaulting \/ Forward
  <2>1. rip \notin Stopped /\ rip' \notin Stopped
    BY <1>15 DEF CommonHandler, HandleInterrupt, InvalidateFaulting, Forward, Stopped
  <2> QED
    BY <1>0, <1>15, <2>1, QuietSteps, Invisible
<1>16. CASE Iretq
  <2>1. rip \in Handler /\ rip = "iretq" /\ rip' = Top.rip
    BY <1>16 DEF Iretq, Handler
  <2>2. rip \notin Stopped /\ rip' \notin Stopped
    BY <1>0, <2>1, TopFacts DEF Program, Handler, Stopped
  <2> QED
    BY <1>0, <1>16, <2>2, QuietSteps, Invisible
<1>17. CASE Environment
  <2>1. rip \notin Stopped /\ rip' \notin Stopped
    BY <1>17 DEF Environment, TlbFill, TlbEvict, RaiseInterrupt, AcceptInterrupt,
                 AcceptNmi, Deliver, Stopped
  <2> QED
    BY <1>0, <1>17, <2>1, QuietSteps, Invisible
<1>18. CASE UNCHANGED vars
  <2>1. UNCHANGED rip
    BY <1>18 DEF vars
  <2> QED
    BY <1>0, <1>18, <2>1, QuietSteps, Invisible
<1> QED
    BY <1>1, <1>2, <1>3, <1>4, <1>5, <1>6, <1>7, <1>8, <1>9, <1>10, <1>11, <1>12, <1>13,
       <1>14, <1>15, <1>16, <1>17, <1>18, <1>10b
       DEF Next, Execute, Ecall, Trap, Terminating

(* The program starts where the abstract benchmark does. *)
LEMMA InitImage == Init => BenchInv /\ Abstract!Init
<1> SUFFICES ASSUME Init PROVE BenchInv /\ Abstract!Init
    OBVIOUS
<1>1. ProgramRip = "init_exception" /\ HandlerRip = "none"
    BY DEF Init, ProgramRip, HandlerRip
<1>2. BenchInv
    BY InitCountInv DEF BenchInv, CountInv, InterruptCountInv
<1>3. /\ Phase = "setup" /\ Iterations = 0 /\ Faults = 0 /\ nrepeats \in Nat
      /\ Unmapped \in SUBSET Pages /\ Unwritable \in SUBSET Pages
    BY <1>1, SizesAssumption
       DEF Init, Phase, Iterations, Faults, Unmapped, Unwritable, Stopped
<1> QED
    BY <1>2, <1>3 DEF Init, Abstract!Init, Abstract!Pages, Pages

(* However the traps of a store or a ud2 are handled and interrupted, the benchmark is
   the one in which a store to a protected page costs one #PF and a ud2 one #UD. *)
THEOREM ImplementsBenchmark == Spec => Implements
<1>1. BenchInv /\ [Next]_vars => BenchInv'
    BY NextMemoryInv, NextUdInv, NextPfInv DEF BenchInv
<1> QED
    BY <1>1, InitImage, NextImage, PTL DEF Spec, Implements, Abstract!Spec

-----------------------------------------------------------------------------
(* The enclave in its process.  The App does to the enclave's variables nothing that
   the enclave would not do itself, so that what is shown above of the enclave alone
   holds of it there, whatever the process does and whenever the enclave is lost. *)

(* The image is loaded with the enclave's initial state. *)
LEMMA AppInitImage == AppInit => Init
    BY DEF AppInit

(* A step of the process is a step of the enclave, or leaves it alone. *)
LEMMA AppStepsEnclave == [AppNext]_appvars => [Next]_vars
<1> SUFFICES ASSUME [AppNext]_appvars PROVE [Next]_vars
    OBVIOUS
<1>1. CASE Inside(Execute) \/ Inside(Environment)
    BY <1>1 DEF Inside, Next
<1>2. CASE Process
  <2>1. CASE Usage \/ ParseCount \/ initialize_enclave \/ InitializationFails
      BY <2>1 DEF Usage, ParseCount, initialize_enclave, InitializationFails
  <2>2. CASE EcallReturns \/ EnclaveAborts \/ benchmark_exception_ecall
      BY <2>2 DEF EcallReturns, EnclaveAborts, Fails, benchmark_exception_ecall
  <2>3. CASE Done \/ Destroy
      BY <2>3 DEF Done, Destroy
  <2> QED
      BY <1>2, <2>1, <2>2, <2>3 DEF Process
<1>3. CASE LoseEnclave
    BY <1>3 DEF LoseEnclave, Fails
<1>4. CASE UNCHANGED appvars
    BY <1>4 DEF appvars
<1> QED
    BY <1>1, <1>2, <1>3, <1>4 DEF AppNext, AppExecute

(* The types, and the bounds on the counters' bit patterns and on the loop variable,
   hold of the enclave in its process: ecall_exception called by the App. *)
THEOREM AppTypeCorrect == AppSpec => []TypeOK
<1>1. TypeInv => TypeOK
    BY DEF TypeInv
<1> QED
    BY <1>1, AppInitImage, AppStepsEnclave, InitTypeInv, NextTypeInv, PTL DEF AppSpec

(* Every interrupt the enclave takes while the App's ecall runs is forwarded once
   and in order, or found no handler, however the call ends. *)
THEOREM AppForwardsInterrupts == AppSpec => []InterruptsForwarded
<1>1. ForwardInv => InterruptsForwarded
    BY DEF ForwardInv
<1> QED
    BY <1>1, AppInitImage, AppStepsEnclave, InitForwardInv, NextForwardInv, PTL
       DEF AppSpec

(* At most two frames on the stack of common_exception_entry, in the process, too. *)
THEOREM AppNestingIsBounded == AppSpec => []NestingBounded
<1>1. TypeInv => NestingBounded
    BY StackFacts DEF TypeInv, StackShape, NestingBounded
<1> QED
    BY <1>1, AppInitImage, AppStepsEnclave, InitTypeInv, NextTypeInv, PTL DEF AppSpec

(* No cached translation of test_buf is wider than the page tables while the App's ecall
   runs, either. *)
THEOREM AppTlbIsCoherent == AppSpec => []TlbCoherent
<1> QED
    BY MemoryIsCoherent, AppInitImage, AppStepsEnclave, InitMemoryInv, NextMemoryInv, PTL
       DEF AppSpec

(* Each store of the timed loop of the App's ecall faults, on every shape of the page
   tables. *)
THEOREM AppTimedLoopFaults == AppSpec => []TimedLoopFaults
<1> QED
    BY MemoryTimesFaults, AppInitImage, AppStepsEnclave, InitMemoryInv, NextMemoryInv, PTL
       DEF AppSpec

(* The counts the enclave prints are exact in its process, for every argument. *)
THEOREM AppReportIsExact ==
    ASSUME MaxIntr < Modulus
    PROVE  AppSpec => []ReportExact
<1>1. CountInv => ReportExact
    BY CountsAreExact
<1>2. CountInv /\ [Next]_vars => CountInv'
    BY NextCountInv
<1> QED
    BY <1>1, <1>2, AppInitImage, AppStepsEnclave, InitCountInv, PTL DEF AppSpec

(* The enclave in its process is the abstract benchmark, up to the moment it is lost. *)
THEOREM AppImplementsBenchmark == AppSpec => Implements
<1>1. BenchInv /\ [Next]_vars => BenchInv'
    BY NextMemoryInv, NextUdInv, NextPfInv DEF BenchInv
<1> QED
    BY <1>1, AppInitImage, AppStepsEnclave, InitImage, NextImage, PTL
       DEF AppSpec, Implements, Abstract!Spec

-----------------------------------------------------------------------------
(* What the App tells of the ecall. *)

EnclaveInv == BenchInv /\ DoneInv

(* The ecall came to its end, was aborted by the enclave, or was cut short. *)
Completed == ret = Success /\ retval = Success /\ rip = "done"
Crashed   == ret = "ENCLAVE_CRASHED" /\ rip = "aborted"
Lost      == ret = "ENCLAVE_LOST"

(* The lines after initialize_enclave's, for each of the three. *)
ElapsedTold == Len(log) >= 2 /\ log[2] = Line("elapsed")
CrashTold   == Len(log) >= 2 /\ log[2] = Error("UNEXPECTED")
LossTold    == Len(log) >= 3 /\ log[2] = Info("ENCLAVE_LOST") /\ log[3] = Error("ENCLAVE_LOST")

Account(more) ==
    \/ Completed /\ ElapsedTold /\ Len(log) = 2 + more
    \/ Crashed /\ CrashTold /\ Len(log) = 2 + more
    \/ Lost /\ LossTold /\ Len(log) = 3 + more

Lines == [kind : {"Line", "Info", "Error"},
          of   : {"N", "elapsed", "done", "UNEXPECTED", "ENCLAVE_LOST"}]

(* What is printed, and what of the ecall is known, at each place of main that leads to
   its return 0. *)
LogInv ==
    /\ pc # "exited" => status # 0
    /\ pc # "exited" \/ status = 0 => log \in Seq(Lines)
    /\ pc \in {"main", "init"} => log = <<>>
    /\ pc \in {"inside", "returned"} => Len(log) = 1
    /\ pc \in {"inside", "returned", "done"} => log[1] = Line("N")
    /\ pc = "returned" => Completed \/ Crashed \/ Lost
    /\ pc = "done" => Account(0)
    /\ pc = "destroy" \/ (pc = "exited" /\ status = 0) =>
           Account(1) /\ log[1] = Line("N") /\ log[Len(log)] = Line("done")

(* What a print appends to the lines there are. *)
LEMMA LinesAppended ==
    ASSUME log \in Seq(Lines), NEW line \in Lines, log' = Append(log, line)
    PROVE  /\ log' \in Seq(Lines) /\ Len(log') = Len(log) + 1
           /\ \A k \in 1 .. Len(log) : log'[k] = log[k]
           /\ log'[Len(log) + 1] = line
    OBVIOUS

(* The lines of this App are lines. *)
LEMMA LinesOfApp ==
    /\ Line("N") \in Lines /\ Line("elapsed") \in Lines /\ Line("done") \in Lines
    /\ Error("UNEXPECTED") \in Lines
    /\ Info("ENCLAVE_LOST") \in Lines /\ Error("ENCLAVE_LOST") \in Lines
    /\ Told("ENCLAVE_CRASHED", "UNEXPECTED") = <<Error("UNEXPECTED")>>
    /\ Told("ENCLAVE_LOST", "UNEXPECTED") = <<Info("ENCLAVE_LOST"), Error("ENCLAVE_LOST")>>
<1>1. Line("N") \in Lines /\ Line("elapsed") \in Lines /\ Line("done") \in Lines
    BY DEF Lines, Line
<1>2. /\ Error("UNEXPECTED") \in Lines
      /\ Info("ENCLAVE_LOST") \in Lines /\ Error("ENCLAVE_LOST") \in Lines
    BY DEF Lines, Info, Error
<1>3. "ENCLAVE_CRASHED" \notin sgx_errlist /\ "ENCLAVE_LOST" \in sgx_errlist \intersect Suggested
    BY DEF sgx_errlist, Suggested
<1>4. /\ Told("ENCLAVE_CRASHED", "UNEXPECTED") = <<Error("UNEXPECTED")>>
      /\ Told("ENCLAVE_LOST", "UNEXPECTED") = <<Info("ENCLAVE_LOST"), Error("ENCLAVE_LOST")>>
    BY <1>3 DEF Told
<1> QED
    BY <1>1, <1>2, <1>4

(* A list of one line more is what Append makes. *)
LEMMA LineConcatenated ==
    ASSUME log \in Seq(Lines), NEW line \in Lines, log' = log \o <<line>>
    PROVE  log' = Append(log, line)
    OBVIOUS

(* The App's first line and two more. *)
LEMMA LinesConcatenated ==
    ASSUME NEW s \in Seq(Lines), Len(s) = 1, NEW a \in Lines, NEW b \in Lines
    PROVE  /\ s \o <<a, b>> \in Seq(Lines) /\ Len(s \o <<a, b>>) = 3
           /\ (s \o <<a, b>>)[1] = s[1] /\ (s \o <<a, b>>)[2] = a
           /\ (s \o <<a, b>>)[3] = b
<1>1. <<a, b>> \in Seq(Lines)
    OBVIOUS
<1> QED
    BY <1>1, ConcatProperties

(* The App prints one account of the ecall, and the right one. *)
LEMMA NextLogInv == LogInv /\ [AppNext]_appvars => LogInv'
<1> SUFFICES ASSUME LogInv, [AppNext]_appvars PROVE LogInv'
    OBVIOUS
<1> USE DEF app
<1>1. CASE Usage \/ InitializationFails
  <2>1. pc' = "exited" /\ status' = -1
    BY <1>1 DEF Usage, InitializationFails, Exit
  <2> QED
    BY <2>1 DEF LogInv
<1>2. CASE ParseCount
    BY <1>2 DEF ParseCount, LogInv
<1>3. CASE initialize_enclave
  <2>1. pc = "init" /\ log = <<>> /\ log' = Append(log, Line("N")) /\ pc' = "inside" /\ status' = status
    BY <1>3 DEF initialize_enclave, Say, LogInv
  <2>2. log' \in Seq(Lines) /\ Len(log') = 1 /\ log'[1] = Line("N")
    BY <2>1, LinesOfApp
  <2> QED
    BY <2>1, <2>2 DEF LogInv
<1>4. CASE Inside(Execute) \/ Inside(Environment)
    BY <1>4 DEF Inside, LogInv
<1>5. CASE EcallReturns
    BY <1>5 DEF EcallReturns, vars, LogInv, Completed
<1>6. CASE EnclaveAborts
    BY <1>6 DEF EnclaveAborts, Fails, vars, LogInv, Crashed
<1>7. CASE LoseEnclave
    BY <1>7 DEF LoseEnclave, Fails, vars, LogInv, Lost
<1>8. CASE benchmark_exception_ecall
  <2>1. /\ pc = "returned" /\ pc' = "done" /\ UNCHANGED <<rip, ret, retval, status>>
        /\ log \in Seq(Lines) /\ Len(log) = 1 /\ log[1] = Line("N") /\ status # 0
        /\ Completed \/ Crashed \/ Lost
    BY <1>8 DEF benchmark_exception_ecall, vars, LogInv
  <2>2. CASE Completed
    <3>1. log' = Append(log, Line("elapsed"))
      BY <1>8, <2>2 DEF Completed, benchmark_exception_ecall, Say
    <3>2. /\ log' \in Seq(Lines) /\ Len(log') = 2
          /\ log'[1] = Line("N") /\ log'[2] = Line("elapsed")
      BY <2>1, <3>1, LinesOfApp, LinesAppended
    <3> QED
      BY <2>1, <2>2, <3>2 DEF LogInv, Account, Completed, ElapsedTold
  <2>3. CASE Crashed
    <3>1. log' = log \o <<Error("UNEXPECTED")>>
      BY <1>8, <2>3, LinesOfApp
         DEF Crashed, Success, benchmark_exception_ecall, print_error_message
    <3>2. /\ log' \in Seq(Lines) /\ Len(log') = 2
          /\ log'[1] = Line("N") /\ log'[2] = Error("UNEXPECTED")
      <4>1. log' = Append(log, Error("UNEXPECTED"))
        BY <2>1, <3>1, LinesOfApp, LineConcatenated
      <4> QED
        BY <2>1, <4>1, LinesOfApp, LinesAppended
    <3> QED
      BY <2>1, <2>3, <3>2 DEF LogInv, Account, Crashed, CrashTold
  <2>4. CASE Lost
    <3>1. log' = log \o <<Info("ENCLAVE_LOST"), Error("ENCLAVE_LOST")>>
      BY <1>8, <2>4, LinesOfApp
         DEF Lost, Success, benchmark_exception_ecall, print_error_message
    <3>2. Info("ENCLAVE_LOST") \in Lines /\ Error("ENCLAVE_LOST") \in Lines
      BY LinesOfApp
    <3>3. /\ log' \in Seq(Lines) /\ Len(log') = 3
          /\ log'[1] = Line("N") /\ log'[2] = Info("ENCLAVE_LOST")
          /\ log'[3] = Error("ENCLAVE_LOST")
      <4>1. log \in Seq(Lines) /\ Len(log) = 1 /\ log[1] = Line("N")
        BY <2>1
      <4> DEFINE a == Info("ENCLAVE_LOST")
                 b == Error("ENCLAVE_LOST")
      <4>2. a \in Lines /\ b \in Lines /\ log' = log \o <<a, b>>
        BY <3>1, <3>2
      <4> HIDE DEF a, b
      <4>3. /\ log' \in Seq(Lines) /\ Len(log') = 3
            /\ log'[1] = log[1] /\ log'[2] = a /\ log'[3] = b
        BY ONLY <4>1, <4>2, LinesConcatenated
      <4> QED
        BY <4>1, <4>3 DEF a, b
    <3> QED
      BY <2>1, <2>4, <3>3 DEF LogInv, Account, Lost, LossTold
  <2> QED
    BY <2>1, <2>2, <2>3, <2>4
<1>9. CASE Done
  <2>1. /\ pc = "done" /\ pc' = "destroy" /\ UNCHANGED <<rip, ret, retval, status>>
        /\ log' = Append(log, Line("done"))
        /\ log \in Seq(Lines) /\ log[1] = Line("N") /\ status # 0 /\ Account(0)
    BY <1>9 DEF Done, Say, vars, LogInv
  <2>2. Len(log) \in Nat /\ Len(log) >= 2
    BY <2>1 DEF Account
  <2>3. /\ log' \in Seq(Lines) /\ Len(log') = Len(log) + 1
        /\ \A k \in 1 .. Len(log) : log'[k] = log[k]
        /\ log'[Len(log')] = Line("done")
    BY <2>1, LinesOfApp, LinesAppended
  <2>4. log'[1] = Line("N") /\ log'[2] = log[2] /\ (Len(log) >= 3 => log'[3] = log[3])
    BY <2>1, <2>2, <2>3
  <2>5. Account(1)'
    BY <2>1, <2>2, <2>3, <2>4
       DEF Account, Completed, Crashed, Lost, ElapsedTold, CrashTold, LossTold
  <2> QED
    BY <2>1, <2>3, <2>4, <2>5 DEF LogInv
<1>10. CASE Destroy
  <2>1. /\ pc = "destroy" /\ pc' = "exited" /\ UNCHANGED <<rip, ret, retval, log>>
        /\ log \in Seq(Lines) /\ log[1] = Line("N") /\ log[Len(log)] = Line("done")
        /\ Account(1)
    BY <1>10 DEF Destroy, Exit, vars, LogInv
  <2>2. Account(1)'
    BY <2>1 DEF Account, Completed, Crashed, Lost, ElapsedTold, CrashTold, LossTold
  <2> QED
    BY <2>1, <2>2 DEF LogInv
<1>11. CASE UNCHANGED appvars
    BY <1>11 DEF appvars, vars, LogInv, Account, Completed, Crashed, Lost, ElapsedTold,
                 CrashTold, LossTold
<1> QED
    BY <1>1, <1>2, <1>3, <1>4, <1>5, <1>6, <1>7, <1>8, <1>9, <1>10, <1>11
       DEF AppNext, AppExecute, Process

(* What the three accounts say. *)
LEMMA AccountsTell ==
    ASSUME EnclaveInv, LogInv, pc = "exited", status = 0
    PROVE  OutcomeTold
<1>0. /\ Account(1) /\ log[1] = Line("N") /\ log[Len(log)] = Line("done")
      /\ log \in Seq(Lines)
    BY DEF LogInv
<1>1. CASE Completed /\ ElapsedTold /\ Len(log) = 3
  <2>1. /\ DOMAIN log = {1, 2, 3} /\ log[1] = [kind |-> "Line", of |-> "N"]
        /\ log[2] = [kind |-> "Line", of |-> "elapsed"]
        /\ log[3] = [kind |-> "Line", of |-> "done"]
    BY <1>0, <1>1 DEF Line, ElapsedTold
  <2>2. Errors = {} /\ Says("Line", "elapsed") /\ ~Says("Info", "ENCLAVE_LOST")
    BY <2>1 DEF Errors, Says
  <2>3. rip = "done" /\ Len(frames) = 0 /\ TypeInv /\ MemoryInv /\ UdInv
    BY <1>1 DEF Completed, EnclaveInv, BenchInv, DoneInv, MemoryInv
  <2>4. frames = <<>> /\ ProgramRip = "done"
    BY <2>3, StackFacts DEF ProgramRip
  <2>5. g_ud_count = nrepeats /\ \A p \in Pages : "W" \in Walk(p)
    BY <2>3, <2>4 DEF UdInv, MemoryInv, BufferInv, Written, Writable
  <2> QED
    BY <2>2, <2>3, <2>4, <2>5 DEF OutcomeTold
<1>2. CASE Crashed /\ CrashTold /\ Len(log) = 3
  <2>1. /\ DOMAIN log = {1, 2, 3} /\ log[1] = [kind |-> "Line", of |-> "N"]
        /\ log[2] = [kind |-> "Error", of |-> "UNEXPECTED"]
        /\ log[3] = [kind |-> "Line", of |-> "done"]
    BY <1>0, <1>2 DEF Line, Error, CrashTold
  <2>2. /\ Errors = {"UNEXPECTED"} /\ ~Says("Line", "elapsed")
        /\ ~Says("Info", "ENCLAVE_LOST")
    BY <2>1 DEF Errors, Says
  <2> QED
    BY <1>2, <2>2 DEF OutcomeTold, Crashed
<1>3. CASE Lost /\ LossTold /\ Len(log) = 4
  <2>1. /\ DOMAIN log = {1, 2, 3, 4} /\ log[1] = [kind |-> "Line", of |-> "N"]
        /\ log[2] = [kind |-> "Info", of |-> "ENCLAVE_LOST"]
        /\ log[3] = [kind |-> "Error", of |-> "ENCLAVE_LOST"]
        /\ log[4] = [kind |-> "Line", of |-> "done"]
    BY <1>0, <1>3 DEF Line, Info, Error, LossTold
  <2>2. /\ Errors = {"ENCLAVE_LOST"} /\ ~Says("Line", "elapsed")
        /\ Says("Info", "ENCLAVE_LOST")
    BY <2>1 DEF Errors, Says
  <2> QED
    BY <2>2 DEF OutcomeTold
<1> QED
    BY <1>0, <1>1, <1>2, <1>3 DEF Account

(* The App exits with 0 and prints "Done." whatever became of the ecall; what it prints
   before tells a run that came to its end from one that aborted or was lost, for every
   content of the uninitialised retval. *)
THEOREM AppTellsTheOutcome == AppSpec => []OutcomeTold
<1>1. AppInit => EnclaveInv /\ LogInv
  <2> SUFFICES ASSUME AppInit PROVE EnclaveInv /\ LogInv
    OBVIOUS
  <2>1. BenchInv
    BY AppInitImage, InitImage
  <2>2. DoneInv
    BY DEF AppInit, Init, DoneInv
  <2>3. LogInv
    BY DEF AppInit, LogInv
  <2> QED
    BY <2>1, <2>2, <2>3 DEF EnclaveInv
<1>2. EnclaveInv /\ [Next]_vars => EnclaveInv'
    BY NextMemoryInv, NextUdInv, NextPfInv, NextDoneInv DEF EnclaveInv, BenchInv, MemoryInv
<1>3. EnclaveInv /\ LogInv => OutcomeTold
    BY AccountsTell DEF OutcomeTold
<1> QED
    BY <1>1, <1>2, <1>3, AppStepsEnclave, NextLogInv, PTL DEF AppSpec
=============================================================================
