------------------------- MODULE WorldSwitchProofs -------------------------
(* Proofs about WorldSwitch, for any finite set of threads, any number of TCSs
   and any number of crossings.  All of them count threads: a step moves one
   thread from one location to another, and the size of "the threads that are in
   S" changes by what that move says. *)
EXTENDS WorldSwitch, FiniteSetTheorems, TLAPS

Where(f, S) == {u \in Threads : f[u] \in S}

One(S, location) == IF location \in S THEN 1 ELSE 0

(* A thread that moves leaves the sets its old location is in and joins those its
   new one is in. *)
LEMMA CardMove ==
    ASSUME NEW f \in [Threads -> Locations], NEW t \in Threads,
           NEW to \in Locations, NEW S, NEW g, g = [f EXCEPT ![t] = to]
    PROVE  /\ Cardinality(Where(f, S)) \in Nat
           /\ Cardinality(Where(g, S)) \in Nat
           /\ Cardinality(Where(g, S)) =
                  Cardinality(Where(f, S)) + One(S, to) - One(S, f[t])
<1>1. IsFiniteSet(Where(f, S)) /\ IsFiniteSet(Where(g, S))
  BY ThreadsAssumption, FS_Subset DEF Where
<1>2. Cardinality(Where(f, S)) \in Nat /\ Cardinality(Where(g, S)) \in Nat
  BY <1>1, FS_CardinalityType
<1>3. g \in [Threads -> Locations] /\ g[t] = to
      /\ \A u \in Threads : u # t => g[u] = f[u]
  OBVIOUS
<1>4. CASE (to \in S) = (f[t] \in S)
  <2>1. Where(g, S) = Where(f, S)
    BY <1>3, <1>4 DEF Where
  <2> QED BY <1>2, <1>4, <2>1 DEF One
<1>5. CASE to \in S /\ f[t] \notin S
  <2>1. Where(g, S) = Where(f, S) \union {t} /\ t \notin Where(f, S)
    BY <1>3, <1>5 DEF Where
  <2>2. Cardinality(Where(g, S)) = Cardinality(Where(f, S)) + 1
    BY <1>1, <2>1, FS_AddElement
  <2> QED BY <1>2, <1>5, <2>2 DEF One
<1>6. CASE to \notin S /\ f[t] \in S
  <2>1. Where(g, S) = Where(f, S) \ {t} /\ t \in Where(f, S)
    BY <1>3, <1>6 DEF Where
  <2>2. Cardinality(Where(g, S)) = Cardinality(Where(f, S)) - 1
    BY <1>1, <2>1, FS_RemoveElement
  <2> QED BY <1>2, <1>6, <2>2 DEF One
<1> QED BY <1>4, <1>5, <1>6

-----------------------------------------------------------------------------
(* Types. *)

(* All threads are outside, all counters 0. *)
LEMMA InitType == Init => TypeOK
BY DEF Init, TypeOK, Locations, Idle, Counted, Commands, Report, NoReport

(* A step of a thread keeps the counters natural and the thread at a location. *)
LEMMA StepType ==
    ASSUME TypeOK, NEW t \in Threads, Step(t), Meanwhile(t), UNCHANGED active
    PROVE  TypeOK'
<1>0. meanwhile' \in [Threads -> Nat]
  BY DEF TypeOK, Meanwhile
<1>1. CASE Ecall(t)
  BY <1>0, <1>1 DEF TypeOK, Ecall, Goes, entry_stats, exit_stats, Locations, Idle,
                Counted, Commands, Report, NoReport
<1>2. CASE Eenter(t)
  BY <1>0, <1>2 DEF TypeOK, Eenter, Goes, entry_stats, exit_stats, Locations, Idle,
                Counted, Commands, Report, NoReport
<1>3. CASE EntryCount(t)
  BY <1>0, <1>3 DEF TypeOK, EntryCount, Goes, entry_stats, exit_stats, Locations, Idle,
                Counted, Commands, Report, NoReport
<1>4. CASE EntryCycles(t)
  BY <1>0, <1>4 DEF TypeOK, EntryCycles, Goes, entry_stats, exit_stats, Locations, Idle,
                Counted, Commands, Report, NoReport
<1>5. CASE Ocall(t)
  BY <1>0, <1>5 DEF TypeOK, Ocall, Goes, entry_stats, exit_stats, Locations, Idle,
                Counted, Commands, Report, NoReport
<1>6. CASE OcallReturn(t)
  BY <1>0, <1>6 DEF TypeOK, OcallReturn, Goes, entry_stats, exit_stats, Locations, Idle,
                Counted, Commands, Report, NoReport
<1>7. CASE EcallReturn(t)
  BY <1>0, <1>7 DEF TypeOK, EcallReturn, Goes, entry_stats, exit_stats, Locations, Idle,
                Counted, Commands, Report, NoReport
<1>8. CASE StatsEcall(t)
  BY <1>0, <1>8 DEF TypeOK, StatsEcall, Goes, entry_stats, exit_stats, Locations, Idle,
                Counted, Commands, Report, NoReport
<1>9. CASE GetEenterCount(t)
  BY <1>0, <1>9 DEF TypeOK, GetEenterCount, Goes, entry_stats, exit_stats, Locations, Idle,
                Counted, Commands, Report, NoReport
<1>10. CASE GetEenterCycles(t)
  BY <1>0, <1>10 DEF TypeOK, GetEenterCycles, Goes, entry_stats, exit_stats, Locations, Idle,
                Counted, Commands, Report, NoReport
<1>11. CASE Eexit(t)
  BY <1>0, <1>11 DEF TypeOK, Eexit, Goes, entry_stats, exit_stats, Locations, Idle,
                Counted, Commands, Report, NoReport
<1>12. CASE ExitCount(t)
  BY <1>0, <1>12 DEF TypeOK, ExitCount, Goes, entry_stats, exit_stats, Locations, Idle,
                Counted, Commands, Report, NoReport
<1>13. CASE ExitCycles(t)
  BY <1>0, <1>13 DEF TypeOK, ExitCycles, Goes, entry_stats, exit_stats, Locations, Idle,
                Counted, Commands, Report, NoReport
<1>14. CASE GetEexitCount(t)
  BY <1>0, <1>14 DEF TypeOK, GetEexitCount, Goes, entry_stats, exit_stats, Locations, Idle,
                Counted, Commands, Report, NoReport
<1>15. CASE GetEexitCycles(t)
  <2>1. PICK told \in Report : report' = [report EXCEPT ![t] = told]
    <3>1. /\ report[t] \in Report /\ g_eexit_cycles \in Nat
          /\ report' = [report EXCEPT ![t] = [report[t] EXCEPT !.eexit_cycles = g_eexit_cycles,
                                                            !.complete = TRUE]]
      BY <1>15 DEF TypeOK, GetEexitCycles
    <3>2. [report[t] EXCEPT !.eexit_cycles = g_eexit_cycles, !.complete = TRUE] \in Report
      BY <3>1 DEF Report
    <3> QED BY <3>1, <3>2
  <2>2. report' \in [Threads -> Report]
    BY <2>1 DEF TypeOK
  <2> QED
    BY <1>0, <1>15, <2>2 DEF TypeOK, GetEexitCycles, Goes, entry_stats, exit_stats, Locations,
                             Idle, Counted
<1>16. CASE Dispatch(t)
  BY <1>0, <1>16 DEF TypeOK, Dispatch, entry_stats, exit_stats, Locations, Idle,
                Counted, Commands, Report, NoReport
<1> QED BY <1>1, <1>2, <1>3, <1>4, <1>5, <1>6, <1>7, <1>8, <1>9, <1>10, <1>11, <1>12, <1>13, <1>14, <1>15, <1>16 DEF Step

(* Every counter is a natural number and every thread at a location, always. *)
THEOREM TypeCorrect == Spec => []TypeOK
<1>1. Init => TypeOK
  BY InitType
<1>2. TypeOK /\ [Next]_vars => TypeOK'
  <2> SUFFICES ASSUME TypeOK, [Next]_vars PROVE TypeOK'
    OBVIOUS
  <2>1. CASE Next
    BY <2>1, StepType DEF Next, TypeOK
  <2>2. CASE UNCHANGED vars
    BY <2>2 DEF TypeOK, vars, entry_stats, exit_stats
  <2> QED BY <2>1, <2>2
<1> QED BY <1>1, <1>2, PTL DEF Spec

-----------------------------------------------------------------------------
(* The counters. *)

In(f)  == Cardinality(Where(f, Counted))
Ent(f) == Cardinality(Where(f, {"entry_cycles"}))
Ext(f) == Cardinality(Where(f, {"exit_cycles"}))

Tally ==
    /\ g_eenter_count = g_eexit_count + In(at)
    /\ g_eenter_count = g_eenter_cycles + Ent(at)
    /\ g_eexit_count = g_eexit_cycles + Ext(at)

(* The tally, stated with the locations of all threads, is what the two
   properties say of the counters. *)
LEMMA TallyIsBoth == Tally <=> Balanced /\ CyclesFollowCounts
<1>1. {t \in Threads : at[t] \in Counted} = Where(at, Counted)
  BY DEF Where
<1>2. At("entry_cycles") = Ent(at)
  BY DEF At, Ent, Where
<1>3. At("exit_cycles") = Ext(at)
  BY DEF At, Ext, Where
<1> QED BY <1>1, <1>2, <1>3
        DEF Tally, Balanced, CyclesFollowCounts, In

(* What a move of t does to the three sizes. *)
Move(t, from, to) ==
    /\ In(at) \in Nat /\ Ent(at) \in Nat /\ Ext(at) \in Nat
    /\ In(at') = In(at) + One(Counted, to) - One(Counted, from)
    /\ Ent(at') = Ent(at) + One({"entry_cycles"}, to) - One({"entry_cycles"}, from)
    /\ Ext(at') = Ext(at) + One({"exit_cycles"}, to) - One({"exit_cycles"}, from)

(* What the move of one thread does to the three sizes the tally is made of. *)
LEMMA Moved ==
    ASSUME TypeOK, NEW t \in Threads, NEW from, NEW to \in Locations,
           at[t] = from, at' = [at EXCEPT ![t] = to]
    PROVE  Move(t, from, to)
<1>1. at \in [Threads -> Locations]
  BY DEF TypeOK
<1> QED BY <1>1, CardMove DEF Move, In, Ent, Ext

(* Nobody has been counted. *)
LEMMA InitTally == Init => Tally
<1> SUFFICES ASSUME Init PROVE Tally
  OBVIOUS
<1>1. /\ Where(at, Counted) = {}
      /\ Where(at, {"entry_cycles"}) = {}
      /\ Where(at, {"exit_cycles"}) = {}
  BY DEF Init, Where, Counted
<1> QED BY <1>1, FS_EmptySet DEF Init, Tally, In, Ent, Ext

(* A thread that is added to a counter moves into the set that is counted. *)
LEMMA StepTally ==
    ASSUME TypeOK, Tally, NEW t \in Threads, Step(t)
    PROVE  Tally'
<1>0. /\ g_eenter_count \in Nat /\ g_eenter_cycles \in Nat
      /\ g_eexit_count \in Nat /\ g_eexit_cycles \in Nat
  BY DEF TypeOK
<1>1. CASE Ecall(t)
  <2>1. at[t] = "app" /\ at' = [at EXCEPT ![t] = "eenter"]
    BY <1>1 DEF Ecall, Goes
  <2>2. "eenter" \in Locations
    BY DEF Locations, Counted, Idle
  <2>3. Move(t, "app", "eenter")
    BY <2>1, <2>2, Moved
  <2> QED BY <1>0, <1>1, <2>3
          DEF Ecall, Tally, Move, One, Counted, entry_stats, exit_stats
<1>2. CASE Eenter(t)
  <2>1. at[t] = "eenter" /\ at' = [at EXCEPT ![t] = "entry_count"]
    BY <1>2 DEF Eenter, Goes
  <2>2. "entry_count" \in Locations
    BY DEF Locations, Counted, Idle
  <2>3. Move(t, "eenter", "entry_count")
    BY <2>1, <2>2, Moved
  <2> QED BY <1>0, <1>2, <2>3
          DEF Eenter, Tally, Move, One, Counted, entry_stats, exit_stats
<1>3. CASE EntryCount(t)
  <2>1. at[t] = "entry_count" /\ at' = [at EXCEPT ![t] = "entry_cycles"]
    BY <1>3 DEF EntryCount, Goes
  <2>2. "entry_cycles" \in Locations
    BY DEF Locations, Counted, Idle
  <2>3. Move(t, "entry_count", "entry_cycles")
    BY <2>1, <2>2, Moved
  <2> QED BY <1>0, <1>3, <2>3
          DEF EntryCount, Tally, Move, One, Counted, entry_stats, exit_stats
<1>4. CASE EntryCycles(t)
  <2>1. at[t] = "entry_cycles" /\ at' = [at EXCEPT ![t] = "enclave"]
    BY <1>4 DEF EntryCycles, Goes
  <2>2. "enclave" \in Locations
    BY DEF Locations, Counted, Idle
  <2>3. Move(t, "entry_cycles", "enclave")
    BY <2>1, <2>2, Moved
  <2> QED BY <1>0, <1>4, <2>3
          DEF EntryCycles, Tally, Move, One, Counted, entry_stats, exit_stats
<1>5. CASE Ocall(t)
  <2>1. at[t] = "enclave" /\ at' = [at EXCEPT ![t] = "eexit"]
    BY <1>5 DEF Ocall, Goes
  <2>2. "eexit" \in Locations
    BY DEF Locations, Counted, Idle
  <2>3. Move(t, "enclave", "eexit")
    BY <2>1, <2>2, Moved
  <2> QED BY <1>0, <1>5, <2>3
          DEF Ocall, Tally, Move, One, Counted, entry_stats, exit_stats
<1>6. CASE OcallReturn(t)
  <2>1. at[t] = "ocall" /\ at' = [at EXCEPT ![t] = "eenter"]
    BY <1>6 DEF OcallReturn, Goes
  <2>2. "eenter" \in Locations
    BY DEF Locations, Counted, Idle
  <2>3. Move(t, "ocall", "eenter")
    BY <2>1, <2>2, Moved
  <2> QED BY <1>0, <1>6, <2>3
          DEF OcallReturn, Tally, Move, One, Counted, entry_stats, exit_stats
<1>7. CASE EcallReturn(t)
  <2>1. at[t] = "enclave" /\ at' = [at EXCEPT ![t] = "eexit"]
    BY <1>7 DEF EcallReturn, Goes
  <2>2. "eexit" \in Locations
    BY DEF Locations, Counted, Idle
  <2>3. Move(t, "enclave", "eexit")
    BY <2>1, <2>2, Moved
  <2> QED BY <1>0, <1>7, <2>3
          DEF EcallReturn, Tally, Move, One, Counted, entry_stats, exit_stats
<1>8. CASE StatsEcall(t)
  <2>1. at[t] = "enclave" /\ at' = [at EXCEPT ![t] = "eenter_count"]
    BY <1>8 DEF StatsEcall, Goes
  <2>2. "eenter_count" \in Locations
    BY DEF Locations, Counted, Idle
  <2>3. Move(t, "enclave", "eenter_count")
    BY <2>1, <2>2, Moved
  <2> QED BY <1>0, <1>8, <2>3
          DEF StatsEcall, Tally, Move, One, Counted, entry_stats, exit_stats
<1>9. CASE GetEenterCount(t)
  <2>1. at[t] = "eenter_count" /\ at' = [at EXCEPT ![t] = "eenter_cycles"]
    BY <1>9 DEF GetEenterCount, Goes
  <2>2. "eenter_cycles" \in Locations
    BY DEF Locations, Counted, Idle
  <2>3. Move(t, "eenter_count", "eenter_cycles")
    BY <2>1, <2>2, Moved
  <2> QED BY <1>0, <1>9, <2>3
          DEF GetEenterCount, Tally, Move, One, Counted, entry_stats, exit_stats
<1>10. CASE GetEenterCycles(t)
  <2>1. at[t] = "eenter_cycles" /\ at' = [at EXCEPT ![t] = "eexit"]
    BY <1>10 DEF GetEenterCycles, Goes
  <2>2. "eexit" \in Locations
    BY DEF Locations, Counted, Idle
  <2>3. Move(t, "eenter_cycles", "eexit")
    BY <2>1, <2>2, Moved
  <2> QED BY <1>0, <1>10, <2>3
          DEF GetEenterCycles, Tally, Move, One, Counted, entry_stats, exit_stats
<1>11. CASE Eexit(t)
  <2>1. at[t] = "eexit" /\ at' = [at EXCEPT ![t] = "exit_count"]
    BY <1>11 DEF Eexit, Goes
  <2>2. "exit_count" \in Locations
    BY DEF Locations, Counted, Idle
  <2>3. Move(t, "eexit", "exit_count")
    BY <2>1, <2>2, Moved
  <2> QED BY <1>0, <1>11, <2>3
          DEF Eexit, Tally, Move, One, Counted, entry_stats, exit_stats
<1>12. CASE ExitCount(t)
  <2>1. at[t] = "exit_count" /\ at' = [at EXCEPT ![t] = "exit_cycles"]
    BY <1>12 DEF ExitCount, Goes
  <2>2. "exit_cycles" \in Locations
    BY DEF Locations, Counted, Idle
  <2>3. Move(t, "exit_count", "exit_cycles")
    BY <2>1, <2>2, Moved
  <2> QED BY <1>0, <1>12, <2>3
          DEF ExitCount, Tally, Move, One, Counted, entry_stats, exit_stats
<1>13. CASE ExitCycles(t)
  <2>1. at[t] = "exit_cycles" /\ at' = [at EXCEPT ![t] = "dispatch"]
    BY <1>13 DEF ExitCycles, Goes
  <2>2. "dispatch" \in Locations
    BY DEF Locations, Counted, Idle
  <2>3. Move(t, "exit_cycles", "dispatch")
    BY <2>1, <2>2, Moved
  <2> QED BY <1>0, <1>13, <2>3
          DEF ExitCycles, Tally, Move, One, Counted, entry_stats, exit_stats
<1>14. CASE GetEexitCount(t)
  <2>1. at[t] = "eexit_count" /\ at' = [at EXCEPT ![t] = "eexit_cycles"]
    BY <1>14 DEF GetEexitCount, Goes
  <2>2. "eexit_cycles" \in Locations
    BY DEF Locations, Counted, Idle
  <2>3. Move(t, "eexit_count", "eexit_cycles")
    BY <2>1, <2>2, Moved
  <2> QED BY <1>0, <1>14, <2>3
          DEF GetEexitCount, Tally, Move, One, Counted, entry_stats, exit_stats
<1>15. CASE GetEexitCycles(t)
  <2>1. at[t] = "eexit_cycles" /\ at' = [at EXCEPT ![t] = "app"]
    BY <1>15 DEF GetEexitCycles, Goes
  <2>2. "app" \in Locations
    BY DEF Locations, Counted, Idle
  <2>3. Move(t, "eexit_cycles", "app")
    BY <2>1, <2>2, Moved
  <2> QED BY <1>0, <1>15, <2>3
          DEF GetEexitCycles, Tally, Move, One, Counted, entry_stats, exit_stats
<1>16. CASE Dispatch(t)
  <2>1. PICK to \in {"ocall", "eexit_count", "app"} :
          at[t] = "dispatch" /\ at' = [at EXCEPT ![t] = to]
    BY <1>16 DEF Dispatch
  <2>2. to \in Locations
    BY DEF Locations, Idle
  <2>3. Move(t, "dispatch", to)
    BY <2>1, <2>2, Moved
  <2> QED BY <1>0, <1>16, <2>3
          DEF Dispatch, Tally, Move, One, Counted, entry_stats, exit_stats
<1> QED BY <1>1, <1>2, <1>3, <1>4, <1>5, <1>6, <1>7, <1>8, <1>9, <1>10, <1>11, <1>12, <1>13, <1>14, <1>15, <1>16 DEF Step

(* So does any step, stuttering included. *)
LEMMA NextTally == TypeOK /\ Tally /\ [Next]_vars => Tally'
<1> SUFFICES ASSUME TypeOK, Tally, [Next]_vars PROVE Tally'
  OBVIOUS
<1>1. CASE Next
  BY <1>1, StepTally DEF Next, TypeOK
<1>2. CASE UNCHANGED vars
  BY <1>2 DEF Tally, vars, entry_stats, exit_stats
<1> QED BY <1>1, <1>2

(* The counters and their cycles are the tally of the locations, always. *)
THEOREM TallyAlways == Spec => []Tally
<1>1. Init => Tally
  BY InitTally
<1>2. TypeOK /\ Tally /\ [Next]_vars => Tally'
  BY NextTally
<1> QED BY <1>1, <1>2, TypeCorrect, PTL DEF Spec

(* The entries counted exceed the exits counted by the threads in between. *)
THEOREM CountersBalance == Spec => []Balanced
<1>1. Tally => Balanced
  BY TallyIsBoth
<1> QED BY <1>1, TallyAlways, PTL

(* The cycles lag each counter by the threads between its two locked adds. *)
THEOREM CyclesFollow == Spec => []CyclesFollowCounts
<1>1. Tally => CyclesFollowCounts
  BY TallyIsBoth
<1> QED BY <1>1, TallyAlways, PTL

-----------------------------------------------------------------------------
(* Refinement. *)

Inside == {t \in Threads : at[t] \in Counted}

(* A step that leaves Inside and both counters alone is a stutter above. *)
LEMMA StepRefines ==
    ASSUME TypeOK, NEW t \in Threads, Step(t)
    PROVE  \/ Inside' = Inside /\ UNCHANGED <<g_eenter_count, g_eexit_count>>
           \/ /\ t \notin Inside
              /\ Inside' = Inside \union {t}
              /\ g_eenter_count' = g_eenter_count + 1
              /\ UNCHANGED g_eexit_count
           \/ /\ t \in Inside
              /\ Inside' = Inside \ {t}
              /\ g_eexit_count' = g_eexit_count + 1
              /\ UNCHANGED g_eenter_count
<1>0. at \in [Threads -> Locations]
  BY DEF TypeOK
<1>1. CASE EntryCount(t)
  <2>1. /\ at[t] = "entry_count" /\ at' = [at EXCEPT ![t] = "entry_cycles"]
        /\ g_eenter_count' = g_eenter_count + 1 /\ UNCHANGED g_eexit_count
    BY <1>1 DEF EntryCount, Goes, exit_stats
  <2>2. t \notin Inside /\ Inside' = Inside \union {t}
    BY <1>0, <2>1 DEF Inside, Counted
  <2> QED BY <2>1, <2>2
<1>2. CASE ExitCount(t)
  <2>1. /\ at[t] = "exit_count" /\ at' = [at EXCEPT ![t] = "exit_cycles"]
        /\ g_eexit_count' = g_eexit_count + 1 /\ UNCHANGED g_eenter_count
    BY <1>2 DEF ExitCount, Goes, entry_stats
  <2>2. t \in Inside /\ Inside' = Inside \ {t}
    BY <1>0, <2>1 DEF Inside, Counted
  <2> QED BY <2>1, <2>2
<1>3. CASE ~EntryCount(t) /\ ~ExitCount(t)
  <2>1. UNCHANGED <<g_eenter_count, g_eexit_count>>
    BY <1>3 DEF Step, Ecall, Eenter, EntryCycles, Ocall, OcallReturn, EcallReturn,
                StatsEcall, GetEenterCount, GetEenterCycles, Eexit, ExitCycles,
                Dispatch, GetEexitCount, GetEexitCycles, entry_stats, exit_stats
  <2>2. PICK to \in Locations : /\ at' = [at EXCEPT ![t] = to]
                                /\ (to \in Counted) = (at[t] \in Counted)
    BY <1>3 DEF Step, Goes, Ecall, Eenter, EntryCycles, Ocall, OcallReturn,
                EcallReturn, StatsEcall, GetEenterCount, GetEenterCycles, Eexit,
                ExitCycles, Dispatch, GetEexitCount, GetEexitCycles, Counted,
                Locations, Idle
  <2>3. Inside' = Inside
    BY <1>0, <2>2 DEF Inside
  <2> QED BY <2>1, <2>3
<1> QED BY <1>1, <1>2, <1>3

(* Every crossing is counted once on each side, whatever the interleaving. *)
THEOREM CountsEachCrossingOnce == Spec => Implements
<1>1. Init => Counters!Init
  BY DEF Init, Counters!Init, Counted
<1>2. TypeOK /\ [Next]_vars => [Counters!Next]_(Counters!vars)
  <2> SUFFICES ASSUME TypeOK, [Next]_vars
               PROVE  [Counters!Next]_(Counters!vars)
    OBVIOUS
  <2>1. CASE Next
    <3>1. PICK t \in Threads : Step(t)
      BY <2>1 DEF Next, TypeOK
    <3> QED BY <3>1, StepRefines
            DEF Inside, Counters!Next, Counters!Enter, Counters!Leave, Counters!vars
  <2>2. CASE UNCHANGED vars
    BY <2>2 DEF vars, entry_stats, exit_stats, Counters!vars
  <2> QED BY <2>1, <2>2
<1> QED BY <1>1, <1>2, TypeCorrect, PTL DEF Spec, Implements, Counters!Spec
-----------------------------------------------------------------------------
(* What a reader of the counters is told. *)

Others == Cardinality(active) - 1

(* A thread that was never started is nowhere near the enclave. *)
Quiet == \A t \in Threads \ active : at[t] = "app"

(* Where t is once g_eenter_cycles was read for it, and g_eexit_count. *)
HasEntries(t) == Leaving(t) \/ at[t] \in {"eexit_count", "eexit_cycles"}

(* The numbers read so far are old values of counters that only grow, and each
   was read when at most the other threads were between two adds. *)
ReportInv(t) ==
    LET r == report[t] IN
    /\ r.eenter_count <= g_eenter_count
    /\ r.eexit_count <= g_eexit_count
    /\ HasEntries(t) \/ at[t] \in {"eenter_count", "eenter_cycles"} => ~r.complete
    /\ HasEntries(t) \/ r.complete => r.eenter_cycles >= r.eenter_count - Others
    /\ at[t] = "eexit_cycles" \/ r.complete
           => r.eexit_count >= r.eenter_count - Others
    /\ r.complete => r.eexit_cycles >= r.eexit_count - Others

(* A thread that is not in a set leaves at most the others in it. *)
LEMMA Bystanders ==
    ASSUME TypeOK, Quiet, NEW t \in active, NEW S, at[t] \notin S, "app" \notin S
    PROVE  /\ Cardinality(Where(at, S)) \in Nat
           /\ Others \in Nat
           /\ Cardinality(Where(at, S)) <= Others
<1>0. IsFiniteSet(active) /\ t \in active
  BY ThreadsAssumption, FS_Subset DEF TypeOK
<1>1. IsFiniteSet(active \ {t})
      /\ Cardinality(active \ {t}) = Cardinality(active) - 1
  BY <1>0, FS_RemoveElement
<1>2. Cardinality(active \ {t}) \in Nat
  BY <1>1, FS_CardinalityType
<1>3. Where(at, S) \in SUBSET (active \ {t})
  BY DEF Where, Quiet
<1>4. Cardinality(Where(at, S)) <= Cardinality(active \ {t})
      /\ IsFiniteSet(Where(at, S))
  BY <1>1, <1>3, FS_Subset
<1>5. Cardinality(Where(at, S)) \in Nat
  BY <1>4, FS_CardinalityType
<1> QED BY <1>1, <1>2, <1>4, <1>5 DEF Others

(* A step of u never takes a counter back and leaves the report of t alone. *)
LEMMA StepMonotone ==
    ASSUME TypeOK, NEW u \in Threads, Step(u)
    PROVE  /\ g_eenter_count' >= g_eenter_count
           /\ g_eexit_count' >= g_eexit_count
           /\ \A t \in Threads \ {u} : /\ at'[t] = at[t]
                                      /\ cmd'[t] = cmd[t]
                                      /\ report'[t] = report[t]
<1>1. g_eenter_count' >= g_eenter_count /\ g_eexit_count' >= g_eexit_count
  BY DEF TypeOK, Step, Ecall, Eenter, EntryCount, EntryCycles, Ocall, OcallReturn,
         EcallReturn, StatsEcall, GetEenterCount, GetEenterCycles, Eexit, ExitCount,
         ExitCycles, Dispatch, GetEexitCount, GetEexitCycles, entry_stats, exit_stats
<1>2. \E to : at' = [at EXCEPT ![u] = to]
  BY DEF Step, Goes, Ecall, Eenter, EntryCount, EntryCycles, Ocall, OcallReturn,
         EcallReturn, StatsEcall, GetEenterCount, GetEenterCycles, Eexit, ExitCount,
         ExitCycles, Dispatch, GetEexitCount, GetEexitCycles
<1>3. cmd' = cmd \/ \E c : cmd' = [cmd EXCEPT ![u] = c]
  BY DEF Step, Ecall, Eenter, EntryCount, EntryCycles, Ocall, OcallReturn,
         EcallReturn, StatsEcall, GetEenterCount, GetEenterCycles, Eexit, ExitCount,
         ExitCycles, Dispatch, GetEexitCount, GetEexitCycles
<1>4. report' = report \/ \E r : report' = [report EXCEPT ![u] = r]
  BY DEF Step, Ecall, Eenter, EntryCount, EntryCycles, Ocall, OcallReturn,
         EcallReturn, StatsEcall, GetEenterCount, GetEenterCycles, Eexit, ExitCount,
         ExitCycles, Dispatch, GetEexitCount, GetEexitCycles
<1>5. \A t \in Threads \ {u} : at'[t] = at[t]
  BY <1>2 DEF TypeOK
<1>6. \A t \in Threads \ {u} : cmd'[t] = cmd[t]
  BY <1>3 DEF TypeOK
<1>7. \A t \in Threads \ {u} : report'[t] = report[t]
  BY <1>4 DEF TypeOK
<1> QED BY <1>1, <1>5, <1>6, <1>7

(* What the reading thread has read so far stays within the bound. *)
LEMMA StepOwnReport ==
    ASSUME TypeOK, Tally, Quiet, NEW t \in active, Step(t), ReportInv(t), TypeOK',
           UNCHANGED active
    PROVE  ReportInv(t)'
<1>0. /\ at \in [Threads -> Locations]
      /\ cmd \in [Threads -> Commands]
      /\ t \in Threads
      /\ report \in [Threads -> Report] /\ report[t] \in Report
      /\ g_eenter_count \in Nat /\ g_eenter_cycles \in Nat
      /\ g_eexit_count \in Nat /\ g_eexit_cycles \in Nat
  BY DEF TypeOK
<1>a. Others \in Int /\ Others' = Others
  <2>1. IsFiniteSet(active)
    BY ThreadsAssumption, FS_Subset DEF TypeOK
  <2> QED BY <2>1, FS_CardinalityType DEF Others
<1>1. CASE Ecall(t)
  BY <1>0, <1>a, <1>1
     DEF Ecall, Goes, ReportInv, HasEntries, Leaving, Report, NoReport, entry_stats,
         exit_stats
<1>2. CASE Eenter(t)
  BY <1>0, <1>a, <1>2
     DEF Eenter, Goes, ReportInv, HasEntries, Leaving, Report, NoReport, entry_stats,
         exit_stats
<1>3. CASE EntryCount(t)
  BY <1>0, <1>a, <1>3
     DEF EntryCount, Goes, ReportInv, HasEntries, Leaving, Report, NoReport, entry_stats,
         exit_stats
<1>4. CASE EntryCycles(t)
  BY <1>0, <1>a, <1>4
     DEF EntryCycles, Goes, ReportInv, HasEntries, Leaving, Report, NoReport, entry_stats,
         exit_stats
<1>5. CASE Ocall(t)
  BY <1>0, <1>a, <1>5
     DEF Ocall, Goes, ReportInv, HasEntries, Leaving, Report, NoReport, entry_stats,
         exit_stats
<1>6. CASE OcallReturn(t)
  BY <1>0, <1>a, <1>6
     DEF OcallReturn, Goes, ReportInv, HasEntries, Leaving, Report, NoReport, entry_stats,
         exit_stats
<1>7. CASE EcallReturn(t)
  BY <1>0, <1>a, <1>7
     DEF EcallReturn, Goes, ReportInv, HasEntries, Leaving, Report, NoReport, entry_stats,
         exit_stats
<1>8. CASE StatsEcall(t)
  BY <1>0, <1>a, <1>8
     DEF StatsEcall, Goes, ReportInv, HasEntries, Leaving, Report, NoReport, entry_stats,
         exit_stats
<1>9. CASE Eexit(t)
  BY <1>0, <1>a, <1>9
     DEF Eexit, Goes, ReportInv, HasEntries, Leaving, Report, NoReport, entry_stats,
         exit_stats
<1>10. CASE ExitCount(t)
  BY <1>0, <1>a, <1>10
     DEF ExitCount, Goes, ReportInv, HasEntries, Leaving, Report, NoReport, entry_stats,
         exit_stats
<1>11. CASE ExitCycles(t)
  BY <1>0, <1>a, <1>11
     DEF ExitCycles, Goes, ReportInv, HasEntries, Leaving, Report, NoReport, entry_stats,
         exit_stats
<1>12. CASE Dispatch(t)
  BY <1>0, <1>a, <1>12
     DEF Dispatch, ReportInv, HasEntries, Leaving, Report, NoReport, entry_stats,
         exit_stats
<1>13. CASE GetEenterCount(t)
  <2>1. /\ at[t] = "eenter_count" /\ at'[t] = "eenter_cycles"
        /\ report'[t].eenter_count = g_eenter_count
        /\ report'[t].eexit_count = report[t].eexit_count
        /\ report'[t].complete = report[t].complete
        /\ UNCHANGED <<g_eenter_count, g_eexit_count>>
    BY <1>0, <1>13 DEF GetEenterCount, Goes, entry_stats, exit_stats, Report
  <2> QED BY <1>0, <1>a, <2>1 DEF ReportInv, HasEntries, Leaving
<1>14. CASE GetEenterCycles(t)
  <2>1. /\ at[t] = "eenter_cycles" /\ at'[t] = "eexit"
        /\ report'[t].eenter_count = report[t].eenter_count
        /\ report'[t].eenter_cycles = g_eenter_cycles
        /\ report'[t].eexit_count = report[t].eexit_count
        /\ report'[t].complete = report[t].complete
        /\ UNCHANGED <<g_eenter_count, g_eexit_count>>
    BY <1>0, <1>14 DEF GetEenterCycles, Goes, entry_stats, exit_stats, Report
  <2>2. Ent(at) \in Nat /\ Ent(at) <= Others
    BY <2>1, Bystanders DEF Ent
  <2>3. g_eenter_cycles >= g_eenter_count - Others
    BY <1>0, <1>a, <2>2 DEF Tally
  <2>4. report[t].eenter_count \in Nat
    BY <1>0 DEF Report
  <2> QED BY <1>0, <1>a, <2>1, <2>3, <2>4 DEF ReportInv, HasEntries, Leaving
<1>15. CASE GetEexitCount(t)
  <2>1. /\ at[t] = "eexit_count" /\ at'[t] = "eexit_cycles"
        /\ report'[t].eenter_count = report[t].eenter_count
        /\ report'[t].eenter_cycles = report[t].eenter_cycles
        /\ report'[t].eexit_count = g_eexit_count
        /\ report'[t].complete = report[t].complete
        /\ UNCHANGED <<g_eenter_count, g_eexit_count>>
    BY <1>0, <1>15 DEF GetEexitCount, Goes, entry_stats, exit_stats, Report
  <2>2. In(at) \in Nat /\ In(at) <= Others
    BY <2>1, Bystanders DEF In, Counted
  <2>3. g_eexit_count >= g_eenter_count - Others
    BY <1>0, <1>a, <2>2 DEF Tally
  <2>4. report[t].eenter_count \in Nat
    BY <1>0 DEF Report
  <2> QED BY <1>0, <1>a, <2>1, <2>3, <2>4 DEF ReportInv, HasEntries, Leaving
<1>16. CASE GetEexitCycles(t)
  <2>1. /\ at[t] = "eexit_cycles" /\ at'[t] = "app"
        /\ report'[t].eenter_count = report[t].eenter_count
        /\ report'[t].eenter_cycles = report[t].eenter_cycles
        /\ report'[t].eexit_count = report[t].eexit_count
        /\ report'[t].eexit_cycles = g_eexit_cycles
        /\ UNCHANGED <<g_eenter_count, g_eexit_count>>
    BY <1>0, <1>16 DEF GetEexitCycles, Goes, entry_stats, exit_stats, Report
  <2>2. Ext(at) \in Nat /\ Ext(at) <= Others
    BY <2>1, Bystanders DEF Ext
  <2>3. g_eexit_cycles >= g_eexit_count - Others
    BY <1>0, <1>a, <2>2 DEF Tally
  <2>4. report[t].eexit_count \in Nat
    BY <1>0 DEF Report
  <2> QED BY <1>0, <1>a, <2>1, <2>3, <2>4 DEF ReportInv, HasEntries, Leaving
<1> QED BY <1>1, <1>2, <1>3, <1>4, <1>5, <1>6, <1>7, <1>8, <1>9, <1>10, <1>11, <1>12, <1>13, <1>14, <1>15, <1>16 DEF Step

(* Only started threads move. *)
LEMMA NextQuiet == TypeOK /\ Quiet /\ [Next]_vars => Quiet'
<1> SUFFICES ASSUME TypeOK, Quiet, [Next]_vars PROVE Quiet'
  OBVIOUS
<1>1. CASE Next
  <2>1. PICK u \in active : Step(u) /\ UNCHANGED active
    BY <1>1 DEF Next
  <2>2. u \in Threads
    BY DEF TypeOK
  <2>3. \A t \in Threads \ {u} : at'[t] = at[t]
    BY <2>1, <2>2, StepMonotone
  <2> QED BY <2>1, <2>3 DEF Quiet
<1>2. CASE UNCHANGED vars
  BY <1>2 DEF vars, Quiet
<1> QED BY <1>1, <1>2

(* Every step keeps every report within its bound. *)
LEMMA NextReport ==
    TypeOK /\ TypeOK' /\ Tally /\ Quiet /\ (\A t \in Threads : ReportInv(t))
           /\ [Next]_vars
        => (\A t \in Threads : ReportInv(t))'
<1> SUFFICES ASSUME TypeOK, TypeOK', Tally, Quiet, \A t \in Threads : ReportInv(t),
                    [Next]_vars, NEW t \in Threads
             PROVE  ReportInv(t)'
  OBVIOUS
<1>1. CASE Next
  <2>1. PICK u \in active : Step(u) /\ UNCHANGED active
    BY <1>1 DEF Next
  <2>2. CASE u = t
    BY <2>1, <2>2, StepOwnReport
  <2>3. CASE u # t
    <3>0. u \in Threads /\ Others' = Others
      BY <2>1 DEF TypeOK, Others
    <3>1. /\ g_eenter_count' >= g_eenter_count /\ g_eexit_count' >= g_eexit_count
          /\ at'[t] = at[t] /\ cmd'[t] = cmd[t] /\ report'[t] = report[t]
      BY <2>1, <2>3, <3>0, StepMonotone
    <3>2. /\ g_eenter_count \in Nat /\ g_eenter_count' \in Nat
          /\ g_eexit_count \in Nat /\ g_eexit_count' \in Nat
          /\ report[t].eenter_count \in Nat /\ report[t].eexit_count \in Nat
      BY DEF TypeOK, Report
    <3> QED BY <3>0, <3>1, <3>2 DEF ReportInv, HasEntries, Leaving
  <2> QED BY <2>2, <2>3
<1>2. CASE UNCHANGED vars
  <2>1. Others' = Others
    BY <1>2 DEF vars, Others
  <2> QED BY <1>2, <2>1 DEF vars, entry_stats, exit_stats, ReportInv, HasEntries,
                            Leaving
<1> QED BY <1>1, <1>2

-----------------------------------------------------------------------------
(* What has been read may only be exceeded by what others have counted since: the
   counts by the crossings of others, the numbers read later by as much. *)
UpperInv(t) ==
    LET r == report[t] IN
    /\ Reading(t) => g_eenter_count <= r.eenter_count + meanwhile[t]
    /\ at[t] = "eexit_cycles" => g_eexit_count <= r.eexit_count + meanwhile[t]
    /\ HasEntries(t) \/ r.complete => r.eenter_cycles <= r.eenter_count + meanwhile[t]
    /\ at[t] = "eexit_cycles" \/ r.complete
           => r.eexit_count <= r.eenter_count + meanwhile[t]
    /\ r.complete => r.eexit_cycles <= r.eexit_count + meanwhile[t]

(* The cycles never overtake their counts, nor the exits the entries. *)
LEMMA TallyBounds ==
    ASSUME TypeOK, Tally
    PROVE  /\ g_eenter_cycles <= g_eenter_count
           /\ g_eexit_count <= g_eenter_count
           /\ g_eexit_cycles <= g_eexit_count
<1>1. \A S : Cardinality(Where(at, S)) \in Nat
  <2> TAKE S
  <2>1. IsFiniteSet(Where(at, S))
    BY ThreadsAssumption, FS_Subset DEF Where
  <2> QED BY <2>1, FS_CardinalityType
<1>2. In(at) \in Nat /\ Ent(at) \in Nat /\ Ext(at) \in Nat
  BY <1>1 DEF In, Ent, Ext
<1> QED BY <1>2 DEF Tally, TypeOK

(* A step of the reading thread itself keeps the counters where they were, or reads
   one that is no larger than the count read before it. *)
LEMMA StepOwnUpper ==
    ASSUME TypeOK, Tally, NEW t \in active, Step(t), Meanwhile(t), ReportInv(t),
           UpperInv(t)
    PROVE  UpperInv(t)'
<1>0. /\ at \in [Threads -> Locations]
      /\ cmd \in [Threads -> Commands]
      /\ t \in Threads
      /\ report \in [Threads -> Report] /\ report[t] \in Report
      /\ g_eenter_count \in Nat /\ g_eenter_cycles \in Nat
      /\ g_eexit_count \in Nat /\ g_eexit_cycles \in Nat
  BY DEF TypeOK
<1>b. /\ meanwhile[t] \in Nat
      /\ meanwhile'[t] = IF at[t] = "eenter_count" THEN 0 ELSE meanwhile[t]
  BY <1>0 DEF TypeOK, Meanwhile
<1>c. /\ report[t].eenter_count \in Nat /\ report[t].eenter_cycles \in Nat
      /\ report[t].eexit_count \in Nat /\ report[t].eexit_cycles \in Nat
  BY <1>0 DEF Report
<1>a. /\ g_eenter_cycles <= g_eenter_count
      /\ g_eexit_count <= g_eenter_count
      /\ g_eexit_cycles <= g_eexit_count
  BY TallyBounds
<1>1. CASE Ecall(t)
  BY <1>0, <1>b, <1>1
     DEF Ecall, Goes, UpperInv, ReportInv, HasEntries, Reading, Leaving, Report, NoReport,
         entry_stats, exit_stats
<1>2. CASE Eenter(t)
  BY <1>0, <1>b, <1>2
     DEF Eenter, Goes, UpperInv, ReportInv, HasEntries, Reading, Leaving, Report, NoReport,
         entry_stats, exit_stats
<1>3. CASE EntryCount(t)
  BY <1>0, <1>b, <1>3
     DEF EntryCount, Goes, UpperInv, ReportInv, HasEntries, Reading, Leaving, Report, NoReport,
         entry_stats, exit_stats
<1>4. CASE EntryCycles(t)
  BY <1>0, <1>b, <1>4
     DEF EntryCycles, Goes, UpperInv, ReportInv, HasEntries, Reading, Leaving, Report, NoReport,
         entry_stats, exit_stats
<1>5. CASE Ocall(t)
  BY <1>0, <1>b, <1>5
     DEF Ocall, Goes, UpperInv, ReportInv, HasEntries, Reading, Leaving, Report, NoReport,
         entry_stats, exit_stats
<1>6. CASE OcallReturn(t)
  BY <1>0, <1>b, <1>6
     DEF OcallReturn, Goes, UpperInv, ReportInv, HasEntries, Reading, Leaving, Report, NoReport,
         entry_stats, exit_stats
<1>7. CASE EcallReturn(t)
  BY <1>0, <1>b, <1>7
     DEF EcallReturn, Goes, UpperInv, ReportInv, HasEntries, Reading, Leaving, Report, NoReport,
         entry_stats, exit_stats
<1>8. CASE StatsEcall(t)
  BY <1>0, <1>b, <1>8
     DEF StatsEcall, Goes, UpperInv, ReportInv, HasEntries, Reading, Leaving, Report, NoReport,
         entry_stats, exit_stats
<1>9. CASE Eexit(t)
  BY <1>0, <1>b, <1>9
     DEF Eexit, Goes, UpperInv, ReportInv, HasEntries, Reading, Leaving, Report, NoReport,
         entry_stats, exit_stats
<1>10. CASE ExitCount(t)
  BY <1>0, <1>b, <1>10
     DEF ExitCount, Goes, UpperInv, ReportInv, HasEntries, Reading, Leaving, Report, NoReport,
         entry_stats, exit_stats
<1>11. CASE ExitCycles(t)
  BY <1>0, <1>b, <1>11
     DEF ExitCycles, Goes, UpperInv, ReportInv, HasEntries, Reading, Leaving, Report, NoReport,
         entry_stats, exit_stats
<1>12. CASE Dispatch(t)
  BY <1>0, <1>b, <1>12
     DEF Dispatch, UpperInv, ReportInv, HasEntries, Reading, Leaving, Report, NoReport,
         entry_stats, exit_stats
<1>13. CASE GetEenterCount(t)
  <2>1. /\ at[t] = "eenter_count" /\ at'[t] = "eenter_cycles"
        /\ report'[t].eenter_count = g_eenter_count
        /\ report'[t].eenter_cycles = report[t].eenter_cycles
        /\ report'[t].eexit_count = report[t].eexit_count
        /\ report'[t].eexit_cycles = report[t].eexit_cycles
        /\ report'[t].complete = report[t].complete
        /\ UNCHANGED <<g_eenter_count, g_eexit_count>>
    BY <1>0, <1>13 DEF GetEenterCount, Goes, entry_stats, exit_stats, Report
  <2> QED BY <1>0, <1>a, <1>b, <1>c, <2>1 DEF UpperInv, ReportInv, HasEntries, Reading, Leaving
<1>14. CASE GetEenterCycles(t)
  <2>1. /\ at[t] = "eenter_cycles" /\ at'[t] = "eexit"
        /\ report'[t].eenter_count = report[t].eenter_count
        /\ report'[t].eenter_cycles = g_eenter_cycles
        /\ report'[t].eexit_count = report[t].eexit_count
        /\ report'[t].eexit_cycles = report[t].eexit_cycles
        /\ report'[t].complete = report[t].complete
        /\ UNCHANGED <<g_eenter_count, g_eexit_count>>
    BY <1>0, <1>14 DEF GetEenterCycles, Goes, entry_stats, exit_stats, Report
  <2> QED BY <1>0, <1>a, <1>b, <1>c, <2>1 DEF UpperInv, ReportInv, HasEntries, Reading, Leaving
<1>15. CASE GetEexitCount(t)
  <2>1. /\ at[t] = "eexit_count" /\ at'[t] = "eexit_cycles"
        /\ report'[t].eenter_count = report[t].eenter_count
        /\ report'[t].eenter_cycles = report[t].eenter_cycles
        /\ report'[t].eexit_count = g_eexit_count
        /\ report'[t].eexit_cycles = report[t].eexit_cycles
        /\ report'[t].complete = report[t].complete
        /\ UNCHANGED <<g_eenter_count, g_eexit_count>>
    BY <1>0, <1>15 DEF GetEexitCount, Goes, entry_stats, exit_stats, Report
  <2> QED BY <1>0, <1>a, <1>b, <1>c, <2>1 DEF UpperInv, ReportInv, HasEntries, Reading, Leaving
<1>16. CASE GetEexitCycles(t)
  <2>1. /\ at[t] = "eexit_cycles" /\ at'[t] = "app"
        /\ report'[t].eenter_count = report[t].eenter_count
        /\ report'[t].eenter_cycles = report[t].eenter_cycles
        /\ report'[t].eexit_count = report[t].eexit_count
        /\ report'[t].eexit_cycles = g_eexit_cycles
        /\ UNCHANGED <<g_eenter_count, g_eexit_count>>
    BY <1>0, <1>16 DEF GetEexitCycles, Goes, entry_stats, exit_stats, Report
  <2> QED BY <1>0, <1>a, <1>b, <1>c, <2>1 DEF UpperInv, ReportInv, HasEntries, Reading, Leaving
<1> QED BY <1>1, <1>2, <1>3, <1>4, <1>5, <1>6, <1>7, <1>8, <1>9, <1>10, <1>11, <1>12, <1>13, <1>14, <1>15, <1>16 DEF Step

(* Another thread that counts a crossing is seen by whoever reads. *)
LEMMA StepOthersUpper ==
    ASSUME TypeOK, NEW t \in Threads, NEW u \in Threads, u # t, Step(u), Meanwhile(u)
    PROVE  /\ meanwhile[t] \in Nat /\ meanwhile'[t] \in Nat
           /\ meanwhile'[t] >= meanwhile[t]
           /\ Reading(t) =>
                  /\ g_eenter_count' - g_eenter_count <= meanwhile'[t] - meanwhile[t]
                  /\ g_eexit_count' - g_eexit_count <= meanwhile'[t] - meanwhile[t]
<1>1. /\ meanwhile[t] \in Nat
      /\ meanwhile'[t] = IF Reading(t) /\ at[u] \in {"entry_count", "exit_count"}
                           THEN meanwhile[t] + 1 ELSE meanwhile[t]
  BY DEF TypeOK, Meanwhile
<1>2. /\ g_eenter_count \in Nat /\ g_eexit_count \in Nat
      /\ g_eenter_count' = g_eenter_count + IF EntryCount(u) THEN 1 ELSE 0
      /\ g_eexit_count' = g_eexit_count + IF ExitCount(u) THEN 1 ELSE 0
  <2>1. CASE EntryCount(u)
    BY <2>1 DEF TypeOK, EntryCount, ExitCount, Goes, exit_stats
  <2>2. CASE ExitCount(u)
    BY <2>2 DEF TypeOK, EntryCount, ExitCount, Goes, entry_stats
  <2>3. CASE ~EntryCount(u) /\ ~ExitCount(u)
    BY <2>3 DEF TypeOK, Step, Ecall, Eenter, EntryCycles, Ocall, OcallReturn,
                EcallReturn, StatsEcall, GetEenterCount, GetEenterCycles, Eexit,
                ExitCycles, Dispatch, GetEexitCount, GetEexitCycles, entry_stats,
                exit_stats
  <2> QED BY <2>1, <2>2, <2>3
<1>3. /\ EntryCount(u) => at[u] = "entry_count"
      /\ ExitCount(u) => at[u] = "exit_count"
  BY DEF EntryCount, ExitCount, Goes
<1> QED BY <1>1, <1>2, <1>3

(* Every step keeps every report under its bound. *)
LEMMA NextUpper ==
    TypeOK /\ Tally /\ (\A t \in Threads : ReportInv(t))
           /\ (\A t \in Threads : UpperInv(t)) /\ [Next]_vars
        => (\A t \in Threads : UpperInv(t))'
<1> SUFFICES ASSUME TypeOK, Tally, \A t \in Threads : ReportInv(t),
                    \A t \in Threads : UpperInv(t), [Next]_vars, NEW t \in Threads
             PROVE  UpperInv(t)'
  OBVIOUS
<1>1. CASE Next
  <2>1. PICK u \in active : Step(u) /\ Meanwhile(u)
    BY <1>1 DEF Next
  <2>2. CASE u = t
    BY <2>1, <2>2, StepOwnUpper
  <2>3. CASE u # t
    <3>0. u \in Threads
      BY DEF TypeOK
    <3>1. at'[t] = at[t] /\ cmd'[t] = cmd[t] /\ report'[t] = report[t]
      BY <2>1, <2>3, <3>0, StepMonotone
    <3>2. /\ g_eenter_count \in Nat /\ g_eexit_count \in Nat
          /\ g_eenter_count' >= g_eenter_count /\ g_eexit_count' >= g_eexit_count
          /\ g_eenter_count' \in Int /\ g_eexit_count' \in Int
      <4>1. g_eenter_count' \in Int /\ g_eexit_count' \in Int
        BY <2>1, <3>0, StepType, <1>1 DEF TypeOK, Next
      <4> QED BY <2>1, <3>0, <4>1, StepMonotone DEF TypeOK
    <3>3. /\ report[t].eenter_count \in Nat /\ report[t].eenter_cycles \in Nat
          /\ report[t].eexit_count \in Nat /\ report[t].eexit_cycles \in Nat
      BY DEF TypeOK, Report
    <3>4. /\ meanwhile[t] \in Nat /\ meanwhile'[t] \in Nat
          /\ meanwhile'[t] >= meanwhile[t]
          /\ Reading(t) =>
                 /\ g_eenter_count' - g_eenter_count <= meanwhile'[t] - meanwhile[t]
                 /\ g_eexit_count' - g_eexit_count <= meanwhile'[t] - meanwhile[t]
      BY <2>1, <2>3, <3>0, StepOthersUpper
    <3> QED BY <3>1, <3>2, <3>3, <3>4 DEF UpperInv, HasEntries, Reading, Leaving
  <2> QED BY <2>2, <2>3
<1>2. CASE UNCHANGED vars
  BY <1>2 DEF vars, entry_stats, exit_stats, UpperInv, HasEntries, Reading, Leaving
<1> QED BY <1>1, <1>2

(* What a reader is told is short of the counts by at most the other threads that were
   started, and exceeds them by at most what these counted while it was reading. *)
THEOREM ReportsAreWithin == Spec => []ReportWithin
<1>1. Init => /\ Quiet /\ (\A t \in Threads : ReportInv(t))
              /\ (\A t \in Threads : UpperInv(t))
  BY DEF Init, Quiet, ReportInv, UpperInv, HasEntries, Reading, Leaving, NoReport
<1>2. TypeOK /\ (\A t \in Threads : ReportInv(t)) /\ (\A t \in Threads : UpperInv(t))
        => ReportWithin
  <2> SUFFICES ASSUME TypeOK, NEW t \in Threads, ReportInv(t), UpperInv(t),
                      report[t].complete
               PROVE  LET r == report[t] IN
                      /\ r.eexit_count - r.eenter_count \in -Others .. meanwhile[t]
                      /\ r.eenter_cycles - r.eenter_count \in -Others .. meanwhile[t]
                      /\ r.eexit_cycles - r.eexit_count \in -Others .. meanwhile[t]
    BY DEF ReportWithin, Others
  <2>1. /\ report[t].eenter_count \in Nat /\ report[t].eenter_cycles \in Nat
        /\ report[t].eexit_count \in Nat /\ report[t].eexit_cycles \in Nat
        /\ meanwhile[t] \in Nat
    BY DEF TypeOK, Report
  <2>2. Others \in Int
    <3>1. IsFiniteSet(active)
      BY ThreadsAssumption, FS_Subset DEF TypeOK
    <3> QED BY <3>1, FS_CardinalityType DEF Others
  <2> QED BY <2>1, <2>2 DEF ReportInv, UpperInv
<1> QED BY <1>1, <1>2, NextReport, NextQuiet, NextUpper, TypeCorrect, TallyAlways, PTL
        DEF Spec

-----------------------------------------------------------------------------
(* What the only thread that was started is told. *)

Alone == Cardinality(active) = 1

(* Nobody counts a crossing while the only thread reads. *)
Unseen == Alone => \A t \in Threads : meanwhile[t] = 0

(* Only started threads move, and no step of the only one is another's. *)
LEMMA NextUnseen == TypeOK /\ Quiet /\ Unseen /\ [Next]_vars => Unseen'
<1> SUFFICES ASSUME TypeOK, Quiet, Unseen, [Next]_vars, Alone', NEW t \in Threads
             PROVE  meanwhile'[t] = 0
  BY DEF Unseen
<1>0. Alone /\ meanwhile[t] = 0
  BY DEF Next, vars, Alone, Unseen
<1>1. CASE Next
  <2>1. PICK u \in active : Meanwhile(u)
    BY <1>1 DEF Next
  <2>2. CASE u = t
    BY <1>0, <2>1, <2>2 DEF Meanwhile
  <2>3. CASE u # t
    <3>1. IsFiniteSet(active)
      BY ThreadsAssumption, FS_Subset DEF TypeOK
    <3>2. PICK v : active = {v}
      BY <1>0, <3>1, FS_Singleton DEF Alone
    <3>3. at[t] = "app"
      BY <2>1, <2>3, <3>2 DEF Quiet
    <3> QED BY <1>0, <2>1, <2>3, <3>3 DEF Meanwhile, Reading, Leaving
  <2> QED BY <2>2, <2>3
<1>2. CASE UNCHANGED vars
  BY <1>0, <1>2 DEF vars
<1> QED BY <1>1, <1>2

(* A single thread, as the benchmark's App is, reads as many exits as entries and
   all their cycles. *)
THEOREM ReportsAloneAreExact == Spec => []ReportAlone
<1>1. Init => Quiet /\ Unseen
  BY DEF Init, Quiet, Unseen
<1>2. TypeOK /\ ReportWithin /\ Unseen => ReportAlone
  <2> SUFFICES ASSUME TypeOK, ReportWithin, Unseen, Alone,
                      NEW t \in Threads, report[t].complete
               PROVE  /\ report[t].eexit_count = report[t].eenter_count
                      /\ report[t].eenter_cycles = report[t].eenter_count
                      /\ report[t].eexit_cycles = report[t].eexit_count
    BY DEF ReportAlone, Alone
  <2>1. /\ report[t].eenter_count \in Nat /\ report[t].eenter_cycles \in Nat
        /\ report[t].eexit_count \in Nat /\ report[t].eexit_cycles \in Nat
    BY DEF TypeOK, Report
  <2>2. Cardinality(active) = 1 /\ meanwhile[t] = 0
    BY DEF Alone, Unseen
  <2>3. /\ report[t].eexit_count - report[t].eenter_count \in -(1 - 1) .. 0
        /\ report[t].eenter_cycles - report[t].eenter_count \in -(1 - 1) .. 0
        /\ report[t].eexit_cycles - report[t].eexit_count \in -(1 - 1) .. 0
    BY <2>2 DEF ReportWithin
  <2> QED BY ONLY <2>1, <2>3
<1> QED BY <1>1, <1>2, NextQuiet, NextUnseen, ReportsAreWithin, TypeCorrect, PTL DEF Spec
=============================================================================
