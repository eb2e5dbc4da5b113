------------------------------- MODULE Paging -------------------------------
(* mprotect of the P-Enclave (paging.h): the loop over the pages of a range, the
   four-level walk for each of them and the write of the leaf entry.

   PGSIZE and FANOUT (512 entries a table) are parameters; an address is a number
   below VSize, the canonical ones in order, so that the last page is the one
   whose end is address 0 again.  Tables are numbers from 1; the walk yields 0
   for NULL and -1 where next_table aborts. *)
EXTENDS Integers

CONSTANTS
    PGSIZE,
    FANOUT,
    Tables,     \* numbers of the tables RustMonitor allocated
    Frames,     \* numbers of the pages it mapped
    Memories,   \* the contents those tables may have
    MaxCalls    \* bound: calls of mprotect in a run

ASSUME SizesAssumption ==
    /\ PGSIZE \in Nat \ {0}
    /\ FANOUT \in Nat \ {0}
    /\ Tables \subseteq Nat \ {0}
    /\ MaxCalls \in Nat

Indices == 0 .. FANOUT - 1
Flags   == {"P", "W", "PS"}
PTE     == [addr : Tables \union Frames, flags : SUBSET Flags]

Leads(pte) == "P" \in pte.flags /\ "PS" \notin pte.flags

(* The tables hang in four levels below number 1, and none is used at two of them:
   RustMonitor maps no table as a page of its own enclave. *)
Levelled(m, level) ==
    /\ level[1] = 4
    /\ \A t \in Tables, i \in Indices :
           level[t] > 1 /\ Leads(m[t][i]) =>
               m[t][i].addr \in Tables /\ level[m[t][i].addr] = level[t] - 1

FourLevels(m) == \E level \in [Tables -> 1 .. 4] : Levelled(m, level)

ASSUME MemoriesAssumption ==
    /\ 1 \in Tables
    /\ Memories \subseteq [Tables -> [Indices -> PTE]]
    /\ \A m \in Memories : FourLevels(m)

(* What one entry of each level maps, from a page upwards. *)
Span == <<PGSIZE, PGSIZE * FANOUT, PGSIZE * FANOUT * FANOUT,
          PGSIZE * FANOUT * FANOUT * FANOUT>>

VSize == Span[4] * FANOUT
Addresses == 0 .. VSize - 1

NULL  == 0
ABORT == -1

VARIABLES
    pc,             \* "idle", "loop" or "aborted"
    calls,
    g_cached_cr3,
    mem,
    start_vaddr, end_vaddr, flags,  \* of the current call
    ret,            \* what the last call returned
    addr, len,      \* history: arguments of the current or last call
    mem0            \* history: the tables when it began

vars == <<pc, calls, g_cached_cr3, mem, start_vaddr, end_vaddr, flags, ret, addr,
          len, mem0>>

Init ==
    /\ pc = "idle"
    /\ calls = 0
    /\ g_cached_cr3 = 1
    /\ mem \in Memories
    /\ start_vaddr = 0
    /\ end_vaddr = 0
    /\ flags = {}
    /\ ret = 0
    /\ addr = 0
    /\ len = 0
    /\ mem0 = mem

-----------------------------------------------------------------------------
(* Mutant: P2_IDX shifts by as much as P3_IDX. *)
IdxSharedShift(level, vaddr) ==
    (vaddr \div Span[IF level = 2 THEN 3 ELSE level]) % FANOUT

(* P4_IDX .. P1_IDX *)
Idx(level, vaddr) == (vaddr \div Span[level]) % FANOUT

next_table(pte) ==
    IF "P" \notin pte.flags THEN NULL
    ELSE IF "PS" \in pte.flags THEN ABORT
    ELSE pte.addr

(* One line of get_entry; NULL and the abort are where the walk ends. *)
Descend(table, level, vaddr) ==
    IF table \in {NULL, ABORT} THEN table ELSE next_table(mem[table][Idx(level, vaddr)])

(* Where get_entry finds p1, or why it finds none. *)
LastTable(vaddr) ==
    LET p3 == Descend(g_cached_cr3, 4, vaddr)
        p2 == Descend(p3, 3, vaddr)
    IN Descend(p2, 2, vaddr)

Aligned(a, l) == a % PGSIZE = 0 /\ l % PGSIZE = 0

Reject(a, l) ==
    /\ ~Aligned(a, l)
    /\ ret' = -1
    /\ UNCHANGED <<pc, start_vaddr, end_vaddr>>

Accept(a, l) ==
    /\ Aligned(a, l)
    /\ start_vaddr' = a
    /\ end_vaddr' = (a + l) % VSize
    /\ pc' = "loop"
    /\ UNCHANGED ret

(* A call with any range, and the flags of one of the two callers. *)
Call ==
    /\ pc = "idle"
    /\ calls < MaxCalls
    /\ calls' = calls + 1
    /\ \E a \in Addresses, l \in 0 .. VSize - 1, f \in {{"P"}, {"P", "W"}} :
           /\ addr' = a
           /\ len' = l
           /\ flags' = f
           /\ Reject(a, l) \/ Accept(a, l)
    /\ mem0' = mem
    /\ UNCHANGED <<g_cached_cr3, mem>>

(* *pte = PTE_ADDR( *pte) | flags *)
Write(table, index) == mem' = [mem EXCEPT ![table][index].flags = flags]

(* mprotect_page, its -1 for an unmapped page dropped by the loop. *)
ProtectPage ==
    /\ pc = "loop"
    /\ start_vaddr < end_vaddr
    /\ LET p1 == LastTable(start_vaddr) IN
         IF p1 = ABORT
           THEN pc' = "aborted" /\ UNCHANGED <<mem, start_vaddr>>
           ELSE /\ IF p1 = NULL THEN UNCHANGED mem
                                ELSE Write(p1, Idx(1, start_vaddr))
                /\ start_vaddr' = start_vaddr + PGSIZE
                /\ UNCHANGED pc
    /\ UNCHANGED <<calls, g_cached_cr3, end_vaddr, flags, ret, addr, len, mem0>>

(* Mutant: the loop ends one page early. *)
ReturnEarly ==
    /\ pc = "loop"
    /\ start_vaddr + PGSIZE >= end_vaddr
    /\ pc' = "idle"
    /\ ret' = 0
    /\ UNCHANGED <<calls, g_cached_cr3, mem, start_vaddr, end_vaddr, flags, addr,
                   len, mem0>>

Return ==
    /\ pc = "loop"
    /\ start_vaddr >= end_vaddr
    /\ pc' = "idle"
    /\ ret' = 0
    /\ UNCHANGED <<calls, g_cached_cr3, mem, start_vaddr, end_vaddr, flags, addr,
                   len, mem0>>

Next == Call \/ ProtectPage \/ Return

Spec == Init /\ [][Next]_vars

-----------------------------------------------------------------------------
(* Properties.  What an address means is stated without the code's shifts: four
   indices and an offset that add up to it. *)

Paths == Indices \X Indices \X Indices \X Indices

AddressOf(i) == (((i[1] * FANOUT + i[2]) * FANOUT + i[3]) * FANOUT + i[4]) * PGSIZE

(* The entries of memory m that lead to the leaf of a path, from the root on. *)
P4E(m, i) == m[1][i[1]]
P3E(m, i) == m[P4E(m, i).addr][i[2]]
P2E(m, i) == m[P3E(m, i).addr][i[3]]

HasLeaf(m, i) == Leads(P4E(m, i)) /\ Leads(P3E(m, i)) /\ Leads(P2E(m, i))

(* The pages of memory m that have a leaf entry, each with its place. *)
Mapping(m) ==
    {<<AddressOf(i), P2E(m, i).addr, i[4]>> : i \in {j \in Paths : HasLeaf(m, j)}}

(* The pages of the call handled so far.  A range that reaches the end of the
   address space has an end that wrapped to 0 and is handled as if it were empty. *)
Covered == {slot \in Mapping(mem0) : addr <= slot[1] /\ slot[1] < start_vaddr}

(* At every step of a call, the entries that differ from those at its start are
   the leaves of pages between addr and the loop's position, these have exactly
   the new flags, and no entry lost the address it held; nothing else in any
   table was written, upper levels included. *)
ExactlyTheLeaves ==
    pc \in {"loop", "aborted"} =>
        mem = [t \in Tables |-> [i \in Indices |->
                  IF \E slot \in Covered : slot[2] = t /\ slot[3] = i
                    THEN [mem0[t][i] EXCEPT !.flags = flags]
                    ELSE mem0[t][i]]]

IsLarge(pte) == {"P", "PS"} \subseteq pte.flags

(* The walk of a path through memory m meets an entry of a large page. *)
MeetsLarge(m, i) ==
    \/ IsLarge(P4E(m, i))
    \/ Leads(P4E(m, i)) /\ IsLarge(P3E(m, i))
    \/ Leads(P4E(m, i)) /\ Leads(P3E(m, i)) /\ IsLarge(P2E(m, i))

UnderLarge(v) == \E i \in Paths : v = AddressOf(i) /\ MeetsLarge(mem0, i)

(* mprotect says 0 only when every mapped page of the range has the flags, and -1
   only when it touched nothing.  It does not say that every page is mapped.  The
   program is aborted at the first page of the range under a large page, and nowhere
   else: an absent table is passed over. *)
ReturnMeans ==
    /\ pc = "idle" /\ calls > 0 =>
        IF Aligned(addr, len)
          THEN /\ ret = 0
               /\ addr + len < VSize =>
                    \A slot \in Mapping(mem0) :
                        addr <= slot[1] /\ slot[1] < addr + len
                            => mem[slot[2]][slot[3]].flags = flags
          ELSE ret = -1 /\ mem = mem0
    /\ pc = "aborted" => UnderLarge(start_vaddr)
    /\ pc = "loop" => \A v \in addr .. start_vaddr - 1 : ~UnderLarge(v)
=============================================================================
