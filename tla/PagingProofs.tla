--------------------------- MODULE PagingProofs ----------------------------
(* Proofs about Paging, for every page size, fan-out, number of calls and
   content of the tables. *)
EXTENDS Paging, TLAPS

USE SizesAssumption, MemoriesAssumption

-----------------------------------------------------------------------------
(* Arithmetic of the walk. *)

(* A number is its quotient and its remainder put together. *)
LEMMA DivMod ==
    \A n \in Nat : \A d \in Nat \ {0} : \A q : \A r :
        q = n \div d /\ r = n % d =>
            q \in Nat /\ r \in 0 .. d - 1 /\ n = q * d + r
  OBVIOUS

(* n has the last digit r to the base d, after those of q. *)
Digits(n, q, d, r) == n \in Int /\ q \in Nat /\ r \in 0 .. d - 1 /\ n = q * d + r

(* Quotient and remainder are the only numbers that do. *)
LEMMA DivUnique ==
    \A d \in Nat \ {0} : \A n, q, r :
        Digits(n, q, d, r) => n \div d = q /\ n % d = r
  BY DEF Digits

(* Two divisions are one by the product. *)
LEMMA DivDiv ==
    \A n \in Nat : \A a \in Nat \ {0} : \A b \in Nat \ {0} : \A c : \A q :
        c = a * b /\ q = n \div a => q \div b = n \div c
  OBVIOUS

(* A product of numbers above 0 is above 0. *)
LEMMA Product ==
    \A a \in Nat \ {0}, b \in Nat \ {0} : a * b \in Nat \ {0}
  OBVIOUS

(* Of a number below a product, the quotient is below the other factor. *)
LEMMA DivBound ==
    \A n \in Nat : \A a \in Nat \ {0} : \A b \in Nat \ {0} : \A q :
        n < a * b /\ q = n \div a => q \in 0 .. b - 1
  OBVIOUS

(* A two-digit number is below the product of the bases. *)
LEMMA DigitBound ==
    \A d \in Nat \ {0} : \A b \in Nat : \A q \in 0 .. b - 1 : \A r \in 0 .. d - 1 :
        \A n : n = q * d + r => n \in 0 .. b * d - 1
<1> TAKE d \in Nat \ {0}
<1> TAKE b \in Nat
<1> TAKE q \in 0 .. b - 1
<1> TAKE r \in 0 .. d - 1
<1> TAKE n
<1> HAVE n = q * d + r
<1>1. PICK c \in Nat : b = q + 1 + c
  <2>1. b - q - 1 \in Nat /\ b = q + 1 + (b - q - 1)
    OBVIOUS
  <2> QED
    BY ONLY <2>1
<1>2. q * d \in Nat /\ c * d \in Nat /\ q \in Nat
    OBVIOUS
<1>3. b * d = q * d + d + c * d
    BY <1>1, <1>2
<1> QED
    BY ONLY <1>2, <1>3, n = q * d + r, d \in Nat \ {0}, r \in 0 .. d - 1

(* Order of multiples. *)
LEMMA MultipleOrder ==
    \A d \in Nat \ {0} : \A a \in Nat : \A b \in Nat : \A v : \A s :
        v = a * d /\ s = b * d =>
            /\ v < s + d => v <= s
            /\ s + d = (b + 1) * d
<1> TAKE d \in Nat \ {0}
<1> TAKE a \in Nat
<1> TAKE b \in Nat
<1> TAKE v, s
<1> HAVE v = a * d /\ s = b * d
<1>1. s + d = (b + 1) * d
    OBVIOUS
<1>2. ASSUME a > b PROVE v >= s + d
    BY <1>1, <1>2
<1>3. v \in Int /\ s \in Int
    OBVIOUS
<1>4. a <= b => v <= s
    OBVIOUS
<1> QED
    BY <1>1, <1>2, <1>3, <1>4

(* A multiple of d that is below the next one after another is at most that one. *)
LEMMA NextMultiple ==
    \A v \in Nat, s \in Nat, d \in Nat \ {0} :
        v % d = 0 /\ s % d = 0 =>
            /\ v < s + d => v <= s
            /\ (s + d) % d = 0
<1> TAKE v \in Nat, s \in Nat, d \in Nat \ {0}
<1> HAVE v % d = 0 /\ s % d = 0
<1>1. PICK a \in Nat : v = a * d
  <2>1. v \div d \in Nat /\ v = (v \div d) * d
    OBVIOUS
  <2> QED
    BY <2>1
<1>2. PICK b \in Nat : s = b * d
  <2>1. s \div d \in Nat /\ s = (s \div d) * d
    OBVIOUS
  <2> QED
    BY <2>1
<1>3. v < s + d => v <= s
    BY <1>1, <1>2, MultipleOrder
<1>4. s + d = (b + 1) * d + 0
    BY <1>1, <1>2, MultipleOrder
<1>5. (s + d) % d = 0
  <2>1. PICK c \in Nat : c = b + 1
    OBVIOUS
  <2>2. s + d = c * d + 0 /\ 0 \in 0 .. d - 1 /\ s + d \in Int
    BY <1>4, <2>1
  <2>3. Digits(s + d, c, d, 0)
    BY ONLY <2>2, c \in Nat DEF Digits
  <2> QED
    BY ONLY <2>3, d \in Nat \ {0}, DivUnique
<1> QED
    BY <1>3, <1>5

-----------------------------------------------------------------------------
(* The walk's indices and AddressOf. *)

(* The four indices get_entry takes out of an address. *)
PathOf(v) == <<Idx(4, v), Idx(3, v), Idx(2, v), Idx(1, v)>>

(* What an entry of each level maps is a number of bytes. *)
LEMMA Spans ==
    /\ Span[1] = PGSIZE /\ Span[2] = Span[1] * FANOUT
    /\ Span[3] = Span[2] * FANOUT /\ Span[4] = Span[3] * FANOUT
    /\ \A k \in 1 .. 4 : Span[k] \in Nat \ {0}
    /\ VSize \in Nat \ {0}
<1>1. /\ Span[1] = PGSIZE /\ Span[2] = PGSIZE * FANOUT
      /\ Span[3] = PGSIZE * FANOUT * FANOUT
      /\ Span[4] = PGSIZE * FANOUT * FANOUT * FANOUT
    BY DEF Span
<1>2. Span[1] \in Nat \ {0} /\ Span[2] \in Nat \ {0}
    BY <1>1, Product
<1>3. Span[3] \in Nat \ {0}
    BY <1>1, <1>2, Product
<1>4. Span[4] \in Nat \ {0}
    BY <1>1, <1>3, Product
<1>5. VSize \in Nat \ {0}
    BY <1>4, Product DEF VSize
<1> QED
    BY <1>1, <1>2, <1>3, <1>4, <1>5

(* One level further is one division by the fan-out further. *)
LEMMA SpanDiv ==
    \A v \in Nat, k \in 1 .. 3 : v \div Span[k + 1] = (v \div Span[k]) \div FANOUT
<1> TAKE v \in Nat, k \in 1 .. 3
<1> DEFINE a == Span[k]
           d == Span[k + 1]
<1>1. a \in Nat \ {0} /\ d \in Nat \ {0} /\ d = a * FANOUT
    BY Spans
<1> HIDE DEF a, d
<1>2. v \div d = (v \div a) \div FANOUT
    BY <1>1
<1> QED
    BY <1>2 DEF a, d

(* An address at a page boundary is the address of the path get_entry walks. *)
LEMMA PathOfPage ==
    \A v \in Addresses :
        v % PGSIZE = 0 => PathOf(v) \in Paths /\ AddressOf(PathOf(v)) = v
<1> TAKE v \in Addresses
<1> HAVE v % PGSIZE = 0
<1>1. v \in Nat /\ v < Span[4] * FANOUT
    BY Spans DEF Addresses, VSize
<1> DEFINE q(k) == v \div Span[k]
<1>2. \A k \in 1 .. 4 : q(k) \in Nat
    BY ONLY <1>1, Spans, DivMod, SizesAssumption
<1>3. q(2) = q(1) \div FANOUT /\ q(3) = q(2) \div FANOUT /\ q(4) = q(3) \div FANOUT
  <2>1. 1 + 1 = 2 /\ 2 + 1 = 3 /\ 3 + 1 = 4
    OBVIOUS
  <2> QED
    BY <1>1, <2>1, SpanDiv
<1>4. \A k \in 1 .. 4 : Idx(k, v) = q(k) % FANOUT
    BY DEF Idx
<1>5. q(4) < FANOUT
    BY ONLY <1>1, Spans, DivBound, SizesAssumption
<1> HIDE DEF q
<1>6. \A k \in 1 .. 4 : Idx(k, v) \in Indices
  <2> TAKE k \in 1 .. 4
  <2>1. q(k) \in Nat /\ Idx(k, v) = q(k) % FANOUT
    BY ONLY <1>2, <1>4, k \in 1 .. 4
  <2>2. Idx(k, v) \in 0 .. FANOUT - 1
    BY ONLY <2>1, FANOUT \in Nat \ {0}, DivMod
  <2> QED
    BY ONLY <2>2 DEF Indices
<1>7. q(1) = q(2) * FANOUT + Idx(1, v)
  <2>1. /\ q(1) \in Nat /\ q(2) = q(1) \div FANOUT
        /\ Idx(1, v) = q(1) % FANOUT
    BY <1>2, <1>3, <1>4
  <2> QED
    BY ONLY <2>1, FANOUT \in Nat \ {0}, DivMod
<1>8. q(2) = q(3) * FANOUT + Idx(2, v)
  <2>1. /\ q(2) \in Nat /\ q(3) = q(2) \div FANOUT
        /\ Idx(2, v) = q(2) % FANOUT
    BY <1>2, <1>3, <1>4
  <2> QED
    BY ONLY <2>1, FANOUT \in Nat \ {0}, DivMod
<1>9. q(3) = q(4) * FANOUT + Idx(3, v)
  <2>1. /\ q(3) \in Nat /\ q(4) = q(3) \div FANOUT
        /\ Idx(3, v) = q(3) % FANOUT
    BY <1>2, <1>3, <1>4
  <2> QED
    BY ONLY <2>1, FANOUT \in Nat \ {0}, DivMod
<1>10. q(4) = Idx(4, v)
  <2>1. q(4) = 0 * FANOUT + q(4) /\ q(4) \in 0 .. FANOUT - 1 /\ q(4) \in Int /\ 0 \in Nat
    BY <1>2, <1>5
  <2>2. Digits(q(4), 0, FANOUT, q(4))
    BY ONLY <2>1 DEF Digits
  <2>3. q(4) % FANOUT = q(4)
    BY ONLY <2>2, FANOUT \in Nat \ {0}, DivUnique
  <2> QED
    BY <1>4, <2>3
<1>11. v = q(1) * PGSIZE
    BY <1>1, Spans, DivMod DEF q
<1>12. PathOf(v) \in Paths
    BY <1>6 DEF PathOf, Paths
<1>13. AddressOf(PathOf(v)) = v
    BY <1>7, <1>8, <1>9, <1>10, <1>11 DEF AddressOf, PathOf
<1> QED
    BY <1>12, <1>13

(* And the address of a path is a page boundary whose walk is that path. *)
LEMMA PageOfPath ==
    \A i \in Paths :
        /\ AddressOf(i) \in Addresses
        /\ AddressOf(i) % PGSIZE = 0
        /\ PathOf(AddressOf(i)) = i
<1> TAKE i \in Paths
<1> DEFINE b4 == i[1]
           b3 == b4 * FANOUT + i[2]
           b2 == b3 * FANOUT + i[3]
           b1 == b2 * FANOUT + i[4]
           v  == AddressOf(i)
<1>1. \A k \in 1 .. 4 : i[k] \in 0 .. FANOUT - 1
    BY DEF Paths, Indices
<1>2. v = b1 * PGSIZE
    BY DEF AddressOf
<1>3. i = <<i[1], i[2], i[3], i[4]>>
    BY DEF Paths
<1>d. /\ b3 = b4 * FANOUT + i[2] /\ b2 = b3 * FANOUT + i[3]
      /\ b1 = b2 * FANOUT + i[4] /\ b4 = i[1]
    OBVIOUS
<1> HIDE DEF b4, b3, b2, b1, v
<1>4. b4 \in 0 .. FANOUT - 1
    BY <1>1, <1>d
<1>5. b3 \in 0 .. FANOUT * FANOUT - 1
  <2>1. b3 = b4 * FANOUT + i[2] /\ i[2] \in 0 .. FANOUT - 1 /\ FANOUT \in Nat
    BY <1>1, <1>d
  <2> QED
    BY ONLY <2>1, <1>4, FANOUT \in Nat \ {0}, DigitBound
<1>6. b2 \in 0 .. (FANOUT * FANOUT) * FANOUT - 1
  <2>1. FANOUT * FANOUT \in Nat
    BY Product
  <2> QED
    BY ONLY <2>1, <1>1, <1>5, <1>d, DigitBound, SizesAssumption
<1>7. b1 \in 0 .. ((FANOUT * FANOUT) * FANOUT) * FANOUT - 1
  <2>1. FANOUT * FANOUT * FANOUT \in Nat
    BY Product
  <2> QED
    BY ONLY <2>1, <1>1, <1>6, <1>d, DigitBound, SizesAssumption
<1>8. v \in 0 .. (((FANOUT * FANOUT) * FANOUT) * FANOUT) * PGSIZE - 1
  <2>1. FANOUT * FANOUT * FANOUT * FANOUT \in Nat
    BY Product
  <2>2. v = b1 * PGSIZE + 0
    BY <1>2, <1>7
  <2> QED
    BY ONLY <2>1, <2>2, <1>7, DigitBound, SizesAssumption
<1>9. v \in Addresses
  <2>1. VSize = (((FANOUT * FANOUT) * FANOUT) * FANOUT) * PGSIZE
    BY DEF VSize, Span
  <2> QED
    BY <1>8, <2>1 DEF Addresses
<1>10. v % PGSIZE = 0 /\ v \div Span[1] = b1
  <2> USE Spans
  <2>1. v = b1 * PGSIZE + 0 /\ b1 \in Nat /\ v \in Int /\ 0 \in 0 .. PGSIZE - 1
    BY <1>2, <1>7
  <2>2. Digits(v, b1, PGSIZE, 0)
    BY ONLY <2>1 DEF Digits
  <2>3. v % PGSIZE = 0 /\ v \div PGSIZE = b1
    BY ONLY <2>2, PGSIZE \in Nat \ {0}, DivUnique
  <2> QED
    BY ONLY <2>3, Span[1] = PGSIZE
<1>11. b1 \div FANOUT = b2 /\ b1 % FANOUT = i[4]
  <2>1. /\ b2 \in Nat /\ b1 \in Int /\ i[4] \in 0 .. FANOUT - 1
        /\ b1 = b2 * FANOUT + i[4]
    BY <1>1, <1>6, <1>7, <1>d
  <2>2. Digits(b1, b2, FANOUT, i[4])
    BY ONLY <2>1 DEF Digits
  <2> QED
    BY ONLY <2>2, FANOUT \in Nat \ {0}, DivUnique
<1>12. b2 \div FANOUT = b3 /\ b2 % FANOUT = i[3]
  <2>1. /\ b3 \in Nat /\ b2 \in Int /\ i[3] \in 0 .. FANOUT - 1
        /\ b2 = b3 * FANOUT + i[3]
    BY <1>1, <1>5, <1>6, <1>d
  <2>2. Digits(b2, b3, FANOUT, i[3])
    BY ONLY <2>1 DEF Digits
  <2> QED
    BY ONLY <2>2, FANOUT \in Nat \ {0}, DivUnique
<1>13. b3 \div FANOUT = b4 /\ b3 % FANOUT = i[2]
  <2>1. /\ b4 \in Nat /\ b3 \in Int /\ i[2] \in 0 .. FANOUT - 1
        /\ b3 = b4 * FANOUT + i[2]
    BY <1>1, <1>4, <1>5, <1>d
  <2>2. Digits(b3, b4, FANOUT, i[2])
    BY ONLY <2>1 DEF Digits
  <2> QED
    BY ONLY <2>2, FANOUT \in Nat \ {0}, DivUnique
<1>14. b4 % FANOUT = i[1]
  <2>1. b4 \in Int /\ b4 \in 0 .. FANOUT - 1 /\ b4 = 0 * FANOUT + b4 /\ 0 \in Nat
    BY <1>4
  <2>2. Digits(b4, 0, FANOUT, b4)
    BY ONLY <2>1 DEF Digits
  <2>3. b4 % FANOUT = b4
    BY ONLY <2>2, FANOUT \in Nat \ {0}, DivUnique
  <2> QED
    BY <2>3, <1>d
<1>15. v \div Span[2] = b2 /\ v \div Span[3] = b3 /\ v \div Span[4] = b4
  <2>1. 1 + 1 = 2 /\ 2 + 1 = 3 /\ 3 + 1 = 4 /\ v \in Nat
    BY <1>8
  <2> QED
    BY <1>10, <1>11, <1>12, <1>13, <2>1, SpanDiv
<1>16. PathOf(v) = i
    BY <1>3, <1>10, <1>11, <1>12, <1>13, <1>14, <1>15 DEF PathOf, Idx
<1> QED
    BY <1>9, <1>10, <1>16 DEF v

(* Different paths have different addresses. *)
LEMMA OnePath ==
    \A i, j \in Paths : AddressOf(i) = AddressOf(j) => i = j
  BY PageOfPath

(* A path ends at a page boundary, so the only one within a page starts it. *)
LEMMA OnePerPage ==
    \A s \in Nat, j \in Paths :
        s % PGSIZE = 0 /\ s <= AddressOf(j) /\ AddressOf(j) < s + PGSIZE
            => AddressOf(j) = s
<1> TAKE s \in Nat, j \in Paths
<1>1. AddressOf(j) \in Nat /\ AddressOf(j) % PGSIZE = 0
    BY PageOfPath DEF Addresses
<1> QED
    BY <1>1, NextMultiple

-----------------------------------------------------------------------------
(* The walk. *)

(* What the tables may hold. *)
Memory == [Tables -> [Indices -> PTE]]

(* On the way down every entry is one of a table, a level further down each time. *)
LEMMA WayDown ==
    ASSUME NEW m \in Memory, NEW level \in [Tables -> 1 .. 4], Levelled(m, level),
           NEW i \in Paths
    PROVE  /\ level[1] = 4 /\ P4E(m, i) \in PTE
           /\ Leads(P4E(m, i)) =>
                 /\ P4E(m, i).addr \in Tables /\ level[P4E(m, i).addr] = 3
                 /\ P3E(m, i) \in PTE
           /\ Leads(P4E(m, i)) /\ Leads(P3E(m, i)) =>
                 /\ P3E(m, i).addr \in Tables /\ level[P3E(m, i).addr] = 2
                 /\ P2E(m, i) \in PTE
           /\ HasLeaf(m, i) =>
                 P2E(m, i).addr \in Tables /\ level[P2E(m, i).addr] = 1
<1>1. i[1] \in Indices /\ i[2] \in Indices /\ i[3] \in Indices
    BY DEF Paths
<1>2. \A t \in Tables, k \in Indices : m[t][k] \in PTE
    BY DEF Memory
<1>3. level[1] = 4 /\ P4E(m, i) \in PTE
    BY <1>1, <1>2 DEF Levelled, P4E
<1>4. ASSUME Leads(P4E(m, i))
      PROVE  /\ P4E(m, i).addr \in Tables /\ level[P4E(m, i).addr] = 3
             /\ P3E(m, i) \in PTE
  <2>1. P4E(m, i).addr \in Tables /\ level[P4E(m, i).addr] = level[1] - 1
    BY <1>1, <1>3, <1>4, 4 > 1 DEF Levelled, P4E
  <2>2. level[P4E(m, i).addr] = 3
    BY <2>1, <1>3
  <2>3. P3E(m, i) \in PTE
    BY <2>1, <1>1, <1>2 DEF P3E
  <2> QED
    BY <2>1, <2>2, <2>3
<1>5. ASSUME Leads(P4E(m, i)), Leads(P3E(m, i))
      PROVE  /\ P3E(m, i).addr \in Tables /\ level[P3E(m, i).addr] = 2
             /\ P2E(m, i) \in PTE
  <2> DEFINE t == P4E(m, i).addr
  <2>1. t \in Tables /\ level[t] = 3 /\ P3E(m, i) = m[t][i[2]]
    BY <1>4, <1>5 DEF P3E
  <2>2. P3E(m, i).addr \in Tables /\ level[P3E(m, i).addr] = level[t] - 1
    BY <2>1, <1>1, <1>5, 3 > 1 DEF Levelled
  <2>3. level[P3E(m, i).addr] = 2
    BY <2>1, <2>2
  <2>4. P2E(m, i) \in PTE
    BY <2>2, <1>1, <1>2 DEF P2E
  <2> QED
    BY <2>2, <2>3, <2>4
<1>6. ASSUME HasLeaf(m, i)
      PROVE  P2E(m, i).addr \in Tables /\ level[P2E(m, i).addr] = 1
  <2> DEFINE t == P3E(m, i).addr
  <2>1. t \in Tables /\ level[t] = 2 /\ P2E(m, i) = m[t][i[3]]
    BY <1>5, <1>6 DEF HasLeaf, P2E
  <2>2. P2E(m, i).addr \in Tables /\ level[P2E(m, i).addr] = level[t] - 1
    BY <2>1, <1>1, <1>6, 2 > 1 DEF Levelled, HasLeaf
  <2> QED
    BY <2>1, <2>2
<1> QED
    BY <1>3, <1>4, <1>5, <1>6

(* What get_entry finds for a page: its p1, an abort at a large page, or NULL. *)
LEMMA WalkOf ==
    ASSUME mem \in Memory, FourLevels(mem), g_cached_cr3 = 1, NEW v,
           PathOf(v) \in Paths
    PROVE  LET i == PathOf(v) IN
           /\ HasLeaf(mem, i) => LastTable(v) = P2E(mem, i).addr
           /\ MeetsLarge(mem, i) => LastTable(v) = ABORT
           /\ ~HasLeaf(mem, i) /\ ~MeetsLarge(mem, i) => LastTable(v) = NULL
<1> DEFINE i == PathOf(v)
<1>1. /\ i[1] = Idx(4, v) /\ i[2] = Idx(3, v) /\ i[3] = Idx(2, v)
      /\ i \in Paths
    BY DEF PathOf
<1> HIDE DEF i
<1>2. PICK level \in [Tables -> 1 .. 4] : Levelled(mem, level)
    BY DEF FourLevels
<1> DEFINE p4e == P4E(mem, i)
           p3e == P3E(mem, i)
           p2e == P2E(mem, i)
<1>3. /\ p4e \in PTE
      /\ Leads(p4e) => p4e.addr \in Tables /\ p3e \in PTE
      /\ Leads(p4e) /\ Leads(p3e) => p3e.addr \in Tables /\ p2e \in PTE
      /\ HasLeaf(mem, i) => p2e.addr \in Tables
    BY <1>1, <1>2, WayDown
<1>4. \A t \in Tables : t \notin {NULL, ABORT}
    BY DEF NULL, ABORT
<1>5. Descend(g_cached_cr3, 4, v) = next_table(p4e)
    BY <1>1, <1>4 DEF Descend, P4E
<1>6. Leads(p4e) => Descend(next_table(p4e), 3, v) = next_table(p3e)
    BY <1>1, <1>3, <1>4 DEF Descend, P3E, Leads, next_table
<1>7. Leads(p4e) /\ Leads(p3e) => Descend(next_table(p3e), 2, v) = next_table(p2e)
    BY <1>1, <1>3, <1>4 DEF Descend, P2E, Leads, next_table
<1>8. \A e : /\ Leads(e) => next_table(e) = e.addr
             /\ IsLarge(e) => next_table(e) = ABORT
             /\ ~Leads(e) /\ ~IsLarge(e) => next_table(e) = NULL
             /\ ~(Leads(e) /\ IsLarge(e))
    BY DEF Leads, IsLarge, next_table
<1>9. \A k \in 2 .. 3 : /\ Descend(NULL, k, v) = NULL
                        /\ Descend(ABORT, k, v) = ABORT
    BY DEF Descend
<1>10. /\ HasLeaf(mem, i) <=> Leads(p4e) /\ Leads(p3e) /\ Leads(p2e)
       /\ MeetsLarge(mem, i) <=>
            \/ IsLarge(p4e)
            \/ Leads(p4e) /\ IsLarge(p3e)
            \/ Leads(p4e) /\ Leads(p3e) /\ IsLarge(p2e)
    BY DEF HasLeaf, MeetsLarge
<1>11. LastTable(v) = Descend(Descend(next_table(p4e), 3, v), 2, v)
    BY <1>5 DEF LastTable
<1> HIDE DEF p4e, p3e, p2e
<1>12. HasLeaf(mem, i) => LastTable(v) = p2e.addr
    BY <1>6, <1>7, <1>8, <1>10, <1>11
<1>13. MeetsLarge(mem, i) => LastTable(v) = ABORT
    BY <1>6, <1>7, <1>8, <1>9, <1>10, <1>11
<1>14. ~HasLeaf(mem, i) /\ ~MeetsLarge(mem, i) => LastTable(v) = NULL
    BY <1>6, <1>7, <1>8, <1>9, <1>10, <1>11
<1> QED
    BY <1>12, <1>13, <1>14 DEF i, p2e

(* Where the tables above the last level agree, so does every walk. *)
LEMMA SameWalk ==
    ASSUME NEW m \in Memory, NEW n \in Memory,
           NEW level \in [Tables -> 1 .. 4], Levelled(m, level),
           \A t \in Tables : level[t] > 1 => n[t] = m[t],
           NEW i \in Paths
    PROVE  /\ HasLeaf(n, i) <=> HasLeaf(m, i)
           /\ HasLeaf(m, i) => P2E(n, i).addr = P2E(m, i).addr
           /\ MeetsLarge(n, i) <=> MeetsLarge(m, i)
<1>1. P4E(n, i) = P4E(m, i)
    BY WayDown, 4 > 1 DEF P4E
<1>2. Leads(P4E(m, i)) => P3E(n, i) = P3E(m, i)
    BY <1>1, WayDown, 3 > 1 DEF P3E
<1>3. Leads(P4E(m, i)) /\ Leads(P3E(m, i)) => P2E(n, i) = P2E(m, i)
    BY <1>2, WayDown, 2 > 1 DEF P2E
<1> QED
    BY <1>1, <1>2, <1>3 DEF HasLeaf, MeetsLarge

-----------------------------------------------------------------------------
(* The inductive invariant. *)

(* The tables keep their four levels: mprotect writes flags of leaves only. *)
TypeInv ==
    /\ pc \in {"idle", "loop", "aborted"}
    /\ calls \in Nat
    /\ g_cached_cr3 = 1
    /\ mem \in Memory /\ FourLevels(mem)
    /\ mem0 \in Memory /\ FourLevels(mem0)
    /\ flags \in SUBSET Flags
    /\ addr \in Addresses
    /\ len \in 0 .. VSize - 1
    /\ start_vaddr \in Nat
    /\ end_vaddr \in Addresses

(* The loop walks from addr in whole pages, and its end is that of the range. *)
LoopInv ==
    pc \in {"loop", "aborted"} =>
        /\ Aligned(addr, len)
        /\ start_vaddr % PGSIZE = 0
        /\ addr <= start_vaddr
        /\ end_vaddr = (addr + len) % VSize

(* The inductive invariant: the two properties need the loop, and the walks of the loop the
   leaves it has already written. *)
IInv == TypeInv /\ LoopInv /\ ExactlyTheLeaves /\ ReturnMeans

-----------------------------------------------------------------------------
(* What the writes of a call amount to. *)

(* Memory m with the flags f in every place of the slots C. *)
Marked(m, C, f) ==
    [t \in Tables |-> [k \in Indices |->
        IF \E slot \in C : slot[2] = t /\ slot[3] = k
          THEN [m[t][k] EXCEPT !.flags = f]
          ELSE m[t][k]]]

(* ExactlyTheLeaves says that the tables are those of the call's start with the
   covered leaves marked. *)
LEMMA ExactlyMarked ==
    ExactlyTheLeaves <=>
        (pc \in {"loop", "aborted"} => mem = Marked(mem0, Covered, flags))
  BY DEF ExactlyTheLeaves, Marked

(* Marking no slot changes nothing. *)
LEMMA MarkNone ==
    ASSUME NEW m \in Memory, NEW f
    PROVE  Marked(m, {}, f) = m
<1>1. \A t \in Tables : m[t] = [k \in Indices |-> m[t][k]]
    BY DEF Memory
<1>2. m = [t \in Tables |-> [k \in Indices |-> m[t][k]]]
    BY <1>1 DEF Memory
<1>3. Marked(m, {}, f) = [t \in Tables |-> [k \in Indices |-> m[t][k]]]
    BY DEF Marked
<1> QED
    BY <1>2, <1>3

(* Tables w and n agree on every entry but x of p. *)
SameBut(w, n, p, x) ==
    \A t \in Tables : \A k \in Indices : ~(t = p /\ k = x) => w[t][k] = n[t][k]

(* Writing the flags of one entry marks one slot more. *)
LEMMA MarkOne ==
    ASSUME NEW m \in Memory, NEW f \in SUBSET Flags, NEW C, NEW slot,
           NEW p \in Tables, NEW x \in Indices, slot[2] = p, slot[3] = x,
           NEW n, n = Marked(m, C, f),
           NEW w \in Memory, SameBut(w, n, p, x),
           w[p][x].flags = f, w[p][x].addr = n[p][x].addr
    PROVE  w = Marked(m, C \union {slot}, f)
<1> DEFINE D == C \union {slot}
<1>1. \A t \in Tables : \A k \in Indices :
          n[t][k] = IF \E e \in C : e[2] = t /\ e[3] = k
                      THEN [m[t][k] EXCEPT !.flags = f] ELSE m[t][k]
    BY DEF Marked
<1>2. \A t \in Tables : \A k \in Indices :
          (\E e \in D : e[2] = t /\ e[3] = k)
              <=> \/ \E e \in C : e[2] = t /\ e[3] = k
                  \/ t = p /\ k = x
    OBVIOUS
<1>3. w[p][x] = [m[p][x] EXCEPT !.flags = f]
  <2>1. w[p][x] \in PTE /\ m[p][x] \in PTE
    BY DEF Memory
  <2>2. [m[p][x] EXCEPT !.flags = f].addr = m[p][x].addr
    BY <2>1 DEF PTE
  <2>3. \/ n[p][x] = [m[p][x] EXCEPT !.flags = f]
        \/ n[p][x] = m[p][x]
    BY <1>1
  <2>4. n[p][x].addr = m[p][x].addr
    BY <2>2, <2>3
  <2> QED
    BY <2>1, <2>4 DEF PTE
<1> DEFINE r == Marked(m, D, f)
<1>4. \A t \in Tables : \A k \in Indices :
          r[t][k] = IF \E e \in D : e[2] = t /\ e[3] = k
                      THEN [m[t][k] EXCEPT !.flags = f] ELSE m[t][k]
    BY DEF Marked
<1> HIDE DEF r
<1>5. ASSUME NEW t \in Tables, NEW k \in Indices PROVE w[t][k] = r[t][k]
  <2>1. CASE t = p /\ k = x
    BY <1>2, <1>3, <1>4, <2>1
  <2>2. CASE ~(t = p /\ k = x)
    <3> DEFINE marked == \E e \in C : e[2] = t /\ e[3] = k
    <3>1. w[t][k] = n[t][k]
      BY <2>2 DEF SameBut
    <3>2. n[t][k] = IF marked THEN [m[t][k] EXCEPT !.flags = f] ELSE m[t][k]
      BY <1>1
    <3>3. r[t][k] = IF marked THEN [m[t][k] EXCEPT !.flags = f] ELSE m[t][k]
      BY <1>2, <1>4, <2>2
    <3> QED
      BY ONLY <3>1, <3>2, <3>3
  <2> QED
    BY <2>1, <2>2
<1>6. /\ r = [t \in Tables |-> r[t]]
      /\ \A t \in Tables : r[t] = [k \in Indices |-> r[t][k]]
    BY DEF Marked, r
<1>7. /\ w = [t \in Tables |-> w[t]]
      /\ \A t \in Tables : w[t] = [k \in Indices |-> w[t][k]]
    BY DEF Memory
<1>8. \A t \in Tables : w[t] = r[t]
    BY <1>5, <1>6, <1>7
<1>9. w = r
    BY <1>6, <1>7, <1>8
<1> QED
    BY <1>9 DEF r

(* A table whose level is above the last is not marked. *)
LEMMA UpperUnmarked ==
    ASSUME NEW m \in Memory, NEW level \in [Tables -> 1 .. 4], Levelled(m, level),
           NEW C \in SUBSET Mapping(m), NEW f, NEW t \in Tables, level[t] > 1
    PROVE  Marked(m, C, f)[t] = m[t]
<1>1. ASSUME NEW slot \in C PROVE slot[2] # t
  <2>1. PICK j \in Paths : HasLeaf(m, j) /\ slot = <<AddressOf(j), P2E(m, j).addr, j[4]>>
    BY DEF Mapping
  <2>2. level[P2E(m, j).addr] = 1
    BY <2>1, WayDown
  <2> QED
    BY <2>1, <2>2
<1>2. Marked(m, C, f)[t] = [k \in Indices |-> m[t][k]]
    BY <1>1 DEF Marked
<1> QED
    BY <1>2 DEF Memory

(* The slots of the pages from a up to s. *)
Between(m, a, s) == {slot \in Mapping(m) : a <= slot[1] /\ slot[1] < s}

(* One page further, the slots are those and the leaf of the page, if it has one. *)
LEMMA NextPage ==
    ASSUME NEW m, NEW a \in Nat, NEW s \in Nat, s % PGSIZE = 0, a <= s,
           NEW i \in Paths, AddressOf(i) = s
    PROVE  Between(m, a, s + PGSIZE) =
               Between(m, a, s) \union
                   IF HasLeaf(m, i) THEN {<<s, P2E(m, i).addr, i[4]>>} ELSE {}
<1> DEFINE new == IF HasLeaf(m, i) THEN {<<s, P2E(m, i).addr, i[4]>>} ELSE {}
<1>1. ASSUME NEW slot \in Between(m, a, s + PGSIZE)
      PROVE  slot \in Between(m, a, s) \union new
  <2>1. PICK j \in Paths : HasLeaf(m, j) /\ slot = <<AddressOf(j), P2E(m, j).addr, j[4]>>
    BY DEF Between, Mapping
  <2>2. slot[1] = AddressOf(j) /\ AddressOf(j) \in Nat
    BY <2>1, PageOfPath DEF Addresses
  <2>3. a <= AddressOf(j) /\ AddressOf(j) < s + PGSIZE
    BY <2>2 DEF Between
  <2>4. CASE AddressOf(j) < s
    BY <2>2, <2>3, <2>4 DEF Between
  <2>5. CASE s <= AddressOf(j)
    <3>1. j = i
      BY <2>3, <2>5, OnePerPage, OnePath
    <3> QED
      BY <2>1, <3>1
  <2> QED
    BY <2>2, <2>4, <2>5
<1>2. Between(m, a, s) \subseteq Between(m, a, s + PGSIZE)
  <2>1. \A slot \in Mapping(m) : slot[1] \in Nat
    BY PageOfPath DEF Mapping, Addresses
  <2> QED
    BY <2>1 DEF Between
<1>3. new \subseteq Between(m, a, s + PGSIZE)
  <2>1. ASSUME HasLeaf(m, i)
        PROVE  <<s, P2E(m, i).addr, i[4]>> \in Between(m, a, s + PGSIZE)
    <3>1. <<s, P2E(m, i).addr, i[4]>> \in Mapping(m)
      BY <2>1 DEF Mapping
    <3>2. <<s, P2E(m, i).addr, i[4]>>[1] = s /\ s < s + PGSIZE
      OBVIOUS
    <3> QED
      BY <3>1, <3>2 DEF Between
  <2> QED
    BY <2>1
<1> QED
    BY <1>1, <1>2, <1>3

-----------------------------------------------------------------------------
(* Every step keeps the invariant. *)

(* Before the first call nothing is claimed yet. *)
LEMMA InitIInv == Init => IInv
<1> SUFFICES ASSUME Init PROVE IInv
    OBVIOUS
<1> USE DEF Init
<1>1. 0 \in Addresses /\ 0 \in 0 .. VSize - 1
    BY Spans DEF Addresses
<1>2. mem \in Memory /\ FourLevels(mem)
    BY DEF Memory
<1>3. TypeInv
    BY <1>1, <1>2 DEF TypeInv
<1> QED
    BY <1>3 DEF IInv, LoopInv, ExactlyTheLeaves, ReturnMeans

(* A call rejects its range with nothing written, or starts the loop at addr with
   nothing covered. *)
LEMMA CallStep == IInv /\ Call => IInv'
<1> SUFFICES ASSUME IInv, Call PROVE IInv'
    OBVIOUS
<1> USE DEF IInv
<1>0. PICK a \in Addresses, l \in 0 .. VSize - 1, f \in {{"P"}, {"P", "W"}} :
          addr' = a /\ len' = l /\ flags' = f /\ (Reject(a, l) \/ Accept(a, l))
    BY DEF Call
<1>1. /\ pc = "idle" /\ calls' = calls + 1 /\ mem0' = mem /\ mem' = mem
      /\ g_cached_cr3' = g_cached_cr3
    BY DEF Call
<1>2. f \in SUBSET Flags
    BY DEF Flags
<1>3. /\ a \in Nat /\ l \in Nat /\ VSize \in Nat \ {0}
      /\ (a + l) % VSize \in Addresses
    BY Spans DEF Addresses
<1>4. TypeInv'
  <2>1. mem' \in Memory /\ FourLevels(mem') /\ mem0' \in Memory /\ FourLevels(mem0')
    BY <1>1 DEF TypeInv
  <2>2. /\ pc' \in {"idle", "loop", "aborted"}
        /\ start_vaddr' \in Nat /\ end_vaddr' \in Addresses
    BY <1>0, <1>1, <1>3 DEF TypeInv, Reject, Accept
  <2> QED
    BY <1>0, <1>1, <1>2, <2>1, <2>2 DEF TypeInv
<1>5. CASE Reject(a, l)
  <2>1. pc' = "idle" /\ ~Aligned(a, l) /\ ret' = -1
    BY <1>1, <1>5 DEF Reject
  <2>2. LoopInv' /\ ExactlyTheLeaves'
    BY <2>1 DEF LoopInv, ExactlyTheLeaves
  <2>3. ReturnMeans'
    BY <2>1, <1>0, <1>1 DEF ReturnMeans
  <2> QED
    BY <1>4, <2>2, <2>3
<1>6. CASE Accept(a, l)
  <2>1. /\ pc' = "loop" /\ Aligned(a, l) /\ start_vaddr' = a
        /\ end_vaddr' = (a + l) % VSize
    BY <1>6 DEF Accept
  <2>2. LoopInv'
    BY <2>1, <1>0, <1>3 DEF LoopInv, Aligned
  <2>3. Covered' = {}
    <3>1. \A slot \in Mapping(mem0') : ~(a <= slot[1] /\ slot[1] < a)
      BY <1>3, PageOfPath DEF Mapping, Addresses
    <3> QED
      BY <3>1, <2>1, <1>0 DEF Covered
  <2>4. ExactlyTheLeaves'
    <3>1. mem' = Marked(mem0', {}, flags')
      BY <1>1, MarkNone DEF TypeInv
    <3>2. mem' = Marked(mem0', Covered', flags')
      BY <2>3, <3>1
    <3> QED
      BY <3>2 DEF ExactlyTheLeaves, Marked
  <2>5. ReturnMeans'
    <3>1. \A v \in a .. a - 1 : FALSE
      BY <1>3
    <3> QED
      BY <2>1, <3>1, <1>0 DEF ReturnMeans
  <2> QED
    BY <1>4, <2>2, <2>4, <2>5
<1> QED
    BY <1>0, <1>5, <1>6

(* When the loop ends, every slot of a range that did not wrap is covered. *)
LEMMA ReturnStep == IInv /\ Return => IInv'
<1> SUFFICES ASSUME IInv, Return PROVE IInv'
    OBVIOUS
<1> USE DEF IInv
<1>1. /\ pc = "loop" /\ start_vaddr >= end_vaddr /\ pc' = "idle" /\ ret' = 0
      /\ UNCHANGED <<calls, g_cached_cr3, mem, start_vaddr, end_vaddr, flags, addr,
                     len, mem0>>
    BY DEF Return
<1>2. TypeInv' /\ LoopInv' /\ ExactlyTheLeaves'
    BY <1>1 DEF TypeInv, LoopInv, ExactlyTheLeaves
<1>3. mem = Marked(mem0, Covered, flags)
    BY <1>1, ExactlyMarked
<1>4. ASSUME addr + len < VSize, NEW slot \in Mapping(mem0), addr <= slot[1],
             slot[1] < addr + len
      PROVE  mem[slot[2]][slot[3]].flags = flags
  <2>1. PICK j \in Paths :
            HasLeaf(mem0, j) /\ slot = <<AddressOf(j), P2E(mem0, j).addr, j[4]>>
    BY DEF Mapping
  <2>2. slot[1] \in Nat /\ addr \in Nat /\ len \in Nat /\ start_vaddr \in Nat
    BY <2>1, PageOfPath DEF TypeInv, Addresses
  <2>3. end_vaddr = addr + len
    <3>1. end_vaddr = (addr + len) % VSize
      BY <1>1 DEF LoopInv
    <3>2. \A n \in Nat, d \in Nat : n < d => n % d = n
      OBVIOUS
    <3>3. addr + len \in Nat /\ VSize \in Nat
      BY <2>2, Spans
    <3> QED
      BY <3>1, <3>2, <3>3, <1>4
  <2>4. slot \in Covered
    BY <1>1, <1>4, <2>2, <2>3 DEF Covered
  <2>5. PICK level \in [Tables -> 1 .. 4] : Levelled(mem0, level)
    BY DEF TypeInv, FourLevels
  <2>6. slot[2] \in Tables /\ slot[3] \in Indices
    BY <2>1, <2>5, WayDown DEF TypeInv, Paths
  <2>7. mem[slot[2]][slot[3]] = [mem0[slot[2]][slot[3]] EXCEPT !.flags = flags]
    BY <1>3, <2>4, <2>6 DEF Marked
  <2>8. mem0[slot[2]][slot[3]] \in PTE
    <3>1. mem0 \in Memory
      BY DEF TypeInv
    <3> QED
      BY ONLY <2>6, <3>1 DEF Memory
  <2> QED
    BY <2>7, <2>8 DEF PTE
<1>5. ReturnMeans'
    BY <1>1, <1>4 DEF ReturnMeans, LoopInv
<1> QED
    BY <1>2, <1>5

(* What the walk for the next page finds is what the tables said when the call
   began: the marked leaves are not on anybody's way. *)
LEMMA NextWalk ==
    ASSUME IInv, pc = "loop", start_vaddr < end_vaddr
    PROVE  \E i \in Paths :
               /\ PathOf(start_vaddr) = i /\ AddressOf(i) = start_vaddr
               /\ Idx(1, start_vaddr) = i[4]
               /\ UnderLarge(start_vaddr) <=> MeetsLarge(mem0, i)
               /\ HasLeaf(mem, i) <=> HasLeaf(mem0, i)
               /\ HasLeaf(mem0, i) =>
                     /\ LastTable(start_vaddr) = P2E(mem0, i).addr
                     /\ P2E(mem, i).addr = P2E(mem0, i).addr
                     /\ P2E(mem0, i).addr \in Tables
               /\ MeetsLarge(mem0, i) => LastTable(start_vaddr) = ABORT
               /\ ~HasLeaf(mem0, i) /\ ~MeetsLarge(mem0, i) =>
                     LastTable(start_vaddr) = NULL
<1> DEFINE s == start_vaddr
           i == PathOf(s)
<1> USE DEF IInv
<1>1. s \in Addresses /\ s % PGSIZE = 0
  <2>1. end_vaddr \in 0 .. VSize - 1 /\ s \in Nat /\ VSize \in Nat
    BY Spans DEF TypeInv, Addresses
  <2> QED
    BY <2>1 DEF Addresses, LoopInv
<1>2. i \in Paths /\ AddressOf(i) = s /\ Idx(1, s) = i[4]
    BY <1>1, PathOfPage DEF PathOf
<1>3. PICK level \in [Tables -> 1 .. 4] : Levelled(mem0, level)
    BY DEF TypeInv, FourLevels
<1>4. \A t \in Tables : level[t] > 1 => mem[t] = mem0[t]
  <2>1. mem = Marked(mem0, Covered, flags) /\ Covered \in SUBSET Mapping(mem0)
    BY ExactlyMarked DEF Covered
  <2>2. mem0 \in Memory
    BY DEF TypeInv
  <2> QED
    BY ONLY <1>3, <2>1, <2>2, UpperUnmarked
<1>5. mem \in Memory /\ FourLevels(mem) /\ g_cached_cr3 = 1 /\ mem0 \in Memory
    BY DEF TypeInv
<1>6. /\ HasLeaf(mem, i) <=> HasLeaf(mem0, i)
      /\ HasLeaf(mem0, i) => P2E(mem, i).addr = P2E(mem0, i).addr
      /\ MeetsLarge(mem, i) <=> MeetsLarge(mem0, i)
    BY ONLY <1>2, <1>3, <1>4, <1>5, SameWalk
<1>7. /\ HasLeaf(mem, i) => LastTable(s) = P2E(mem, i).addr
      /\ MeetsLarge(mem, i) => LastTable(s) = ABORT
      /\ ~HasLeaf(mem, i) /\ ~MeetsLarge(mem, i) => LastTable(s) = NULL
    BY ONLY <1>2, <1>5, WalkOf
<1>8. HasLeaf(mem0, i) => P2E(mem0, i).addr \in Tables
    BY ONLY <1>2, <1>3, <1>5, WayDown
<1>9. UnderLarge(s) <=> MeetsLarge(mem0, i)
    BY ONLY <1>2, OnePath DEF UnderLarge
<1> HIDE DEF i
<1> QED
    BY <1>2, <1>6, <1>7, <1>8, <1>9 DEF i

(* A page handled adds its leaf to those covered, or stops the program at a large
   page, or is passed over. *)
LEMMA ProtectPageStep == IInv /\ ProtectPage => IInv'
<1> SUFFICES ASSUME IInv, ProtectPage PROVE IInv'
    OBVIOUS
<1> DEFINE s  == start_vaddr
           p1 == LastTable(s)
<1>1. /\ pc = "loop" /\ s < end_vaddr
      /\ UNCHANGED <<calls, g_cached_cr3, end_vaddr, flags, ret, addr, len, mem0>>
    BY DEF ProtectPage
<1>2. IF p1 = ABORT
        THEN pc' = "aborted" /\ UNCHANGED <<mem, start_vaddr>>
        ELSE /\ IF p1 = NULL THEN UNCHANGED mem ELSE Write(p1, Idx(1, s))
             /\ start_vaddr' = s + PGSIZE
             /\ UNCHANGED pc
    BY DEF ProtectPage
<1>3. PICK i \in Paths :
          /\ PathOf(s) = i /\ AddressOf(i) = s /\ Idx(1, s) = i[4]
          /\ UnderLarge(s) <=> MeetsLarge(mem0, i)
          /\ HasLeaf(mem, i) <=> HasLeaf(mem0, i)
          /\ HasLeaf(mem0, i) => /\ p1 = P2E(mem0, i).addr
                                 /\ P2E(mem, i).addr = P2E(mem0, i).addr
                                 /\ P2E(mem0, i).addr \in Tables
          /\ MeetsLarge(mem0, i) => p1 = ABORT
          /\ ~HasLeaf(mem0, i) /\ ~MeetsLarge(mem0, i) => p1 = NULL
    BY <1>1, NextWalk
<1> HIDE DEF p1
<1>4. /\ TypeInv /\ LoopInv /\ mem = Marked(mem0, Covered, flags)
      /\ \A v \in addr .. s - 1 : ~UnderLarge(v)
    BY <1>1, ExactlyMarked DEF IInv, ReturnMeans
<1>5. /\ addr \in Nat /\ s \in Nat /\ s % PGSIZE = 0 /\ addr <= s
      /\ mem \in Memory /\ mem0 \in Memory /\ flags \in SUBSET Flags
    BY <1>1, <1>4 DEF TypeInv, LoopInv, Addresses
<1>6. \A t \in Tables : t # NULL /\ t # ABORT
    BY DEF NULL, ABORT
<1>7. CASE p1 = ABORT
  <2>1. pc' = "aborted" /\ UNCHANGED <<mem, start_vaddr>>
    BY <1>2, <1>7
  <2>2. UnderLarge(s)
    BY <1>3, <1>6, <1>7 DEF NULL, ABORT
  <2>3. TypeInv' /\ LoopInv'
    BY <1>1, <1>4, <2>1 DEF TypeInv, LoopInv
  <2>4. ExactlyTheLeaves'
    BY <1>1, <1>4, <2>1 DEF ExactlyTheLeaves, Covered, Marked
  <2>5. ReturnMeans'
    BY <1>1, <2>1, <2>2 DEF ReturnMeans, UnderLarge
  <2> QED
    BY <2>3, <2>4, <2>5 DEF IInv
<1>8. CASE p1 # ABORT
  <2>1. /\ IF p1 = NULL THEN UNCHANGED mem ELSE Write(p1, i[4])
        /\ start_vaddr' = s + PGSIZE /\ pc' = "loop"
    BY <1>1, <1>2, <1>3, <1>8
  <2>2. Covered' = Covered \union
            IF HasLeaf(mem0, i) THEN {<<s, P2E(mem0, i).addr, i[4]>>} ELSE {}
    <3>1. Covered = Between(mem0, addr, s) /\ Covered' = Between(mem0, addr, s + PGSIZE)
      BY <1>1, <2>1 DEF Covered, Between
    <3>2. addr \in Nat /\ s \in Nat /\ s % PGSIZE = 0 /\ addr <= s /\ AddressOf(i) = s
      BY <1>3, <1>5
    <3>3. Between(mem0, addr, s + PGSIZE) =
              Between(mem0, addr, s) \union
                IF HasLeaf(mem0, i) THEN {<<s, P2E(mem0, i).addr, i[4]>>} ELSE {}
      BY ONLY <3>2, i \in Paths, NextPage
    <3> QED
      BY ONLY <3>1, <3>3
  <2>3. /\ mem' \in Memory /\ FourLevels(mem')
        /\ mem' = Marked(mem0, Covered', flags)
    <3>1. CASE ~HasLeaf(mem0, i)
      <4>1. p1 = NULL
        BY <1>3, <1>8, <3>1
      <4> QED
        BY <4>1, <1>4, <1>5, <2>1, <2>2, <3>1 DEF TypeInv
    <3>2. CASE HasLeaf(mem0, i)
      <4>1. p1 \in Tables /\ p1 = P2E(mem0, i).addr /\ i[4] \in Indices
        BY <1>3, <3>2 DEF Paths
      <4>2. mem' = [mem EXCEPT ![p1][i[4]].flags = flags]
        BY <4>1, <1>6, <2>1 DEF Write
      <4>4. mem' \in Memory
        <5>1. mem[p1] \in [Indices -> PTE] /\ mem[p1][i[4]] \in PTE
          BY ONLY <1>5, <4>1 DEF Memory
        <5>2. [mem[p1][i[4]] EXCEPT !.flags = flags] \in PTE
          BY <1>5, <5>1 DEF PTE
        <5>3. [mem[p1] EXCEPT ![i[4]] = [mem[p1][i[4]] EXCEPT !.flags = flags]]
                  \in [Indices -> PTE]
          BY <5>1, <5>2
        <5> QED
          BY <1>5, <4>2, <5>3 DEF Memory
      <4>3. mem' = Marked(mem0, Covered', flags)
        <5>1. /\ mem0 \in Memory /\ flags \in SUBSET Flags /\ p1 \in Tables
              /\ i[4] \in Indices /\ mem = Marked(mem0, Covered, flags)
          BY <1>4, <1>5, <4>1
        <5> DEFINE slot == <<s, p1, i[4]>>
        <5>2. Covered' = Covered \union {slot} /\ slot[2] = p1 /\ slot[3] = i[4]
          BY <2>2, <3>2, <4>1
        <5>3. SameBut(mem', mem, p1, i[4])
          BY <1>5, <4>1, <4>2 DEF Memory, SameBut
        <5>4. mem[p1][i[4]] \in PTE
          BY <1>5, <4>1 DEF Memory
        <5>5. /\ mem'[p1][i[4]].flags = flags
              /\ mem'[p1][i[4]].addr = mem[p1][i[4]].addr
          BY <1>5, <4>1, <4>2, <5>4 DEF Memory, PTE
        <5> QED
          <6> HIDE DEF slot
          <6>1. mem' = Marked(mem0, Covered \union {slot}, flags)
            BY ONLY <4>4, <5>1, <5>2, <5>3, <5>5, MarkOne
          <6> QED
            BY <5>2, <6>1
      <4>5. FourLevels(mem')
        <5>1. PICK level \in [Tables -> 1 .. 4] : Levelled(mem, level)
          BY <1>4 DEF TypeInv, FourLevels
        <5>2. level[p1] = 1
          BY <1>3, <1>5, <3>2, <5>1, WayDown
        <5>3. \A t \in Tables : level[t] > 1 => mem'[t] = mem[t]
          BY <1>5, <4>2, <5>2 DEF Memory
        <5>4. Levelled(mem', level)
          BY <5>1, <5>3 DEF Levelled
        <5> QED
          BY <5>4 DEF FourLevels
      <4> QED
        BY <4>3, <4>4, <4>5
    <3> QED
      BY <3>1, <3>2
  <2>4. TypeInv'
    BY <1>1, <1>4, <1>5, <2>1, <2>3 DEF TypeInv
  <2>5. LoopInv'
    <3>1. (s + PGSIZE) % PGSIZE = 0 /\ addr <= s + PGSIZE
      BY <1>5, NextMultiple
    <3> QED
      BY <1>1, <1>4, <2>1, <3>1 DEF LoopInv, Aligned
  <2>6. ExactlyTheLeaves'
    BY <1>1, <2>3 DEF ExactlyTheLeaves, Marked
  <2>7. ReturnMeans'
    <3>1. ASSUME NEW v \in addr .. (s + PGSIZE) - 1, UnderLarge(v) PROVE FALSE
      <4>1. PICK j \in Paths : v = AddressOf(j) /\ MeetsLarge(mem0, j)
        BY <3>1 DEF UnderLarge
      <4>2. v \in Nat /\ addr <= v /\ v < s + PGSIZE
        BY <1>5
      <4>3. s <= v
        BY <1>4, <1>5, <4>2, <3>1
      <4>4. v = s
        BY <1>5, <4>1, <4>2, <4>3, OnePerPage
      <4> QED
        BY <1>3, <1>8, <3>1, <4>4
    <3>2. \A v : UnderLarge(v)' <=> UnderLarge(v)
      BY <1>1 DEF UnderLarge
    <3> QED
      BY <1>1, <2>1, <3>1, <3>2 DEF ReturnMeans
  <2> QED
    BY <2>4, <2>5, <2>6, <2>7 DEF IInv
<1> QED
    BY <1>7, <1>8

(* Nothing changes, nothing breaks. *)
LEMMA StutterStep == IInv /\ UNCHANGED vars => IInv'
<1> SUFFICES ASSUME IInv, UNCHANGED vars PROVE IInv'
    OBVIOUS
<1>1. UNCHANGED <<pc, calls, g_cached_cr3, mem, start_vaddr, end_vaddr, flags, ret,
                  addr, len, mem0>>
    BY DEF vars
<1>2. TypeInv' /\ LoopInv'
    BY <1>1 DEF IInv, TypeInv, LoopInv
<1>3. ExactlyTheLeaves'
    BY <1>1 DEF IInv, ExactlyTheLeaves, Covered
<1>4. ReturnMeans'
    BY <1>1 DEF IInv, ReturnMeans, UnderLarge
<1> QED
    BY <1>2, <1>3, <1>4 DEF IInv

(* The tables stay four levels deep, the loop stays on page boundaries of its range,
   and the writes are exactly those of ExactlyTheLeaves at every step. *)
THEOREM Invariant == Spec => []IInv
<1>1. IInv /\ [Next]_vars => IInv'
    BY CallStep, ProtectPageStep, ReturnStep, StutterStep DEF Next
<1> QED
    BY InitIInv, <1>1, PTL DEF Spec

(* mprotect writes the leaf entries of the pages of its range and no other, and of
   those the flags alone, whatever the tables hold (paging.h: mprotect, get_entry). *)
THEOREM LeavesCorrect == Spec => []ExactlyTheLeaves
<1>1. IInv => ExactlyTheLeaves
    BY DEF IInv
<1> QED
    BY Invariant, <1>1, PTL

(* What mprotect's return value says of the tables, and where it aborts. *)
THEOREM ReturnCorrect == Spec => []ReturnMeans
<1>1. IInv => ReturnMeans
    BY DEF IInv
<1> QED
    BY Invariant, <1>1, PTL
=============================================================================
