--------------------------- MODULE HostLaunchProofs ---------------------------
(* What launching and stopping RustMonitor never does, for every command line, every
   set of images and every number of scripts. *)
EXTENDS HostLaunch, SequenceTheorems, WellFoundedInduction, TLAPS

(* Induction over the numbers, in the one form that speaks of sets. *)
LEMMA LeastNumber ==
    ASSUME NEW T \in SUBSET Nat, T # {}
    PROVE  \E n \in T : \A m \in T : n <= m
<1>1. \A m, n \in Nat : <<m, n>> \in OpToRel(<, Nat) <=> m < n
    BY DEF OpToRel
<1>2. PICK n \in T : \A m \in T : ~ (<<m, n>> \in OpToRel(<, Nat))
    BY NatLessThanWellFounded, WFMin
<1>3. \A m \in T : ~ (m < n)
    BY <1>1, <1>2
<1> QED
    BY <1>3

(* What the loop of get_memmap_parameter has in res after each of n ranges. *)
Filters(f, ranges, n) ==
    f = [k \in 0 .. n |-> IF k = 0 THEN <<>>
                          ELSE IF ranges[k].sign = "$" THEN Append(f[k - 1], ranges[k])
                          ELSE f[k - 1]]

(* The filter by a recursion on the length is a function on every length. *)
LEMMA FilterExists ==
    ASSUME NEW ranges, NEW len \in Nat
    PROVE  \E f : Filters(f, ranges, len)
<1> DEFINE Bad == {n \in Nat : ~ \E f : Filters(f, ranges, n)}
<1> SUFFICES ASSUME Bad # {} PROVE FALSE
    OBVIOUS
<1>1. PICK n \in Bad : \A m \in Bad : n <= m
  <2>1. Bad \in SUBSET Nat
    OBVIOUS
  <2> HIDE DEF Bad
  <2> QED
    BY <2>1, LeastNumber
<1>2. n # 0
  <2> DEFINE f == [k \in 0 .. 0 |-> <<>>]
  <2>1. Filters(f, ranges, 0)
    BY DEF Filters
  <2> QED
    BY <2>1
<1>3. n - 1 \in Nat /\ n - 1 \notin Bad
    BY <1>1, <1>2
<1>4. PICK f : Filters(f, ranges, n - 1)
    BY <1>3
<1> DEFINE last == IF ranges[n].sign = "$" THEN Append(f[n - 1], ranges[n])
                                           ELSE f[n - 1]
           g == [k \in 0 .. n |-> IF k = n THEN last ELSE f[k]]
<1>5. Filters(g, ranges, n)
  <2>1. ASSUME NEW k \in 0 .. n
        PROVE  g[k] = IF k = 0 THEN <<>>
                      ELSE IF ranges[k].sign = "$" THEN Append(g[k - 1], ranges[k])
                      ELSE g[k - 1]
    <3>1. CASE k = n
      <4>1. g[n] = last /\ g[n - 1] = f[n - 1]
        BY <1>2
      <4> QED
        BY <1>2, <3>1, <4>1
    <3>2. CASE k < n
      <4>1. k \in 0 .. n - 1 /\ (k # 0 => k - 1 \in 0 .. n - 1)
        BY <3>2
      <4>2. g[k] = f[k] /\ (k # 0 => g[k - 1] = f[k - 1])
        BY <3>2, <4>1
      <4> HIDE DEF g
      <4> QED
        BY <1>4, <4>1, <4>2 DEF Filters
    <3> QED
      BY <3>1, <3>2
  <2> QED
    BY <2>1 DEF Filters
<1> QED
    BY <1>5

(* The ranges that get_memmap_parameter prints are among those of the parameter, and of
   the form size$start, each of them. *)
LEMMA ReservedRangesReserve ==
    ASSUME NEW ranges \in Seq(Ranges)
    PROVE  /\ ReservedRanges(ranges) \in Seq(Ranges)
           /\ \A r \in ToSet(ReservedRanges(ranges)) : r.sign = "$" /\ r \in ToSet(ranges)
<1> DEFINE f == CHOOSE f : Filters(f, ranges, Len(ranges))
           Good(k) == /\ f[k] \in Seq(Ranges)
                      /\ \A j \in 1 .. Len(f[k]) :
                             f[k][j].sign = "$" /\ f[k][j] \in ToSet(ranges)
           Bad == {k \in 0 .. Len(ranges) : ~ Good(k)}
<1>1. Filters(f, ranges, Len(ranges))
    BY FilterExists
<1>2. ReservedRanges(ranges) = f[Len(ranges)]
    BY DEF ReservedRanges, Filters
<1>3. \A k \in 1 .. Len(ranges) :
          /\ ranges[k].sign = "$" => f[k] = Append(f[k - 1], ranges[k])
          /\ ranges[k].sign # "$" => f[k] = f[k - 1]
  <2> HIDE DEF f
  <2> TAKE k \in 1 .. Len(ranges)
  <2>1. k \in 0 .. Len(ranges) /\ k # 0
    OBVIOUS
  <2> QED
    BY <1>1, <2>1 DEF Filters
<1> HIDE DEF f
<1>4. Bad = {}
  <2> SUFFICES ASSUME Bad # {} PROVE FALSE
    OBVIOUS
  <2>1. PICK n \in Bad : \A m \in Bad : n <= m
    <3>1. Bad \in SUBSET Nat
      OBVIOUS
    <3> HIDE DEF Bad
    <3> QED
      BY <3>1, LeastNumber
  <2>2. n # 0
    BY <1>1 DEF Filters
  <2>3. n - 1 \in 0 .. Len(ranges) /\ Good(n - 1) /\ n \in 1 .. Len(ranges)
    BY <2>1, <2>2
  <2>5. ranges[n] \in Ranges /\ ranges[n] \in ToSet(ranges)
    BY <2>3 DEF ToSet
  <2>6. CASE ranges[n].sign = "$"
    <3>1. f[n] = Append(f[n - 1], ranges[n])
      BY <1>3, <2>3, <2>6
    <3>2. /\ f[n] \in Seq(Ranges) /\ Len(f[n]) = Len(f[n - 1]) + 1
          /\ f[n][Len(f[n - 1]) + 1] = ranges[n]
          /\ \A j \in 1 .. Len(f[n - 1]) : f[n][j] = f[n - 1][j]
      BY <2>3, <2>5, <3>1, AppendProperties
    <3>3. ASSUME NEW j \in 1 .. Len(f[n])
          PROVE  f[n][j].sign = "$" /\ f[n][j] \in ToSet(ranges)
      <4>1. CASE j \in 1 .. Len(f[n - 1])
        BY <2>3, <3>2, <4>1
      <4>2. CASE j = Len(f[n - 1]) + 1
        BY <2>5, <2>6, <3>2, <4>2
      <4>3. Len(f[n - 1]) \in Nat /\ Len(f[n]) = Len(f[n - 1]) + 1
        BY <2>3, <3>2
      <4>4. j \in 1 .. Len(f[n - 1]) \/ j = Len(f[n - 1]) + 1
        BY ONLY <4>3, j \in 1 .. Len(f[n])
      <4> QED
        BY ONLY <4>1, <4>2, <4>4
    <3> QED
      BY <2>1, <3>2, <3>3
  <2>7. CASE ranges[n].sign # "$"
    <3>1. f[n] = f[n - 1]
      BY <1>3, <2>3, <2>7
    <3> QED
      BY <2>1, <2>3, <3>1
  <2> QED
    BY <2>6, <2>7
<1>5. Good(Len(ranges))
    BY <1>4
<1> QED
    BY <1>2, <1>5 DEF ToSet

(* The parameter looked at is one of the command line's. *)
LEMMA MemmapParameterIsOne ==
    ASSUME NEW line \in Cmdlines
    PROVE  /\ MemmapParameter(line) \in Seq(Ranges)
           /\ \/ MemmapParameter(line) = <<>>
              \/ \E p \in ToSet(line) : p.memmap /\ MemmapParameter(line) = p.ranges
<1>1. line \in Seq([memmap : BOOLEAN, ranges : Seq(Ranges)])
    BY CmdlinesAssumption
<1> DEFINE found == {k \in DOMAIN line : line[k].memmap}
<1>2. CASE found = {}
    BY <1>2 DEF MemmapParameter
<1>3. CASE found # {}
  <2>1. found \in SUBSET Nat
    BY <1>1
  <2>2. \E k \in found : \A j \in found : k <= j
    BY <1>3, <2>1, LeastNumber
  <2>3. Min(found) \in found
    BY <2>2 DEF Min
  <2>4. MemmapParameter(line) = line[Min(found)].ranges
    BY <1>3 DEF MemmapParameter
  <2>5. line[Min(found)] \in ToSet(line) /\ line[Min(found)].memmap
    BY <2>3 DEF ToSet
  <2>6. Min(found) \in DOMAIN line
    BY <2>3
  <2>7. line[Min(found)] \in [memmap : BOOLEAN, ranges : Seq(Ranges)]
    <3> DEFINE Params == [memmap : BOOLEAN, ranges : Seq(Ranges)]
    <3>1. line \in Seq(Params)
      BY <1>1
    <3> HIDE DEF found, Params
    <3>2. line[Min(found)] \in Params
      BY <2>6, <3>1, ElementOfSeq, LenProperties
    <3> QED
      BY <3>2 DEF Params
  <2> QED
    BY <2>4, <2>5, <2>7
<1> QED
    BY <1>2, <1>3

-----------------------------------------------------------------------------
(* What the command line reserves, and so what the module is given. *)
Reserved == ReservedRanges(MemmapParameter(cmdline))

MemoryInv ==
    /\ cmdline \in Cmdlines
    /\ loaded => str_memmap = Reserved
    /\ pc = "insmod" => res = Reserved
    /\ loaded \/ pc = "insmod" => Reserved # <<>>

(* The commands of a launch after the first. *)
Launching ==
    \/ pc = "disable" /\ hv_img # "stop"
    \/ pc \in {"rmmod", "get_memmap_parameter", "insmod", "enable"}

(* Where a launch stands at each of its commands, as long as none had a fault; what an
   earlier script left shows up only after one.  The last conjunct is the property. *)
LaunchInv ==
    /\ mode # "off" => loaded
    /\ Launching \/ pc = "cp" => hv_img \in Images
    /\ Launching /\ faults = {} => firmware = hv_img
    /\ pc = "cp" => faults = {}
    /\ pc = "disable" /\ hv_img # "stop" => loaded
    /\ pc = "rmmod" /\ faults = {} => loaded /\ mode = "off"
    /\ pc \in {"get_memmap_parameter", "insmod"} /\ faults = {} => ~loaded /\ mode = "off"
    /\ pc = "enable" => Reserved # <<>>
    /\ pc = "enable" /\ faults = {} => loaded /\ mode = "off"
    /\ LaunchSwitches

(* The parameter of insmod is read from the command line that is reserved. *)
LEMMA NextMemoryInv == MemoryInv /\ [Next]_vars => MemoryInv'
<1> SUFFICES ASSUME MemoryInv, [Next]_vars PROVE MemoryInv'
    OBVIOUS
<1> USE DEF MemoryInv, Reserved, host
<1>1. CASE Launch \/ Stop \/ Usage
    BY <1>1 DEF Launch, Stop, Usage, Start
<1>2. CASE cp
    BY <1>2 DEF cp, Command
<1>3. CASE disable
    BY <1>3 DEF disable, Command, Refused
<1>4. CASE rmmod
    BY <1>4 DEF rmmod, Command, Refused
<1>5. CASE get_memmap_parameter
    BY <1>5 DEF get_memmap_parameter, Command
<1>6. CASE insmod
    BY <1>6 DEF insmod, Command, Refused
<1>7. CASE enable
    BY <1>7 DEF enable, Command, Refused
<1>8. CASE Interrupt \/ Reboot
    BY <1>8 DEF Interrupt, Reboot
<1>9. CASE UNCHANGED vars
    BY <1>9 DEF vars, process
<1> QED
    BY <1>1, <1>2, <1>3, <1>4, <1>5, <1>6, <1>7, <1>8, <1>9 DEF Next, Script

(* What the module is loaded with is what the command line reserves, hence reserved. *)
LEMMA MemoryInvReserves == MemoryInv => MemoryIsReserved
<1> SUFFICES ASSUME MemoryInv, loaded PROVE MemoryIsReserved
    BY DEF MemoryIsReserved
<1>1. cmdline \in Cmdlines /\ str_memmap = Reserved /\ Reserved # <<>>
    BY DEF MemoryInv
<1> DEFINE ranges == MemmapParameter(cmdline)
<1>2. /\ ranges \in Seq(Ranges)
      /\ ranges = <<>> \/ \E p \in ToSet(cmdline) : p.memmap /\ ranges = p.ranges
    BY <1>1, MemmapParameterIsOne
<1>3. ASSUME NEW r \in ToSet(str_memmap)
      PROVE  r.sign = "$" /\ \E p \in ToSet(cmdline) : p.memmap /\ r \in ToSet(p.ranges)
  <2>1. r.sign = "$" /\ r \in ToSet(ranges)
    BY <1>1, <1>2, <1>3, ReservedRangesReserve DEF Reserved
  <2>2. ranges # <<>>
    BY <2>1 DEF ToSet
  <2> HIDE DEF ranges
  <2> QED
    BY <1>2, <2>1, <2>2
<1> QED
    BY <1>1, <1>3 DEF MemoryIsReserved

(* RustMonitor is given only memory that the running kernel's command line reserves, for
   every command line, and whatever fails, is interrupted or rebooted in between. *)
THEOREM MemoryGivenIsReserved == Spec => []MemoryIsReserved
<1>1. Init => MemoryInv
    BY DEF Init, MemoryInv
<1> QED
    BY <1>1, NextMemoryInv, MemoryInvReserves, PTL DEF Spec

(* Every launch that goes on has done the step before. *)
LEMMA NextLaunchInv ==
    ASSUME MemoryInv, LaunchInv, [Next]_vars
    PROVE  LaunchInv'
<1> USE DEF LaunchInv, LaunchSwitches, Launched, Launching, Reserved, host
<1>1. CASE Launch
    BY <1>1 DEF Launch, Start
<1>2. CASE Stop
    BY <1>2 DEF Stop, Start
<1>3. CASE Usage
    BY <1>3 DEF Usage
<1>4. CASE cp
    BY <1>4 DEF cp, Command, Works, Faulty
<1>5. CASE disable
    BY <1>5 DEF disable, Command, Works, Faulty, Refused
<1>6. CASE rmmod
    BY <1>6 DEF rmmod, Command, Works, Faulty, Refused
<1>7. CASE get_memmap_parameter
    BY <1>7 DEF get_memmap_parameter, Command
<1>8. CASE insmod
    BY <1>8 DEF insmod, Command, Works, Faulty, Refused, MemoryInv
<1>9. CASE enable
    BY <1>9, ImagesAssumption DEF enable, Command, Works, Faulty, Refused, MemoryInv
<1>10. CASE Interrupt
    BY <1>10 DEF Interrupt
<1>11. CASE Reboot
    BY <1>11 DEF Reboot
<1>12. CASE UNCHANGED vars
    BY <1>12 DEF vars, process
<1> QED
    BY <1>1, <1>2, <1>3, <1>4, <1>5, <1>6, <1>7, <1>8, <1>9, <1>10, <1>11, <1>12
       DEF Next, Script

(* Only a command that fails for no reason of the script's own can leave another
   RustMonitor running behind a launch that ends with status 0. *)
THEOREM LaunchesSwitch == Spec => []LaunchSwitches
<1>1. Init => MemoryInv /\ LaunchInv
    BY DEF Init, MemoryInv, LaunchInv, LaunchSwitches, Launched, Launching
<1>2. MemoryInv /\ LaunchInv /\ [Next]_vars => LaunchInv'
    BY NextLaunchInv
<1>3. LaunchInv => LaunchSwitches
    BY DEF LaunchInv
<1> QED
    BY <1>1, <1>2, <1>3, NextMemoryInv, PTL DEF Spec
=============================================================================
