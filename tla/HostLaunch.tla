----------------------------- MODULE HostLaunch -----------------------------
(* Launching and stopping RustMonitor: launch_hyperenclave.sh and
   stop_hyperenclave.sh, run by hand one after the other, each command of which
   may fail without ending its script (there is no set -e), while somebody may
   interrupt the script or reboot the machine, perhaps with another kernel command
   line.

   The kernel module and RustMonitor are binaries.  As the README shows them at
   work, insmod takes the memory, and enabling loads the image from /lib/firmware;
   to enable again what is enabled changes nothing, and a module whose RustMonitor
   runs cannot be removed. *)
EXTENDS Naturals, SequencesExt

CONSTANTS
    Cmdlines,   \* what /proc/cmdline may hold: sequences of parameters
    Images,     \* files given as <rust_monitor.elf>
    MaxScripts  \* bound: scripts run

(* size$start reserves a range; size@start, for one, does not. *)
Ranges == [start : Nat, sign : {"$", "@"}]
ASSUME CmdlinesAssumption ==
    Cmdlines \subseteq Seq([memmap : BOOLEAN, ranges : Seq(Ranges)])
ASSUME ImagesAssumption == Images \intersect {"none", "truncated", "off"} = {}
ASSUME BoundAssumption == MaxScripts \in Nat

VARIABLES
    cmdline,
    firmware,       \* /lib/firmware/rust-monitor-amd: "none", "truncated", an image
    loaded,         \* does lsmod show hyper_enclave?
    str_memmap,     \* the ranges it was loaded with
    mode,           \* "off", or the image that runs: dev.hyper_enclave.enabled
    pc,             \* the script's next command; "idle" when none runs
    hv_img,         \* its first argument; "stop" in stop_hyperenclave.sh
    res,            \* what get_memmap_parameter printed; <<>> for ERROR
    status,         \* of the last command
    faults,         \* history: commands of this script that failed for no reason
    scripts

host    == <<cmdline, firmware, loaded, str_memmap, mode>>
process == <<pc, hv_img, res, status, faults>>
vars    == <<host, process, scripts>>

Init ==
    /\ cmdline \in Cmdlines
    /\ firmware = "none"
    /\ loaded = FALSE
    /\ str_memmap = <<>>
    /\ mode = "off"
    /\ pc = "idle"
    /\ hv_img = "stop"
    /\ res = <<>>
    /\ status = 0
    /\ faults = {}
    /\ scripts = 0

-----------------------------------------------------------------------------
Start(argument, first) ==
    /\ pc = "idle"
    /\ scripts < MaxScripts
    /\ scripts' = scripts + 1
    /\ hv_img' = argument
    /\ pc' = first
    /\ res' = <<>>
    /\ faults' = {}
    /\ UNCHANGED <<host, status>>

Launch == \E image \in Images : Start(image, "cp")
Stop   == Start("stop", "disable")

(* Without its arguments the script does nothing. *)
Usage ==
    /\ pc = "idle"
    /\ status' = 1
    /\ UNCHANGED <<host, pc, hv_img, res, faults, scripts>>

Command(name, next) == pc = name /\ pc' = next /\ UNCHANGED <<hv_img, scripts>>
Works   == status' = 0 /\ UNCHANGED faults
Refused == status' = 1 /\ UNCHANGED <<host, faults>>
Faulty  == status' = 1 /\ faults' = faults \union {pc}

(* The target is truncated before it is written. *)
cp ==
    /\ Command("cp", IF loaded THEN "disable" ELSE "get_memmap_parameter")
    /\ \/ firmware' = hv_img /\ Works
       \/ firmware' \in {firmware, "truncated"} /\ Faulty
    /\ UNCHANGED <<cmdline, loaded, str_memmap, mode, res>>

(* Mutant: only stop_hyperenclave.sh disables; the launch goes on to rmmod. *)
disable_StopOnly ==
    /\ Command("disable", IF hv_img = "stop" THEN "idle" ELSE "rmmod")
    /\ IF hv_img = "stop" /\ loaded THEN mode' = "off" /\ Works
                                    ELSE UNCHANGED mode /\ Works
    /\ UNCHANGED <<cmdline, firmware, loaded, str_memmap, res>>

(* sysctl dev.hyper_enclave.enabled=0; there is no such key without the module. *)
disable ==
    /\ Command("disable", IF hv_img = "stop" THEN "idle" ELSE "rmmod")
    /\ UNCHANGED res
    /\ \/ /\ ~loaded
          /\ Refused
       \/ /\ loaded
          /\ \/ mode' = "off" /\ Works
             \/ UNCHANGED mode /\ Faulty
          /\ UNCHANGED <<cmdline, firmware, loaded, str_memmap>>

rmmod ==
    /\ Command("rmmod", "get_memmap_parameter")
    /\ UNCHANGED res
    /\ \/ /\ ~loaded \/ mode # "off"
          /\ Refused
       \/ /\ loaded /\ mode = "off"
          /\ \/ loaded' = FALSE /\ str_memmap' = <<>> /\ Works
             \/ UNCHANGED <<loaded, str_memmap>> /\ Faulty
          /\ UNCHANGED <<cmdline, firmware, mode>>

(* The ranges of the first parameter that has "memmap=" in it. *)
MemmapParameter(line) ==
    LET found == {k \in DOMAIN line : line[k].memmap}
    IN IF found = {} THEN <<>> ELSE line[Min(found)].ranges

(* Mutant: the sign is not looked at. *)
ReservedRangesAnySign(ranges) == ranges

(* Those of the form size$start, added to res one by one; the others are passed
   over. *)
ReservedRanges(ranges) ==
    LET res_after[k \in 0 .. Len(ranges)] ==
            IF k = 0 THEN <<>>
            ELSE IF ranges[k].sign = "$" THEN Append(res_after[k - 1], ranges[k])
            ELSE res_after[k - 1]
    IN res_after[Len(ranges)]

(* With nothing found it prints ERROR, which the script tells the user, whose last
   command is then an echo. *)
get_memmap_parameter ==
    /\ res' = ReservedRanges(MemmapParameter(cmdline))
    /\ Command("get_memmap_parameter", IF res' = <<>> THEN "idle" ELSE "insmod")
    /\ status' = 0
    /\ UNCHANGED <<host, faults>>

insmod ==
    /\ Command("insmod", "enable")
    /\ UNCHANGED res
    /\ \/ /\ loaded
          /\ Refused
       \/ /\ ~loaded
          /\ \/ loaded' = TRUE /\ str_memmap' = res /\ Works
             \/ UNCHANGED <<loaded, str_memmap>> /\ Faulty
          /\ UNCHANGED <<cmdline, firmware, mode>>

(* sysctl dev.hyper_enclave.enabled=1, the last command. *)
enable ==
    /\ Command("enable", "idle")
    /\ UNCHANGED res
    /\ \/ /\ ~loaded \/ (mode = "off" /\ firmware \notin Images)
          /\ Refused
       \/ /\ loaded /\ mode # "off"
          /\ Works
          /\ UNCHANGED host
       \/ /\ loaded /\ mode = "off" /\ firmware \in Images
          /\ \/ mode' = firmware /\ Works
             \/ UNCHANGED mode /\ Faulty
          /\ UNCHANGED <<cmdline, firmware, loaded, str_memmap>>

(* Ctrl-C between two commands. *)
Interrupt ==
    /\ pc # "idle"
    /\ pc' = "idle"
    /\ status' = 130
    /\ UNCHANGED <<host, hv_img, res, faults, scripts>>

(* What is in /lib/firmware survives. *)
Reboot ==
    /\ cmdline' \in Cmdlines
    /\ loaded' = FALSE
    /\ str_memmap' = <<>>
    /\ mode' = "off"
    /\ pc' = "idle"
    /\ status' = 1
    /\ UNCHANGED <<firmware, hv_img, res, faults, scripts>>

Script == cp \/ disable \/ rmmod \/ get_memmap_parameter \/ insmod \/ enable

Next == Launch \/ Stop \/ Usage \/ Script \/ Interrupt \/ Reboot

Spec == Init /\ [][Next]_vars

-----------------------------------------------------------------------------
(* Properties. *)

(* RustMonitor is never given memory that Linux uses, too: what the module is
   loaded with is not empty and reserved by the command line the kernel was
   booted with, after any sequence of failed, interrupted and repeated launches. *)
MemoryIsReserved ==
    loaded =>
        /\ str_memmap # <<>>
        /\ \A r \in ToSet(str_memmap) :
               r.sign = "$" /\ \E p \in ToSet(cmdline) : p.memmap /\ r \in ToSet(p.ranges)

Launched == pc = "idle" /\ hv_img # "stop" /\ status = 0 /\ scripts > 0

(* A launch that ends with status 0 leaves a RustMonitor running, although only the
   last of its commands is looked at, or it said ERROR: nothing was to be reserved.
   When none of its commands failed but for what the script before it left behind (it
   failed half way, was interrupted, or runs another mode), the given image runs, on
   all the ranges of the parameter, or nothing runs after ERROR; only a fault leaves
   an older RustMonitor running behind a status of 0. *)
LaunchSwitches ==
    Launched =>
        LET ranges == ReservedRanges(MemmapParameter(cmdline))
        IN /\ mode # "off" \/ ranges = <<>>
           /\ faults = {} =>
                 IF ranges = <<>> THEN ~loaded /\ mode = "off"
                                  ELSE mode = hv_img /\ str_memmap = ranges
=============================================================================
