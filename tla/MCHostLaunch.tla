---------------------------- MODULE MCHostLaunch ----------------------------
(* Model values for HostLaunch: command lines without a memmap parameter, with two
   ranges in one, with one that reserves nothing, and with two parameters. *)
EXTENDS HostLaunch

Quiet == [memmap |-> FALSE, ranges |-> <<>>]
Memmap(ranges) == [memmap |-> TRUE, ranges |-> ranges]
Reserve(n) == [start |-> n, sign |-> "$"]
Use(n) == [start |-> n, sign |-> "@"]

MCCmdlines ==
    {<<Quiet>>,
     <<Quiet, Memmap(<<Reserve(1), Reserve(2)>>)>>,
     <<Memmap(<<Use(1)>>), Memmap(<<Reserve(2)>>)>>,
     <<Memmap(<<Use(1), Reserve(2)>>), Memmap(<<Reserve(3)>>)>>}

MCImages == {"sme", "sme_hu"}
=============================================================================
