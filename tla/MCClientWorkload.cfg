\* The documented option -w of client/redis/benchmark.sh.
SPECIFICATION Spec
CONSTANTS
    Clients = {"redis"}
    Lines <- MCWorkloadLines
    Environment = {""}
    CliServers <- MCDefaultCli
    Targets <- MCTargets
    DefaultRuns = 2
    Values = {1}
INVARIANTS
    WorkloadOptionAccepted
CHECK_DEADLOCK FALSE
