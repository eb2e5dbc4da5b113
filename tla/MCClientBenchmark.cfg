\* Both scripts, with command lines of up to three rounds over two targets.
SPECIFICATION Spec
CONSTANTS
    Clients = {"redis", "lighttpd"}
    Lines <- MCLines
    Environment = {"", "G"}
    CliServers <- MCCliServers
    Targets <- MCTargets
    DefaultRuns = 2
    Values = {1, 3}
INVARIANTS
    RowsAreRounds
    MedianIsMiddle
    FailureReported
    FreshIfFlushed
CHECK_DEADLOCK FALSE
