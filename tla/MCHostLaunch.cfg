\* Up to three scripts, failing, interrupted and repeated, with reboots in between.
SPECIFICATION Spec
CONSTANTS
    MaxScripts = 3
    Cmdlines <- MCCmdlines
    Images <- MCImages
INVARIANTS
    MemoryIsReserved
    LaunchSwitches
