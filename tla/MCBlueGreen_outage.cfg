SPECIFICATION Spec
CONSTANTS
    MaxRuns = 4
    MaxCrashes = 0
CHECK_DEADLOCK FALSE
INVARIANTS
    ClientsCanReconnect
