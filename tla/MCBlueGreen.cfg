SPECIFICATION Spec
CONSTANTS
    MaxRuns = 6
    MaxCrashes = 2
CHECK_DEADLOCK FALSE
INVARIANTS
    NoOutage
    OneActive
PROPERTIES
    SavedIsActive
