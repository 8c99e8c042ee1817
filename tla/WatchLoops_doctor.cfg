CONSTANTS
    None = None
    Kinds = {"doctor"}
    MaxSaves = 2
    MaxFaults = 0
SPECIFICATION FairSpec
PROPERTY EveryChangeIsChecked
CHECK_DEADLOCK FALSE
