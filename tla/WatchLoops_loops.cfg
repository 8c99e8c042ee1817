CONSTANTS
    None = None
    Kinds = {"dev", "doctor", "test"}
    MaxSaves = 3
    MaxFaults = 1
SPECIFICATION FairSpec
INVARIANT TypeOK
PROPERTIES SavedIsSeen ServerFollowsSource LoopSettles
CHECK_DEADLOCK FALSE
