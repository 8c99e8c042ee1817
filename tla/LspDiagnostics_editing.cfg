CONSTANTS
    source = source
    toml = toml
    Docs = {source, toml}
    Manifest = toml
    Closed = Closed
    NotRun = NotRun
    LoadFailed = LoadFailed
    Broken = {2}
    Workers = 2
    MaxText = 2
    MaxMessages = 4
    MaxPanics = 1
SPECIFICATION FairSpec
CHECK_DEADLOCK FALSE
INVARIANTS TypeOK StaleOnlyByRace StoreMirrorsEditor
PROPERTY PackageFindingsArrive
