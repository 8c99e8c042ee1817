CONSTANTS
    source = source
    toml = toml
    Docs = {source, toml}
    Manifest = toml
    Closed = Closed
    NotRun = NotRun
    LoadFailed = LoadFailed
    Broken = {}
    Workers = 2
    MaxText = 1
    MaxMessages = 3
    MaxPanics = 0
SPECIFICATION Spec
CHECK_DEADLOCK FALSE
INVARIANT StaleNeverOverwrites
