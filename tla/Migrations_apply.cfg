CONSTANTS
    m1 = m1
    m2 = m2
    FirstSchemas <- SmallSchemas
    SortInputs <- SchemasOfFour
    Resources = {1, 2}
    Versions = {1, 2}
    TableOf <- AltersTwo
    Idempotent = {1}
    Runners = {m1, m2}
    Strategy = "auto"
    MaxEvents = 4
SPECIFICATION Spec
INVARIANTS TypeOK TargetsFirst DeployCompletes LedgerHonest NoGaps
SYMMETRY RunnerSymmetry
CHECK_DEADLOCK FALSE
