CONSTANTS
    log = log
    logIndex = logIndex
    precedents = precedents
    precedentsIndex = precedentsIndex
    Object <- MCObject
    TableOf <- MCTableOf
    Script <- MCScript
    Process = {p1}
    MaxInterrupts = 2
SPECIFICATION SpecMigrations
INVARIANT
    NoPartialState
CHECK_DEADLOCK FALSE
