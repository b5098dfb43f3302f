CONSTANTS
    log = log
    logIndex = logIndex
    precedents = precedents
    precedentsIndex = precedentsIndex
    Object <- MCObject
    TableOf <- MCTableOf
    Script <- MCScript
    Process = {p1, p2, p3}
    MaxInterrupts = 2
SPECIFICATION SpecMigrations
INVARIANTS
    OpenedIsComplete
    PostgresIsWhole
CHECK_DEADLOCK FALSE
