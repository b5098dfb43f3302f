CONSTANTS
    log = log
    logIndex = logIndex
    precedents = precedents
    precedentsIndex = precedentsIndex
    Object <- MCObject
    TableOf <- MCTableOf
    Script <- MCScript
    Process = {p1, p2}
    MaxInterrupts = 0
SPECIFICATION SpecMigrations
INVARIANTS
    OpenedHasSchema
CHECK_DEADLOCK FALSE
