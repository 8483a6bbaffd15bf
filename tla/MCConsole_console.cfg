SPECIFICATION Spec
CONSTANTS
    NoPlayer = NoPlayer
    Songs <- MCSongs
    Length <- MCLength
    Beat = 150
    Lines <- MCLines
    INT_MAX = 32767
    MaxAddresses = 2
    MaxClients = 1
INVARIANTS
    FailsOnlyWhere
PROPERTIES
    CommandsAsTyped
    SeeksWhereAsked
CHECK_DEADLOCK FALSE
