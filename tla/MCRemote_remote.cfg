SPECIFICATION FairSpec
CONSTANTS
    Scripts <- MCScripts
    Garbage = {0, 7}
    MaxCalls = 6
INVARIANTS
    Obeys
PROPERTIES
    EverythingObeyed
CHECK_DEADLOCK FALSE
