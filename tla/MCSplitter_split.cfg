\* Every song of up to 9 tracks, in every format, complete or not, split for
\* up to 8 clients.
SPECIFICATION Spec
CONSTANTS
    MaxTracks = 9
    MaxClients = 8
    Unknown = Unknown
INVARIANTS
    EveryTrackSent
    NoTrackTwice
    EvenParts
    InTime
\* A split ends.
CHECK_DEADLOCK FALSE
