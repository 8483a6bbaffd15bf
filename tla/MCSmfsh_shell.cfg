CONSTANTS
  InitialTempo = 500000
  InitialPpqn = 120
  Messages <- SomeMessages
  Seconds <- SomeSeconds
  Ppqns = {4}
  Formats = {0, 2}
  Files <- SomeFiles
  MaxTracks = 2
  MaxEvents = 2
SPECIFICATION Spec
INVARIANTS
    SelectionHolds
    TracksFitFormat
CHECK_DEADLOCK FALSE
