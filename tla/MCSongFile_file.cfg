CONSTANTS
  InitialTempo = 500000
  InitialPpqn = 2
  Messages <- SomeMessages
  Pulses = {0, 130}
  Ppqns = {4, 32768}
  MaxTracks = 2
  MaxEvents = 3
  MaxSaves = 2
  Foreign <- ForeignFiles
SPECIFICATION Spec
INVARIANTS
    LoadedAlike
    LoadedInTime
PROPERTIES
    SavesWhatItCan
CHECK_DEADLOCK FALSE
