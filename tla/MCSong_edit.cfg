CONSTANTS
  InitialTempo = 500000
  InitialPpqn = 120
  MaxTracks = 2
  MaxEvents = 3
  MaxHand = 1
  Pulses = {0, 30, 31}
  Seconds = {125000, 129166}
  Ppqns = {120}
  Messages <- TwoMessages
  Calls = {"edit"}
SPECIFICATION Spec
INVARIANTS
    Consistent
    SecondsFollowTempos
PROPERTIES
    EotStaysLast
CHECK_DEADLOCK FALSE
