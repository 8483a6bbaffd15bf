CONSTANTS
  InitialTempo = 500000
  InitialPpqn = 120
  MaxTracks = 2
  MaxEvents = 3
  MaxHand = 1
  Pulses = {0, 30, 31}
  Seconds = {125000, 129166}
  Ppqns = {120}
  Messages <- TwoMessages
  Calls = {"play"}
SPECIFICATION Spec
INVARIANTS
    PlaysInOrder
    SeeksLand
    FailsOnlyWhenStale
CHECK_DEADLOCK FALSE
