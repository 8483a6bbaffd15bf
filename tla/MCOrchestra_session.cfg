\* One session of three clients with every failure: what never goes wrong
\* until the operator reconnects.
SPECIFICATION Spec
CONSTANTS
    Conn = {c1, c2, c3}
    c1 = c1
    c2 = c2
    c3 = c3
    None = None
    Main = Main
    Fault = {"client", "disk", "midi", "wakeup"}
    Command = {"load", "play", "quit"}
    MaxPlays = 2
SYMMETRY Symmetry
INVARIANTS
    TypeOK
    NoLostWakeup
    BarrierInitBeforeUse
    ReleasedTogether
    StartTogether
    PartsCovered
    InStep
    BarrierMeansDelivered
    TurnedAwayIsSilent
    QuitNeverHangs
PROPERTIES
    FileStableWhileRead
    RosterFrozen
    ConcertSafe
\* The operator may stop typing, and the processes may exit.
CHECK_DEADLOCK FALSE
