\* Sessions after one another, with threads of the earlier ones still running:
\* what holds all the same.
SPECIFICATION Spec
CONSTANTS
    Conn = {c1, c2, c3}
    c1 = c1
    c2 = c2
    c3 = c3
    None = None
    Main = Main
    Fault = {}
    Command = {"load", "play", "reconnect", "quit", "interrupt"}
    MaxPlays = 2
SYMMETRY Symmetry
INVARIANTS
    BarrierMeansDelivered
\* The operator may stop typing, and the processes may exit.
CHECK_DEADLOCK FALSE
