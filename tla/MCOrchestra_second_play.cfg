\* A second play with the same clients.
SPECIFICATION FairSpec
CONSTANTS
    Conn = {c1}
    c1 = c1
    c2 = c2
    c3 = c3
    None = None
    Main = Main
    Fault = {}
    Command = {"load", "play"}
    MaxPlays = 2
PROPERTIES
    PlayReturns
\* The operator may stop typing, and the processes may exit.
CHECK_DEADLOCK FALSE
