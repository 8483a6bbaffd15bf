\* One play without failures: it comes to an end, and is a concert in which
\* everybody plays.
SPECIFICATION FairSpec
CONSTANTS
    Conn = {c1, c2, c3}
    c1 = c1
    c2 = c2
    c3 = c3
    None = None
    Main = Main
    Fault = {}
    Command = {"load", "play"}
    MaxPlays = 1
PROPERTIES
    PlayReturns
    EveryoneAnswered
    ConcertSpec
\* The operator may stop typing, and the processes may exit.
CHECK_DEADLOCK FALSE
