------------------------------- MODULE Concert -------------------------------
(***************************************************************************)
(* What one session of the program promises: players join until the roster *)
(* is closed, each of them and the conductor (the server's own thread)     *)
(* reports once that it has all it needs, and only when all have reported  *)
(* does any player of the roster start.                                    *)
(***************************************************************************)
CONSTANTS
    Player,
    Conductor   \* one more participant of the start, which does not play

VARIABLES
    roster,     \* the players that joined
    closed,     \* nobody can join any more
    arrived,    \* the participants that are ready
    playing     \* the players that have started

concertVars == << roster, closed, arrived, playing >>

Participants == roster \cup {Conductor}
Started == closed /\ arrived = Participants

TypeOK ==
    /\ roster \subseteq Player
    /\ closed \in BOOLEAN
    /\ arrived \subseteq Participants
    /\ playing \subseteq roster

Init == roster = {} /\ closed = FALSE /\ arrived = {} /\ playing = {}

Join(p) ==
    /\ ~closed
    /\ roster' = roster \cup {p}
    /\ UNCHANGED << closed, arrived, playing >>

Close ==
    /\ roster # {}
    /\ closed' = TRUE
    /\ UNCHANGED << roster, arrived, playing >>

Arrive(p) ==
    /\ closed
    /\ p \in Participants \ arrived
    /\ arrived' = arrived \cup {p}
    /\ UNCHANGED << roster, closed, playing >>

Play(p) ==
    /\ Started
    /\ p \in roster
    /\ playing' = playing \cup {p}
    /\ UNCHANGED << roster, closed, arrived >>

Next ==
    \/ Close
    \/ Arrive(Conductor)
    \/ \E p \in Player : Join(p) \/ Arrive(p) \/ Play(p)

\* Joining and closing are up to people; the rest must come by itself.
Fairness ==
    /\ WF_concertVars(Arrive(Conductor))
    /\ \A p \in Player : WF_concertVars(Arrive(p)) /\ WF_concertVars(Play(p))

Safe == Init /\ [][Next]_concertVars
Spec == Safe /\ Fairness
=============================================================================
