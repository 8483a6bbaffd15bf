------------------------------ MODULE Orchestra ------------------------------
(***************************************************************************)
(* The whole program: one server process and any number of clients, from   *)
(* the first connection to the moment everybody plays, and through what    *)
(* the operator may do next.                                               *)
(***************************************************************************)
EXTENDS ServerThreads, PlayClient

vars == << netVars, serverVars, clientVars >>

TypeOK == NetTypeOK /\ ServerTypeOK /\ ClientTypeOK

Init == NetInit /\ ServerInit /\ ClientInit

\* A step of the server leaves what the clients keep to themselves, and a step
\* of a client what the threads of the server do.
Server(A) == A /\ UNCHANGED clientVars
Client(A) == A /\ UNCHANGED serverVars

Next ==
    \/ Server(MainStep)
    \/ Server(OperatorStep)
    \/ Server(LoadFails \/ CreateFails)
    \/ \E c \in Conn :
          \/ Server(handle_socket(c))
          \/ Server(WorkerStep(c))
          \/ Server(WorkerFault(c))
          \/ Client(Connect(c))
          \/ Client(ClientStep(c))
          \/ Client(ClientEnd(c))
          \/ Client(ClientDies(c))

Spec == Init /\ [][Next]_vars

(* The scheduler runs every thread that can go on: the main thread through  *)
(* a handler and back to its select loop, where pending connections are     *)
(* accepted, each worker and each client.  Nothing makes the operator type, *)
(* a client connect, or anything fail.  Weak fairness is enough for the     *)
(* mutex while no wakeup is spurious: each thread then takes it at most     *)
(* twice in a play, so that nobody can be passed over for ever.             *)
Fairness ==
    /\ WF_vars(Server(MainStep))
    /\ \A c \in Conn :
          /\ WF_vars(Server(handle_socket(c)))
          /\ WF_vars(Server(WorkerStep(c)))
          /\ WF_vars(Client(ClientStep(c)))

FairSpec == Spec /\ Fairness

-----------------------------------------------------------------------------
(* Safety.                                                                  *)

Workers == {c \in Conn : wpc[c] # "none"}
Released == {c \in Conn : wpc[c] \in {"play", "done"}}

\* The mutex is held exactly by the thread between its lock and its unlock or
\* its wait (server_thread.c:59-64, cmd_handlers.c:150-161).
MutexDiscipline ==
    /\ (owner = Main) <=> (main \in {"ready", "init", "broadcast"})
    /\ \A c \in Conn : (owner = c) <=> (wpc[c] \in {"check", "wait"})

\* No worker sleeps on the condition variable once midi_ready is set and main
\* has broadcast, although main resets midi_ready without the mutex
\* (cmd_handlers.c:376 against 150-161 and server_thread.c:59-64).
NoLostWakeup ==
    midi_ready /\ main \notin {"init", "broadcast"} =>
        \A c \in Conn : wpc[c] # "sleep"

\* A thread never waits at the barrier before pthread_barrier_init
\* (server_thread.c:117, cmd_handlers.c:153-158), and the barrier never holds
\* as many threads as it waits for.
BarrierInitBeforeUse ==
    barrier_in # {} => barrier_initialized /\ Cardinality(barrier_in) < barrier_count

\* Main has been through the barrier, and back at its select loop since.
MainReleased == plays > 1 \/ (plays = 1 /\ main = "select")

\* Nobody, be it a worker or the main thread, leaves the barrier of the first
\* play while a worker of the session or the main thread has still to reach it
\* (cmd_handlers.c:155, 169, server_thread.c:117).
ReleasedTogether ==
    Released # {} \/ MainReleased => clients \subseteq Released /\ MainReleased

\* When a client of the session plays, every live client of the session holds
\* its whole part, all from the same play (server_thread.c:114-124), so that the
\* computers play "together forming an electronic orchestra" (PROPOSAL.md:2).
StartTogether ==
    \A c \in clients : up = "running" /\ playing[c] =>
        /\ fbuff[c] # Torn
        /\ \A d \in clients : alive[d] => fbuff[d] = fbuff[c]

\* Each of the files create_midi_files makes has one reader among all the
\* workers there are, no more and no less, and no worker is let go to a file
\* that was not made (cmd_handlers.c:353, 365, 386, server_thread.c:72).
PartsCovered ==
    /\ \A i \in DOMAIN files : \E c \in Workers : \A d \in Workers : wtid[d] = i <=> d = c
    /\ midi_ready => \A c \in Workers : wtid[c] \in DOMAIN files

\* A client always finds at the head of the stream the unit it is about to
\* read: commands are not read as sizes, nor data as commands
\* (server_thread.c:49-124, client.c:72-131, 154-177).
InStep ==
    \A c \in Conn : alive[c] /\ toClient[c] # << >> =>
        Head(toClient[c]).kind \in
            CASE cpc[c] = "confirm"  -> {"connected"}
              [] cpc[c] = "commands" -> {"NFILE", "PLAY"}
              [] cpc[c] = "size"     -> {"size"}
              [] cpc[c] = "data"     -> {"data"}
              [] OTHER               -> {}

\* A worker reaches the barrier only when its client has stored a file, or is
\* gone, and there is no second answer (server_thread.c:107-117).
BarrierMeansDelivered ==
    \A c \in Conn : up = "running" /\ alive[c] /\ wpc[c] \in {"barrier", "play", "done"} =>
        fbuff[c] # None /\ ~toServer[c]

\* A client that was turned away never plays and never holds a file, although
\* it takes itself for connected and repeats the command in sbuf for ever
\* (cmd_handlers.c:338-342, client.c:69-79).
TurnedAwayIsSilent ==
    \A c \in Conn : sock[c] = "closed" /\ wpc[c] = "none" =>
        ~playing[c] /\ fbuff[c] = None /\ toClient[c] = << >>

\* The quit command never blocks in pthread_cond_destroy or
\* pthread_barrier_destroy: at the prompt no thread it leaves running is asleep
\* in either (cmd_handlers.c:283-309).
QuitNeverHangs == up # "hung"

-----------------------------------------------------------------------------
(* What a step may never do.                                                *)

\* Between the size and the bytes a worker sends, main does not rewrite its
\* file (server_thread.c:82-102, cmd_handlers.c:386-395).
FileStableWhileRead ==
    [][ \A c \in Conn : wpc[c] = "data" => files'[wtid[c]] = files[wtid[c]] ]_vars

\* Once the barrier counts the clients nobody joins or leaves them
\* (cmd_handlers.c:155, 338, 373).
RosterFrozen ==
    [][ barrier_initialized => clients' = clients ]_vars

-----------------------------------------------------------------------------
(* Liveness.                                                                *)

\* handle_play comes back to the prompt (cmd_handlers.c:169-177).
PlayReturns == (main # "select") ~> (main = "select" \/ up # "running")

\* Every connection is answered: with a worker, or by closing it, even when it
\* comes during a play (shell.c:182-210, cmd_handlers.c:327-366).
EveryoneAnswered ==
    \A c \in Conn : (sock[c] = "backlog") ~> (sock[c] # "backlog" \/ up # "running")

-----------------------------------------------------------------------------
(* A session is a Concert: the barrier is its start.                        *)

concertArrived ==
    barrier_in \cup Released \cup (IF Released # {} THEN {Main} ELSE {})

concert == INSTANCE Concert WITH
    Player    <- Conn,
    Conductor <- Main,
    roster    <- clients,
    closed    <- ~accepting_clients,
    arrived   <- concertArrived,
    playing   <- {c \in Conn : playing[c]}

\* The code of a session starts its players as a Concert does
\* (cmd_handlers.c:128-178, server_thread.c:114-124) ...
ConcertSafe == concert!Safe

\* ... and, once play is typed, every client of the session comes to play.
ConcertSpec == concert!Spec
=============================================================================
