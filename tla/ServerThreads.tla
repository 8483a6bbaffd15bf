---------------------------- MODULE ServerThreads ----------------------------
(***************************************************************************)
(* The server process: the main thread, which runs select() over the       *)
(* operator's terminal and the listening socket (server/shell.c) and the   *)
(* command handlers (server/cmd_handlers.c), and one worker thread per     *)
(* accepted connection (server/server_thread.c).  They share midi_ready    *)
(* with its mutex and condition variable, the barrier midi_play_barrier,   *)
(* the list of clients and the files of the tmp directory.                 *)
(***************************************************************************)
EXTENDS Connection

CONSTANTS
    Main,      \* the main thread, as a participant of the mutex and barrier
    Command    \* what the operator does, among the commands modelled here and ^C

ASSUME ServerAssumption ==
    /\ Main \notin Conn
    /\ Main # None
    /\ Command \subseteq {"load", "play", "reconnect", "quit", "interrupt"}

VARIABLES
    main,                 \* where the main thread is
    accepting_clients,    \* as in the code
    mfile,                \* a file is loaded
    tid,                  \* the number of the next client
    clients,              \* the connections in the list of clients
    plays,                \* orchestra plays started so far
    nwritten,             \* files create_midi_files has finished
    files,                \* part number -> contents, for the files that exist
    midi_ready,           \* as in the code
    owner,                \* holder of midi_ready_cond_mutex, or None
    barrier_initialized,  \* as in the code
    barrier_count,        \* the count the barrier was initialised with
    barrier_in,           \* the threads blocked in pthread_barrier_wait
    wpc,                  \* where each worker thread is
    wtid,                 \* my_id of each worker thread
    sized                 \* contents of the worker's file when it was sized

mainVars == << main, accepting_clients, mfile, tid, clients, plays, nwritten, files >>
syncVars == << midi_ready, owner, barrier_initialized, barrier_count, barrier_in >>
workerVars == << wpc, wtid, sized >>
serverVars == << mainVars, syncVars, workerVars >>

MainPC == {"select", "open", "fill", "lock", "ready", "init", "broadcast",
           "arrive", "barrier"}
WorkerPC == {"none", "start", "lock", "check", "wait", "sleep", "newfile",
             "open", "data", "recv", "barrier", "play", "done", "failed"}

ServerTypeOK ==
    /\ main \in MainPC
    /\ accepting_clients \in BOOLEAN
    /\ mfile \in BOOLEAN
    /\ tid \in Nat
    /\ clients \subseteq Conn
    /\ plays \in 0 .. MaxPlays
    /\ nwritten \in 0 .. Cardinality(Conn)
    /\ DOMAIN files \subseteq 0 .. Cardinality(Conn) - 1
    /\ files \in [DOMAIN files -> Contents]
    /\ midi_ready \in BOOLEAN
    /\ owner \in Conn \cup {Main, None}
    /\ barrier_initialized \in BOOLEAN
    /\ barrier_count \in Nat
    /\ barrier_in \subseteq Conn \cup {Main}
    /\ wpc \in [Conn -> WorkerPC]
    /\ wtid \in [Conn -> Nat]
    /\ sized \in [Conn -> Contents]

ServerInit ==
    /\ main = "select"
    /\ accepting_clients = TRUE
    /\ mfile = FALSE
    /\ tid = 0
    /\ clients = {}
    /\ plays = 0
    /\ nwritten = 0
    /\ files = << >>
    /\ midi_ready = FALSE
    /\ owner = None
    /\ barrier_initialized = FALSE
    /\ barrier_count = 0
    /\ barrier_in = {}
    /\ wpc = [c \in Conn |-> "none"]
    /\ wtid = [c \in Conn |-> 0]
    /\ sized = [c \in Conn |-> Torn]

-----------------------------------------------------------------------------
(* Steps shared by the threads.                                            *)

\* exit(1), a fatal signal or a return from main: all threads stop.
ServerExits ==
    /\ up' = "exited"
    /\ UNCHANGED << sock, alive, toClient, toServer, serverVars >>

\* The main thread is at pc, in a command handler or in its select loop.
MainAt(pc) == up = "running" /\ main = pc
MainGoes(pc) == main' = pc

WorkerAt(c, pc) == up = "running" /\ wpc[c] = pc
WorkerGoes(c, pc) == wpc' = [wpc EXCEPT ![c] = pc]

\* pthread_mutex_lock(midi_ready_cond_mutex) can return.
MutexFree == owner = None

\* The threads pthread_cond_broadcast wakes.
Woken_One == LET asleep == {c \in Conn : wpc[c] = "sleep"}
             IN  IF asleep = {} THEN {} ELSE {CHOOSE c \in asleep : TRUE}
Woken == {c \in Conn : wpc[c] = "sleep"}

\* The number of arrivals pthread_barrier_init is told to wait for.
BarrierCount_WithoutMain(listed) == Cardinality(listed)
BarrierCount_OneTooMany(listed) == Cardinality(listed) + 2
BarrierCount(listed) == Cardinality(listed) + 1

\* These threads are as many as the barrier waits for.
Completes(in) == Cardinality(in) = barrier_count

(* pthread_barrier_wait by thread t: the arrival that completes the count   *)
(* releases everyone, any other blocks.                                     *)
Arrive(t) ==
    LET in == barrier_in \cup {t}
        full == Completes(in)
        next == IF full THEN "play" ELSE "barrier"
        moved == IF full THEN in ELSE {t}
    IN  /\ barrier_in' = IF full THEN {} ELSE in
        /\ wpc' = [c \in Conn |-> IF c \in moved THEN next ELSE wpc[c]]
        /\ main' = IF Main \notin moved THEN main
                   ELSE IF full THEN "select" ELSE "barrier"

-----------------------------------------------------------------------------
(* The main thread: the select loop and the command handlers.               *)

\* handle_socket gives the connection a worker, and it this number; the next
\* one gets another.
Admits_Always == TRUE
Admits == accepting_clients

NextTid_Same == tid
NextTid == tid + 1

\* Connections accepted while accepting_clients is set get a worker thread
\* and a place in the list; the others are closed at once.
handle_socket(c) ==
    /\ MainAt("select")
    /\ sock[c] = "backlog"
    /\ IF Admits
       THEN /\ sock' = [sock EXCEPT ![c] = "open"]
            /\ clients' = clients \cup {c}
            /\ wtid' = [wtid EXCEPT ![c] = tid]
            /\ WorkerGoes(c, "start")
            /\ tid' = NextTid
       ELSE /\ sock' = [sock EXCEPT ![c] = "closed"]
            /\ UNCHANGED << clients, wtid, wpc, tid >>
    /\ UNCHANGED << up, alive, toClient, toServer, main, accepting_clients, mfile,
                    plays, nwritten, files, syncVars, sized >>

(* A file that passes fluid_is_midifile replaces the loaded one; when it    *)
(* cannot be opened any more there is none left; a parse error exits.       *)
handle_load ==
    /\ MainAt("select")
    /\ "load" \in Command
    /\ mfile' \in IF "midi" \in Fault THEN BOOLEAN ELSE {TRUE}
    /\ UNCHANGED << netVars, main, accepting_clients, tid, clients, plays, nwritten,
                    files, syncVars, workerVars >>

LoadFails ==
    /\ MainAt("select")
    /\ "load" \in Command /\ "midi" \in Fault
    /\ ServerExits

(* handle_play up to the first file: with nothing loaded it returns, with   *)
(* no clients the server plays alone, and neither touches this state.       *)
(* midi_ready is reset without taking its mutex.                            *)
handle_play ==
    /\ MainAt("select")
    /\ "play" \in Command
    /\ mfile /\ clients # {} /\ plays < MaxPlays
    /\ accepting_clients' = FALSE
    /\ midi_ready' = FALSE
    /\ plays' = plays + 1
    /\ nwritten' = 0
    /\ MainGoes("open")
    /\ UNCHANGED << netVars, mfile, tid, clients, files, owner, barrier_initialized,
                    barrier_count, barrier_in, workerVars >>

\* fopen(out_<i>.mid, "w") creates the file or truncates the one there is.
OpenOut ==
    /\ MainAt("open")
    /\ files' = [i \in DOMAIN files \cup {nwritten} |->
                    IF i = nwritten THEN Torn ELSE files[i]]
    /\ MainGoes("fill")
    /\ UNCHANGED << netVars, accepting_clients, mfile, tid, clients, plays, nwritten,
                    syncVars, workerVars >>

\* The loop over the listed clients goes on after n of them.
MoreFiles_Inclusive(n) == n <= Cardinality(clients)
MoreFiles(n) == n < Cardinality(clients)

\* mfwrite fills the file; the loop ends with one for every listed client.
FillOut ==
    /\ MainAt("fill")
    /\ files' = [files EXCEPT ![nwritten] = plays]
    /\ nwritten' = nwritten + 1
    /\ MainGoes(IF MoreFiles(nwritten + 1) THEN "open" ELSE "lock")
    /\ UNCHANGED << netVars, accepting_clients, mfile, tid, clients, plays,
                    syncVars, workerVars >>

(* No file is made: a format 0 file is not split and the NULL is used, the   *)
(* tmp directory is unusable, fopen returns NULL, or the writer gives up.    *)
(* Mfile_from_headers (midi.c:14-23) and Mevent_copy (midi.c:48-54) lack     *)
(* their return statements, so that a split may also fail on a sound file:   *)
(* what the caller gets is undefined.                                        *)
CreateFails ==
    /\ MainAt("open") \/ MainAt("fill")
    /\ {"disk", "midi"} \cap Fault # {}
    /\ ServerExits

MainLock ==
    /\ MainAt("lock")
    /\ MutexFree
    /\ owner' = Main
    /\ MainGoes("ready")
    /\ UNCHANGED << netVars, accepting_clients, mfile, tid, clients, plays, nwritten,
                    files, midi_ready, barrier_initialized, barrier_count, barrier_in,
                    workerVars >>

SetReady_ThenUnlocks ==
    /\ MainAt("ready")
    /\ midi_ready' = TRUE
    /\ owner' = None
    /\ MainGoes("init")
    /\ UNCHANGED << netVars, accepting_clients, mfile, tid, clients, plays, nwritten,
                    files, barrier_initialized, barrier_count, barrier_in, workerVars >>

SetReady ==
    /\ MainAt("ready")
    /\ midi_ready' = TRUE
    /\ MainGoes("init")
    /\ UNCHANGED << netVars, accepting_clients, mfile, tid, clients, plays, nwritten,
                    files, owner, barrier_initialized, barrier_count, barrier_in,
                    workerVars >>

\* Only the first play of the process initialises the barrier.
InitBarrier ==
    /\ MainAt("init")
    /\ barrier_initialized' = TRUE
    /\ barrier_count' = IF barrier_initialized THEN barrier_count
                        ELSE BarrierCount(clients)
    /\ MainGoes("broadcast")
    /\ UNCHANGED << netVars, accepting_clients, mfile, tid, clients, plays, nwritten,
                    files, midi_ready, owner, barrier_in, workerVars >>

\* pthread_cond_broadcast and the unlock that follows it.
Broadcast ==
    /\ MainAt("broadcast")
    /\ wpc' = [c \in Conn |-> IF c \in Woken THEN "lock" ELSE wpc[c]]
    /\ owner' = None
    /\ MainGoes("arrive")
    /\ UNCHANGED << netVars, accepting_clients, mfile, tid, clients, plays, nwritten,
                    files, midi_ready, barrier_initialized, barrier_count, barrier_in,
                    wtid, sized >>

MainArrive_WithoutWaiting ==
    /\ MainAt("arrive")
    /\ MainGoes("select")
    /\ UNCHANGED << netVars, accepting_clients, mfile, tid, clients, plays, nwritten,
                    files, syncVars, workerVars >>

MainArrive ==
    /\ MainAt("arrive")
    /\ Arrive(Main)
    /\ UNCHANGED << netVars, accepting_clients, mfile, tid, clients, plays, nwritten,
                    files, midi_ready, owner, barrier_initialized, barrier_count,
                    wtid, sized >>

(* clear_connections frees the list and the arguments of its threads;       *)
(* setup_connections starts an empty one.  No thread is cancelled, no       *)
(* socket closed, and neither midi_ready nor the barrier is touched.        *)
setup_connections ==
    /\ clients' = {}
    /\ tid' = 0
    /\ accepting_clients' = TRUE

handle_reconnect ==
    /\ MainAt("select")
    /\ "reconnect" \in Command
    /\ setup_connections
    /\ UNCHANGED << netVars, main, mfile, plays, nwritten, files, syncVars, workerVars >>

\* Threads that handle_quit does not cancel, or cannot, out of the condition
\* variable and the barrier it then destroys.
Lingering == barrier_in \cup {c \in Conn \ clients : wpc[c] = "sleep"}

(* quit, exit or end of input.  Destroying a condition variable or a        *)
(* barrier that is in use is undefined: it returns, or waits for ever for   *)
(* the threads in it.                                                       *)
handle_quit ==
    /\ MainAt("select")
    /\ "quit" \in Command
    /\ up' \in IF Lingering = {} THEN {"exited"} ELSE {"exited", "hung"}
    /\ UNCHANGED << sock, alive, toClient, toServer, serverVars >>

(* ^C runs handle_quit in the signal handler, wherever the main thread is:  *)
(* in the barrier it is one of the threads the barrier is destroyed under,  *)
(* and in a handler it may hold a lock of the C library that quit takes.    *)
sighandler ==
    /\ up = "running"
    /\ "interrupt" \in Command
    /\ up' \in IF main = "select" /\ Lingering = {} THEN {"exited"}
               ELSE {"exited", "hung"}
    /\ UNCHANGED << sock, alive, toClient, toServer, serverVars >>

-----------------------------------------------------------------------------
(* The worker thread of connection c.                                       *)

Listed(c) == c \in clients

\* The thread reads its argument, sends "connected" and its number.  Errors
\* are reported and forgotten.  An argument already freed by reconnect may
\* hold anything: the thread goes on or the process crashes.
Greet(c) ==
    /\ WorkerAt(c, "start")
    /\ Sent(c, << Plain("connected"), Plain("id") >>)
    /\ WorkerGoes(c, "lock")
    /\ UNCHANGED << up, sock, alive, toServer, mainVars, syncVars, wtid, sized >>

WorkerLock(c) ==
    /\ WorkerAt(c, "lock")
    /\ MutexFree
    /\ owner' = c
    /\ WorkerGoes(c, "check")
    /\ UNCHANGED << netVars, mainVars, midi_ready, barrier_initialized, barrier_count,
                    barrier_in, wtid, sized >>

\* while (!*midi_ready): ready, it unlocks and goes on; not ready, it waits,
\* which releases the mutex and falls asleep in one step.
CheckReady(c) ==
    /\ WorkerAt(c, "check")
    /\ WorkerGoes(c, IF midi_ready THEN "newfile" ELSE "wait")
    /\ owner' = IF midi_ready THEN None ELSE owner
    /\ UNCHANGED << netVars, mainVars, midi_ready, barrier_initialized, barrier_count,
                    barrier_in, wtid, sized >>

CondWait(c) ==
    /\ WorkerAt(c, "wait")
    /\ WorkerGoes(c, "sleep")
    /\ owner' = None
    /\ UNCHANGED << netVars, mainVars, midi_ready, barrier_initialized, barrier_count,
                    barrier_in, wtid, sized >>

SpuriousWakeup(c) ==
    /\ "wakeup" \in Fault
    /\ WorkerAt(c, "sleep")
    /\ WorkerGoes(c, "lock")
    /\ UNCHANGED << netVars, mainVars, syncVars, wtid, sized >>

SendNewFile(c) ==
    /\ WorkerAt(c, "newfile")
    /\ Sent(c, << Plain("NFILE") >>)
    /\ WorkerGoes(c, "open")
    /\ UNCHANGED << up, sock, alive, toServer, mainVars, syncVars, wtid, sized >>

\* Its file is opened and sized, and the size sent.
SendSize(c) ==
    /\ WorkerAt(c, "open")
    /\ wtid[c] \in DOMAIN files
    /\ sized' = [sized EXCEPT ![c] = files[wtid[c]]]
    /\ Sent(c, << Carrying("size", files[wtid[c]]) >>)
    /\ WorkerGoes(c, "data")
    /\ UNCHANGED << up, sock, alive, toServer, mainVars, syncVars, wtid >>

\* fopen fails: the worker exits, and the whole server with it.
OpenFails(c) ==
    /\ WorkerAt(c, "open")
    /\ wtid[c] \notin DOMAIN files \/ "disk" \in Fault
    /\ ServerExits

(* As many bytes as were counted are read and sent: a file written again in *)
(* between is torn.                                                         *)
SendData(c) ==
    LET now == files[wtid[c]]
    IN  /\ WorkerAt(c, "data")
        /\ Sent(c, << Carrying("data", IF now = sized[c] THEN now ELSE Torn) >>)
        /\ WorkerGoes(c, "recv")
        /\ UNCHANGED << up, sock, alive, toServer, mainVars, syncVars, wtid, sized >>

\* handle_error: a failed fread or sendall closes the socket and ends the
\* thread, which never reaches the barrier.  Of no bytes at all (the file was
\* empty when it was sized) sendall returns a value that was never set.
SendDataFails(c) ==
    /\ WorkerAt(c, "data")
    /\ "disk" \in Fault \/ "error" \in SendResult(~alive[c]) \/ sized[c] = Torn
    /\ sock' = [sock EXCEPT ![c] = "closed"]
    /\ WorkerGoes(c, "failed")
    /\ UNCHANGED << up, alive, toClient, toServer, mainVars, syncVars, wtid, sized >>

\* recv returns the answer, whatever it is, or that the client is gone.
RecvReturns_AtOnce(c) == TRUE
RecvReturns(c) == toServer[c] \/ ~alive[c]

\* All of these go on to the barrier.
RecvReady(c) ==
    /\ WorkerAt(c, "recv")
    /\ RecvReturns(c)
    /\ toServer' = [toServer EXCEPT ![c] = FALSE]
    /\ Arrive(c)
    /\ UNCHANGED << up, sock, alive, toClient, accepting_clients, mfile, tid, clients,
                    plays, nwritten, files, midi_ready, owner, barrier_initialized,
                    barrier_count, wtid, sized >>

\* The last thing a worker does: no later command is forwarded.
SendPlay(c) ==
    /\ WorkerAt(c, "play")
    /\ Sent(c, << Plain("PLAY") >>)
    /\ WorkerGoes(c, "done")
    /\ UNCHANGED << up, sock, alive, toServer, mainVars, syncVars, wtid, sized >>

\* The process dies in a worker: SIGPIPE from a send to a client that is gone,
\* or the use of a freed argument.
WorkerCrash(c) ==
    /\ \/ /\ \E pc \in {"start", "newfile", "open", "data", "play"} : WorkerAt(c, pc)
          /\ "sigpipe" \in SendResult(~alive[c])
       \/ WorkerAt(c, "start") /\ ~Listed(c)
    /\ ServerExits

-----------------------------------------------------------------------------
\* What the program does by itself, and what the operator makes it do.
MainStep ==
    \/ OpenOut \/ FillOut
    \/ MainLock \/ SetReady \/ InitBarrier \/ Broadcast \/ MainArrive

OperatorStep == handle_load \/ handle_play \/ handle_reconnect \/ handle_quit \/ sighandler

WorkerStep(c) ==
    \/ Greet(c) \/ WorkerLock(c) \/ CheckReady(c) \/ CondWait(c)
    \/ SendNewFile(c) \/ SendSize(c) \/ SendData(c)
    \/ RecvReady(c) \/ SendPlay(c)

WorkerFault(c) ==
    SpuriousWakeup(c) \/ OpenFails(c) \/ SendDataFails(c) \/ WorkerCrash(c)
=============================================================================
