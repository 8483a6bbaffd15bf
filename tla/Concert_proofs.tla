--------------------------- MODULE Concert_proofs ---------------------------
(***************************************************************************)
(* What holds for a session of any number of clients, through any number   *)
(* of plays and failures, as long as the operator does not reconnect:      *)
(* nobody is let go early, the roster and the files stay what they were,   *)
(* and the clients start together, with the files of one play.  Such a     *)
(* session is a Concert.                                                   *)
(***************************************************************************)
EXTENDS Stream_proofs

NoReconnect == "reconnect" \notin Command
NoInterrupt == "interrupt" \notin Command

\* A worker that is not past the condition variable.
Early == {"start", "lock", "check", "wait", "sleep"}

\* A worker that leaves the barrier leaves it with all the others.
PlayersTogether == Released # {} => clients \subseteq Released

(* Every worker is listed; the barrier counts the list, which is closed; at *)
(* the prompt and until main sets the barrier going, each worker either has *)
(* not been let past the condition variable, or has finished.               *)
SessionInv ==
    /\ \A c \in Conn : c \in clients <=> wpc[c] # "none"
    /\ barrier_initialized =>
          ~accepting_clients /\ barrier_count = Cardinality(clients) + 1
    /\ main # "select" => ~accepting_clients
    /\ main \in {"open", "fill", "lock"} => ~midi_ready
    /\ main \notin {"arrive", "barrier"} =>
          \A c \in clients : wpc[c] \in Early \cup {"play", "done"}
    /\ main = "select" /\ midi_ready => clients \subseteq Released
    /\ PlayersTogether

LEMMA SessionInit == Init => SessionInv
BY DEF Init, ServerInit, SessionInv, PlayersTogether, Released

\* The arrival that completes the barrier finds the whole session in it.
LEMMA FullMeansAll ==
    ASSUME TypeOK, SyncInv, SessionInv, barrier_initialized,
           NEW t \in clients \cup {Main}, Completes(barrier_in \cup {t})
    PROVE  barrier_in \cup {t} = clients \cup {Main}
<1> DEFINE all == clients \cup {Main}
           in == barrier_in \cup {t}
<1>1. IsFiniteSet(clients) /\ clients \subseteq Conn
  BY ListedFinite DEF TypeOK, ServerTypeOK
<1>2. Main \notin clients
  BY <1>1, ServerAssumption
<1>3. IsFiniteSet(all) /\ Cardinality(all) = Cardinality(clients) + 1
  BY <1>1, <1>2, FS_AddElement
<1>4. in \in SUBSET all
  BY DEF TypeOK, ServerTypeOK, SyncInv, BarrierPlaces, SessionInv
<1>5. Cardinality(all) = Cardinality(in)
  BY <1>3 DEF SessionInv, Completes
<1> HIDE DEF all, in
<1>6. all = in
  BY <1>3, <1>4, <1>5, FS_Subset
<1> QED
  BY <1>6 DEF all, in

\* An arrival at the barrier, by a listed worker or by main.
LEMMA SessionArrive ==
    ASSUME TypeOK, SyncInv, SessionInv, barrier_initialized,
           NEW t \in clients \cup {Main}, Arrive(t),
           t = Main => main = "arrive",
           t \in clients => wpc[t] = "recv",
           UNCHANGED << clients, accepting_clients, barrier_initialized, barrier_count,
                        midi_ready >>
    PROVE  SessionInv'
<1> USE DEF TypeOK, ServerTypeOK
<1>1. Main \notin Conn
  BY ServerAssumption
<1>2. CASE Completes(barrier_in \cup {t})
  <2>1. barrier_in \cup {t} = clients \cup {Main}
    BY <1>2, FullMeansAll
  <2>2. \A c \in Conn : wpc'[c] = IF c \in clients THEN "play" ELSE wpc[c]
    BY <1>1, <1>2, <2>1 DEF Arrive
  <2>3. main' = "select"
    BY <1>2, <2>1 DEF Arrive
  <2>4. main # "select"
    BY <2>1 DEF SyncInv, BarrierPlaces
  <2>5. clients' \subseteq Released'
    BY <2>2 DEF Released
  <2> QED
    BY <2>2, <2>3, <2>4, <2>5 DEF SessionInv, PlayersTogether
<1>3. CASE ~Completes(barrier_in \cup {t})
  <2>1. \A c \in Conn : wpc'[c] = IF c = t THEN "barrier" ELSE wpc[c]
    BY <1>3 DEF Arrive
  <2>2. main' = IF t = Main THEN "barrier" ELSE main
    BY <1>3 DEF Arrive
  <2>3. t \in clients => main \in {"arrive", "barrier"}
    BY DEF SessionInv, Early
  <2>4. Released' = Released
    BY <1>1, <2>1 DEF Released
  <2>5. PlayersTogether'
    BY <2>4 DEF SessionInv, PlayersTogether
  <2>6. /\ main \in {"arrive", "barrier"} /\ main' \in {"arrive", "barrier"}
        /\ \A c \in Conn : wpc[c] = "none" <=> wpc'[c] = "none"
    BY <1>1, <2>1, <2>2, <2>3
  <2> QED
    BY <2>5, <2>6 DEF SessionInv
<1> QED
  BY <1>2, <1>3

\* Workers move within the part of the program they are in.
LEMMA SessionMove ==
    ASSUME TypeOK, SessionInv,
           UNCHANGED << clients, accepting_clients, barrier_initialized, barrier_count,
                        midi_ready, main >>,
           \A c \in Conn :
              \/ wpc'[c] = wpc[c]
              \/ wpc[c] \in Early /\ wpc'[c] \in Early
              \/ wpc[c] = "play" /\ wpc'[c] = "done"
              \/ /\ wpc[c] \notin Early \cup {"none", "play", "done"}
                 /\ wpc'[c] \notin {"none", "play", "done"}
    PROVE  SessionInv'
<1>1. Released' = Released
  BY DEF Released, Early
<1>2. PlayersTogether'
  BY <1>1 DEF SessionInv, PlayersTogether
<1>3. \A c \in Conn : wpc[c] = "none" <=> wpc'[c] = "none"
  BY DEF Early
<1>4. \A c \in Conn : wpc[c] \in Early \cup {"play", "done"} =>
                         wpc'[c] \in Early \cup {"play", "done"}
  BY DEF Early
<1>5. clients \subseteq Conn
  BY DEF TypeOK, ServerTypeOK
<1>6. (main = "select" /\ midi_ready => clients \subseteq Released)'
  BY <1>1 DEF SessionInv
<1> QED
  BY <1>2, <1>3, <1>4, <1>5, <1>6 DEF SessionInv

LEMMA SessionMain ==
    ASSUME TypeOK, SyncInv, BarrierInv, SessionInv, NoReconnect,
           Server(MainStep \/ OperatorStep \/ LoadFails \/ CreateFails)
    PROVE  SessionInv'
<1> USE DEF MainAt, MainGoes, mainVars, syncVars, workerVars, serverVars
<1>1. ASSUME wpc' = wpc,
             UNCHANGED << clients, accepting_clients, barrier_initialized, barrier_count,
                          midi_ready >>,
             \/ main = "open" /\ main' = "fill"
             \/ main = "fill" /\ main' \in {"open", "lock"}
      PROVE  SessionInv'
  BY <1>1 DEF SessionInv, PlayersTogether, Released
<1>2. CASE OpenOut \/ FillOut
  <2>1. /\ wpc' = wpc
        /\ UNCHANGED << clients, accepting_clients, barrier_initialized, barrier_count,
                        midi_ready >>
    BY <1>2 DEF OpenOut, FillOut
  <2>2. \/ main = "open" /\ main' = "fill"
        \/ main = "fill" /\ main' \in {"open", "lock"}
    BY <1>2 DEF OpenOut, FillOut
  <2> QED
    BY <1>1, <2>1, <2>2
<1>3. CASE MainLock
  BY <1>3 DEF MainLock, SessionInv, PlayersTogether, Released
<1>4. CASE SetReady
  BY <1>4 DEF SetReady, SessionInv, PlayersTogether, Released
<1>5. CASE InitBarrier
  <2>1. /\ main = "init" /\ main' = "broadcast" /\ barrier_initialized'
        /\ UNCHANGED << clients, accepting_clients, midi_ready, wpc >>
    BY <1>5 DEF InitBarrier
  <2>2. barrier_count' = Cardinality(clients) + 1
    BY <1>5 DEF InitBarrier, BarrierCount, SessionInv
  <2>3. Released' = Released
    BY <2>1 DEF Released
  <2> QED
    BY <2>1, <2>2, <2>3 DEF SessionInv, PlayersTogether
<1>6. CASE Broadcast
  <2>1. \A c \in Conn : wpc'[c] = IF wpc[c] = "sleep" THEN "lock" ELSE wpc[c]
    BY <1>6 DEF Broadcast, Woken
  <2>2. Released' = Released
    BY <2>1 DEF Released
  <2>3. /\ main' = "arrive" /\ main = "broadcast"
        /\ UNCHANGED << clients, accepting_clients, barrier_initialized, barrier_count,
                        midi_ready >>
    BY <1>6 DEF Broadcast
  <2>4. \A c \in Conn : wpc[c] = "none" <=> wpc'[c] = "none"
    BY <2>1
  <2> QED
    BY <2>2, <2>3, <2>4 DEF SessionInv, PlayersTogether
<1>7. CASE MainArrive
  <2>1. barrier_initialized
    BY <1>7 DEF MainArrive, BarrierInv
  <2>2. Main \notin clients
    BY ServerAssumption DEF TypeOK, ServerTypeOK
  <2> QED
    BY <1>7, <2>1, <2>2, SessionArrive DEF MainArrive
<1>8. CASE handle_play
  BY <1>8 DEF handle_play, SessionInv, PlayersTogether, Released
<1>9. CASE handle_load \/ handle_quit \/ sighandler \/ LoadFails \/ CreateFails
  <2>1. UNCHANGED << main, clients, accepting_clients, barrier_initialized, barrier_count,
                     midi_ready, wpc >>
    BY <1>9 DEF handle_load, handle_quit, sighandler, LoadFails, CreateFails, ServerExits
  <2> QED
    BY <2>1 DEF SessionInv, PlayersTogether, Released
<1>10. ~handle_reconnect
  BY DEF handle_reconnect, NoReconnect
<1> QED
  BY <1>2, <1>3, <1>4, <1>5, <1>6, <1>7, <1>8, <1>9, <1>10
  DEF Server, MainStep, OperatorStep

LEMMA SessionWorker ==
    ASSUME TypeOK, SyncInv, AcceptInv, BarrierInv, SessionInv, NEW c \in Conn,
           Server(handle_socket(c) \/ WorkerStep(c) \/ WorkerFault(c))
    PROVE  SessionInv'
<1> USE DEF WorkerAt, WorkerGoes, mainVars, syncVars, workerVars, serverVars
<1> USE DEF TypeOK, ServerTypeOK
<1>1. ASSUME NEW pc, wpc' = [wpc EXCEPT ![c] = pc],
             UNCHANGED << clients, accepting_clients, barrier_initialized, barrier_count,
                          midi_ready, main >>,
             \/ wpc[c] \in Early /\ pc \in Early
             \/ wpc[c] = "play" /\ pc = "done"
             \/ /\ wpc[c] \notin Early \cup {"none", "play", "done"}
                /\ pc \notin {"none", "play", "done"}
      PROVE  SessionInv'
  <2>1. \A d \in Conn : wpc'[d] = IF d = c THEN pc ELSE wpc[d]
    BY <1>1
  <2> QED
    BY <1>1, <2>1, SessionMove
<1>2. CASE handle_socket(c)
  <2>1. wpc[c] = "none" /\ main = "select"
    BY <1>2 DEF handle_socket, AcceptInv, MainAt
  <2>2. CASE accepting_clients
    <3>1. ~barrier_initialized
      BY <2>2 DEF SessionInv
    <3>2. ~midi_ready
      BY <2>1, <3>1 DEF BarrierInv
    <3>3. \A d \in Conn : wpc'[d] = IF d = c THEN "start" ELSE wpc[d]
      BY <1>2, <2>2 DEF handle_socket, Admits
    <3>4. Released' = {}
      BY <3>1, <3>3 DEF Released, BarrierInv, Past
    <3>5. /\ clients' = clients \cup {c}
          /\ UNCHANGED << main, barrier_initialized, midi_ready >>
      BY <1>2, <2>2 DEF handle_socket, Admits
    <3> QED
      BY <2>1, <3>1, <3>2, <3>3, <3>4, <3>5 DEF SessionInv, PlayersTogether, Early
  <2>3. CASE ~accepting_clients
    BY <1>2, <2>3 DEF handle_socket, Admits, SessionInv, PlayersTogether, Released
  <2> QED
    BY <2>2, <2>3
<1>3. CASE Greet(c) \/ WorkerLock(c) \/ CondWait(c) \/ SpuriousWakeup(c)
  BY <1>1, <1>3 DEF Greet, WorkerLock, CondWait, SpuriousWakeup, Early
<1>4. CASE CheckReady(c)
  <2>1. CASE midi_ready
    <3>1. c \in clients /\ c \notin Released
      BY <1>4 DEF CheckReady, SessionInv, Released
    <3>2. main \in {"arrive", "barrier"}
      <4>1. main \notin {"ready", "init", "broadcast"}
        BY <1>4, ServerAssumption DEF CheckReady, SyncInv, MutexDiscipline
      <4>2. main \in MainPC
        OBVIOUS
      <4> QED
        BY <2>1, <3>1, <4>1, <4>2 DEF SessionInv, MainPC
    <3>3. \A d \in Conn : wpc'[d] = IF d = c THEN "newfile" ELSE wpc[d]
      BY <1>4, <2>1 DEF CheckReady
    <3>4. Released' = Released
      BY <3>1, <3>3 DEF Released
    <3>5. wpc[c] # "none" /\ UNCHANGED << clients, accepting_clients, barrier_initialized,
                                         barrier_count, midi_ready, main >>
      BY <1>4 DEF CheckReady
    <3> QED
      BY <3>2, <3>3, <3>4, <3>5 DEF SessionInv, PlayersTogether
  <2>2. CASE ~midi_ready
    BY <1>1, <1>4, <2>2 DEF CheckReady, Early
  <2> QED
    BY <2>1, <2>2
<1>5. CASE SendNewFile(c) \/ SendSize(c) \/ SendData(c) \/ SendDataFails(c)
  BY <1>1, <1>5 DEF SendNewFile, SendSize, SendData, SendDataFails, Early
<1>6. CASE RecvReady(c)
  <2>1. barrier_initialized /\ c \in clients
    BY <1>6 DEF RecvReady, BarrierInv, Past, SessionInv
  <2>2. c # Main
    BY ServerAssumption
  <2> QED
    BY <1>6, <2>1, <2>2, SessionArrive DEF RecvReady
<1>7. CASE SendPlay(c)
  BY <1>1, <1>7 DEF SendPlay
<1>8. CASE OpenFails(c) \/ WorkerCrash(c)
  BY <1>8 DEF OpenFails, WorkerCrash, ServerExits, SessionInv, PlayersTogether, Released
<1> QED
  BY <1>2, <1>3, <1>4, <1>5, <1>6, <1>7, <1>8 DEF Server, WorkerStep, WorkerFault

LEMMA SessionStep ==
    ASSUME TypeOK, SyncInv, AcceptInv, BarrierInv, SessionInv, NoReconnect, [Next]_vars
    PROVE  SessionInv'
<1>1. ASSUME Server(MainStep) \/ Server(OperatorStep) \/ Server(LoadFails \/ CreateFails)
      PROVE  SessionInv'
  <2>1. Server(MainStep \/ OperatorStep \/ LoadFails \/ CreateFails)
    BY <1>1 DEF Server
  <2> QED
    BY <2>1, SessionMain
<1>2. ASSUME NEW c \in Conn,
             Server(handle_socket(c)) \/ Server(WorkerStep(c)) \/ Server(WorkerFault(c))
      PROVE  SessionInv'
  BY <1>2, SessionWorker DEF Server
<1>3. ASSUME UNCHANGED serverVars PROVE SessionInv'
  BY <1>3 DEF SessionInv, PlayersTogether, Released, serverVars, mainVars, syncVars,
     workerVars
<1>4. ASSUME NEW c \in Conn,
             \/ Client(Connect(c)) \/ Client(ClientStep(c))
             \/ Client(ClientEnd(c)) \/ Client(ClientDies(c))
      PROVE  SessionInv'
  BY <1>3, <1>4 DEF Client
<1>5. CASE UNCHANGED vars
  BY <1>3, <1>5 DEF vars
<1> QED
  BY <1>1, <1>2, <1>4, <1>5 DEF Next

LEMMA SessionInvariant ==
    ASSUME NoReconnect
    PROVE  Spec => []SessionInv
<1>1. TypeInv /\ SyncInv /\ AcceptInv /\ BarrierInv /\ SessionInv /\ [Next]_vars
         => SessionInv'
  BY SessionStep DEF TypeInv
<1> QED
  BY SessionInit, <1>1, TypeInvariant, SyncInvariant, BarrierInvariant, PTL DEF Spec

\* Once the barrier has counted the clients, their list stays what it was
\* (cmd_handlers.c:155, 338, 373).
THEOREM RosterCorrect ==
    ASSUME NoReconnect
    PROVE  Spec => RosterFrozen
<1>1. SessionInv /\ [Next]_vars => (barrier_initialized => clients' = clients)
  <2> SUFFICES ASSUME SessionInv, barrier_initialized, [Next]_vars
               PROVE  clients' = clients
    OBVIOUS
  <2>1. ~accepting_clients
    BY DEF SessionInv
  <2>2. CASE UNCHANGED serverVars
    BY <2>2 DEF serverVars, mainVars
  <2>3. CASE Server(MainStep)
    BY <2>3 DEF Server, MainStep, OpenOut, FillOut, MainLock, SetReady, InitBarrier,
       Broadcast, MainArrive
  <2>4. CASE Server(OperatorStep) \/ Server(LoadFails \/ CreateFails)
    BY <2>4 DEF Server, OperatorStep, handle_load, handle_play, handle_reconnect,
       NoReconnect, handle_quit, sighandler, LoadFails, CreateFails, ServerExits,
       serverVars, mainVars
  <2>5. ASSUME NEW c \in Conn, Server(handle_socket(c)) PROVE clients' = clients
    BY <2>1, <2>5 DEF Server, handle_socket, Admits
  <2>6. ASSUME NEW c \in Conn, Server(WorkerStep(c)) \/ Server(WorkerFault(c))
        PROVE  clients' = clients
    BY <2>6 DEF Server, WorkerStep, Greet, WorkerLock, CheckReady, CondWait, SendNewFile,
       SendSize, SendData, RecvReady, SendPlay, WorkerFault, SpuriousWakeup, OpenFails,
       SendDataFails, WorkerCrash, ServerExits, serverVars, mainVars
  <2> QED
    BY <2>2, <2>3, <2>4, <2>5, <2>6 DEF Next, Client, vars
<1> QED
  BY SessionInvariant, <1>1, PTL DEF Spec, RosterFrozen

\* The file of a worker is not touched between the moment it was sized and
\* the moment it is sent (server_thread.c:82-102, cmd_handlers.c:386-395).
THEOREM FileCorrect ==
    ASSUME NoReconnect
    PROVE  Spec => FileStableWhileRead
<1>1. SessionInv /\ [Next]_vars =>
         \A c \in Conn : wpc[c] = "data" => files'[wtid[c]] = files[wtid[c]]
  <2> SUFFICES ASSUME SessionInv, [Next]_vars, NEW c \in Conn, wpc[c] = "data"
               PROVE  files' = files
    OBVIOUS
  <2>1. main \in {"arrive", "barrier"}
    BY DEF SessionInv, Early
  <2>2. CASE UNCHANGED serverVars
    BY <2>2 DEF serverVars, mainVars
  <2>3. CASE Server(MainStep)
    BY <2>1, <2>3 DEF Server, MainStep, OpenOut, FillOut, MainLock, SetReady, InitBarrier,
       Broadcast, MainArrive, MainAt
  <2>4. CASE Server(OperatorStep) \/ Server(LoadFails \/ CreateFails)
    BY <2>4 DEF Server, OperatorStep, handle_load, handle_play, handle_reconnect,
       handle_quit, sighandler, LoadFails, CreateFails, ServerExits, serverVars, mainVars
  <2>5. ASSUME NEW d \in Conn, Server(handle_socket(d)) PROVE files' = files
    BY <2>5 DEF Server, handle_socket
  <2>6. ASSUME NEW d \in Conn, Server(WorkerStep(d)) \/ Server(WorkerFault(d))
        PROVE  files' = files
    BY <2>6 DEF Server, WorkerStep, Greet, WorkerLock, CheckReady, CondWait, SendNewFile,
       SendSize, SendData, RecvReady, SendPlay, WorkerFault, SpuriousWakeup, OpenFails,
       SendDataFails, WorkerCrash, ServerExits, serverVars, mainVars
  <2> QED
    BY <2>2, <2>3, <2>4, <2>5, <2>6 DEF Next, Client, vars
<1> QED
  BY SessionInvariant, <1>1, PTL DEF Spec, FileStableWhileRead

\* quit at the prompt finds nobody in the condition variable or the barrier it
\* destroys, but the workers it cancels (cmd_handlers.c:283-309).
THEOREM QuitCorrect ==
    ASSUME NoReconnect, NoInterrupt
    PROVE  Spec => []QuitNeverHangs
<1>1. Init => QuitNeverHangs
  BY DEF Init, NetInit, QuitNeverHangs
<1>2. TypeOK /\ SyncInv /\ SessionInv /\ QuitNeverHangs /\ [Next]_vars => QuitNeverHangs'
  <2> SUFFICES ASSUME TypeOK, SyncInv, SessionInv, up # "hung", [Next]_vars
               PROVE  up' # "hung"
    BY DEF QuitNeverHangs
  <2>1. CASE handle_quit
    <3>1. main = "select"
      BY <2>1 DEF handle_quit, MainAt
    <3>2. barrier_in = {}
      BY <3>1 DEF SyncInv, BarrierPlaces, SessionInv, Early, TypeOK, ServerTypeOK
    <3>3. Lingering = {}
      BY <3>2 DEF Lingering, SessionInv
    <3> QED
      BY <2>1, <3>3 DEF handle_quit
  <2>2. ~sighandler /\ ~handle_reconnect
    BY DEF sighandler, handle_reconnect, NoReconnect, NoInterrupt
  <2>3. CASE Server(MainStep)
    BY <2>3 DEF Server, MainStep, OpenOut, FillOut, MainLock, SetReady, InitBarrier,
       Broadcast, MainArrive, netVars
  <2>4. CASE Server(OperatorStep) \/ Server(LoadFails \/ CreateFails)
    BY <2>1, <2>2, <2>4 DEF Server, OperatorStep, handle_load, handle_play, LoadFails,
       CreateFails, ServerExits, netVars
  <2>5. ASSUME NEW d \in Conn, Server(handle_socket(d)) PROVE up' # "hung"
    BY <2>5 DEF Server, handle_socket
  <2>6. ASSUME NEW d \in Conn, Server(WorkerStep(d)) \/ Server(WorkerFault(d))
        PROVE  up' # "hung"
    BY <2>6 DEF Server, WorkerStep, Greet, WorkerLock, CheckReady, CondWait, SendNewFile,
       SendSize, SendData, RecvReady, SendPlay, WorkerFault, SpuriousWakeup, OpenFails,
       SendDataFails, WorkerCrash, ServerExits, netVars
  <2>7. ASSUME NEW d \in Conn,
               \/ Client(Connect(d)) \/ Client(ClientStep(d))
               \/ Client(ClientEnd(d)) \/ Client(ClientDies(d))
        PROVE  up' # "hung"
    BY <2>7 DEF Client, Connect, ClientStep, ConfirmConnection, ReadPlay, ReadNewFile,
       ReadSize, RecvFile, ClientEnd, ConfirmAtEOF, ConfirmFails, RepeatCommand, EmptyFile,
       RecvSpins, FileFails, ClientDies, ClientExits, netVars
  <2>8. CASE UNCHANGED vars
    BY <2>8 DEF vars, netVars
  <2> QED
    BY <2>3, <2>4, <2>5, <2>6, <2>7, <2>8 DEF Next
<1> QED
  BY TypeCorrect, SyncInvariant, SessionInvariant, <1>1, <1>2, PTL DEF Spec

(***************************************************************************)
(* Only the first play of a session comes through: after it no worker is   *)
(* left that would send a file.  So what there is of files on the way to   *)
(* the clients is of that play.                                            *)
(***************************************************************************)

\* The i-th file is as the current play writes it.
Complete(i) == i \in DOMAIN files /\ files[i] = plays

FilesInv ==
    /\ main # "select" => plays >= 1 /\ clients # {}
    /\ plays >= 1 => ~accepting_clients
    /\ main = "select" /\ plays >= 1 => midi_ready
    /\ main \in {"init", "broadcast", "arrive", "barrier"} => midi_ready
    /\ plays >= 2 => clients \subseteq Released
    /\ main = "fill" => nwritten \in DOMAIN files
    /\ main \in {"open", "fill"} => \A i \in 0 .. nwritten - 1 : Complete(i)
    /\ main \in {"lock", "ready", "init", "broadcast", "arrive", "barrier"} =>
          \A i \in 0 .. Cardinality(clients) - 1 : Complete(i)

LEMMA FilesInit == Init => FilesInv
BY DEF Init, ServerInit, FilesInv

\* Workers that move while the main thread stays where it is.
LEMMA FilesFrame ==
    ASSUME FilesInv, Released \subseteq Released',
           UNCHANGED << main, accepting_clients, plays, clients, midi_ready, nwritten, files >>
    PROVE  FilesInv'
BY DEF FilesInv, Complete

\* The main thread goes on between the last file and the barrier.
LEMMA FilesMove ==
    ASSUME FilesInv, Released \subseteq Released',
           UNCHANGED << accepting_clients, plays, clients, files >>,
           main \in {"lock", "ready", "init", "broadcast", "arrive", "barrier"},
           main' \in {"ready", "init", "broadcast", "arrive", "barrier", "select"},
           main' # "ready" => midi_ready'
    PROVE  FilesInv'
BY DEF FilesInv, Complete

LEMMA FilesArrive ==
    ASSUME TypeOK, SyncInv, FilesInv, NEW t \in Conn \cup {Main}, Arrive(t),
           t = Main => main = "arrive",
           t \in Conn => wpc[t] = "recv" /\ main \in {"arrive", "barrier"},
           UNCHANGED << accepting_clients, plays, clients, midi_ready, nwritten, files >>
    PROVE  FilesInv'
<1>1. \A c \in Conn : wpc'[c] = wpc[c] \/ wpc[c] \in {"recv", "barrier"}
  BY ServerAssumption DEF Arrive, SyncInv, BarrierPlaces
<1>2. Released \subseteq Released'
  BY <1>1 DEF Released
<1>3. main \in {"arrive", "barrier"} /\ midi_ready
  BY DEF FilesInv
<1>4. main' \in {"arrive", "barrier", "select"}
  BY <1>3 DEF Arrive
<1> QED
  BY <1>2, <1>3, <1>4, FilesMove

LEMMA FilesMain ==
    ASSUME TypeInv, SyncInv, SessionInv, FilesInv, NoReconnect,
           Server(MainStep \/ OperatorStep \/ LoadFails \/ CreateFails)
    PROVE  FilesInv'
<1> USE DEF MainAt, MainGoes, mainVars, syncVars, workerVars, serverVars
<1>1. /\ plays \in Nat /\ nwritten \in Nat /\ Cardinality(clients) \in Nat
      /\ files = [i \in DOMAIN files |-> files[i]]
  BY ListedFinite, ConnAssumption DEF TypeInv, TypeOK, ServerTypeOK
<1>2. CASE OpenOut
  <2>1. /\ main = "open" /\ main' = "fill"
        /\ files' = [i \in DOMAIN files \cup {nwritten} |->
                        IF i = nwritten THEN Torn ELSE files[i]]
        /\ UNCHANGED << accepting_clients, plays, clients, midi_ready, nwritten, wpc >>
    BY <1>2 DEF OpenOut
  <2>2. nwritten \in DOMAIN files' /\ Released' = Released
    BY <2>1 DEF Released
  <2>3. \A i \in 0 .. nwritten - 1 : Complete(i)'
    BY <1>1, <2>1 DEF FilesInv, Complete
  <2> QED
    BY <2>1, <2>2, <2>3 DEF FilesInv
<1>3. CASE FillOut
  <2>1. /\ main = "fill" /\ files' = [files EXCEPT ![nwritten] = plays]
        /\ nwritten' = nwritten + 1
        /\ main' = IF nwritten + 1 < Cardinality(clients) THEN "open" ELSE "lock"
        /\ UNCHANGED << accepting_clients, plays, clients, midi_ready, wpc >>
    BY <1>3 DEF FillOut, MoreFiles
  <2>2. nwritten < Cardinality(clients) /\ Released' = Released
    BY <2>1 DEF TypeInv, Writing, Released
  <2>3. DOMAIN files' = DOMAIN files /\ files'[nwritten] = plays
        /\ \A i \in DOMAIN files \ {nwritten} : files'[i] = files[i]
    BY <1>1, <2>1 DEF FilesInv
  <2>4. \A i \in 0 .. nwritten : Complete(i)'
    BY <1>1, <2>1, <2>3 DEF FilesInv, Complete
  <2>5. CASE nwritten + 1 < Cardinality(clients)
    BY <1>1, <2>1, <2>2, <2>4, <2>5 DEF FilesInv
  <2>6. CASE ~(nwritten + 1 < Cardinality(clients))
    <3>1. Cardinality(clients) - 1 = nwritten
      BY <1>1, <2>2, <2>6
    <3> QED
      BY <2>1, <2>2, <2>4, <2>6, <3>1 DEF FilesInv
  <2> QED
    BY <2>5, <2>6
<1>4. CASE MainLock \/ SetReady \/ InitBarrier
  <2>1. /\ Released' = Released
        /\ UNCHANGED << accepting_clients, plays, clients, files >>
    BY <1>4 DEF MainLock, SetReady, InitBarrier, Released
  <2>2. /\ main \in {"lock", "ready", "init"} /\ main' \in {"ready", "init", "broadcast"}
        /\ main' # "ready" => midi_ready'
    BY <1>4 DEF MainLock, SetReady, InitBarrier, FilesInv
  <2> QED
    BY <2>1, <2>2, FilesMove
<1>5. CASE Broadcast
  <2>1. \A c \in Conn : wpc'[c] = IF wpc[c] = "sleep" THEN "lock" ELSE wpc[c]
    BY <1>5 DEF Broadcast, Woken
  <2>2. /\ Released' = Released /\ main = "broadcast" /\ main' = "arrive" /\ midi_ready'
        /\ UNCHANGED << accepting_clients, plays, clients, files >>
    BY <1>5, <2>1 DEF Broadcast, Released, FilesInv
  <2> QED
    BY <2>2, FilesMove
<1>6. CASE MainArrive
  BY <1>6, FilesArrive, ServerAssumption DEF MainArrive, TypeInv
<1>7. CASE handle_play
  <2>1. /\ main = "select" /\ main' = "open" /\ clients # {} /\ ~accepting_clients'
        /\ plays' = plays + 1 /\ nwritten' = 0 /\ UNCHANGED << clients, wpc >>
    BY <1>7 DEF handle_play
  <2>2. plays >= 1 => clients \subseteq Released
    BY <2>1 DEF FilesInv, SessionInv
  <2>3. Released' = Released /\ 0 .. nwritten' - 1 = {}
    BY <2>1 DEF Released
  <2> QED
    BY <1>1, <2>1, <2>2, <2>3 DEF FilesInv
<1>8. CASE handle_load \/ handle_quit \/ sighandler \/ LoadFails \/ CreateFails
  <2>1. /\ UNCHANGED << main, accepting_clients, plays, clients, midi_ready, nwritten, files >>
        /\ Released' = Released
    BY <1>8 DEF handle_load, handle_quit, sighandler, LoadFails, CreateFails, ServerExits,
       Released
  <2> QED
    BY <2>1, FilesFrame
<1>9. ~handle_reconnect
  BY DEF handle_reconnect, NoReconnect
<1> QED
  BY <1>2, <1>3, <1>4, <1>5, <1>6, <1>7, <1>8, <1>9 DEF Server, MainStep, OperatorStep

LEMMA FilesWorker ==
    ASSUME TypeOK, SyncInv, AcceptInv, SessionInv, FilesInv, NEW c \in Conn,
           Server(handle_socket(c) \/ WorkerStep(c) \/ WorkerFault(c))
    PROVE  FilesInv'
<1> USE DEF WorkerAt, WorkerGoes, mainVars, syncVars, workerVars, serverVars
<1>1. wpc \in [Conn -> WorkerPC] /\ plays \in Nat
  BY ConnAssumption DEF TypeOK, ServerTypeOK
<1>2. ASSUME NEW pc, wpc' = [wpc EXCEPT ![c] = pc],
             wpc[c] \notin {"play", "done"} \/ pc \in {"play", "done"},
             UNCHANGED << main, accepting_clients, plays, clients, midi_ready, nwritten, files >>
      PROVE  FilesInv'
  <2>1. Released \subseteq Released'
    BY <1>1, <1>2 DEF Released
  <2> QED
    BY <1>2, <2>1, FilesFrame
<1>3. CASE handle_socket(c)
  <2>1. wpc[c] = "none" /\ main = "select"
    BY <1>3 DEF handle_socket, AcceptInv, MainAt
  <2>2. CASE accepting_clients
    <3>1. plays = 0 /\ plays' = plays /\ main' = main
      BY <1>1, <1>3, <2>2 DEF FilesInv, handle_socket
    <3> QED
      BY <2>1, <3>1 DEF FilesInv
  <2>3. CASE ~accepting_clients
    <3>1. Released' = Released /\ UNCHANGED << main, accepting_clients, plays, clients,
                                                midi_ready, nwritten, files >>
      BY <1>3, <2>3 DEF handle_socket, Admits, Released
    <3> QED
      BY <3>1, FilesFrame
  <2> QED
    BY <2>2, <2>3
<1>4. CASE Greet(c) \/ WorkerLock(c) \/ CheckReady(c) \/ CondWait(c) \/ SpuriousWakeup(c)
  BY <1>2, <1>4 DEF Greet, WorkerLock, CheckReady, CondWait, SpuriousWakeup
<1>5. CASE SendNewFile(c) \/ SendSize(c) \/ SendData(c) \/ SendDataFails(c) \/ SendPlay(c)
  BY <1>2, <1>5 DEF SendNewFile, SendSize, SendData, SendDataFails, SendPlay
<1>6. CASE RecvReady(c)
  <2>1. main \in {"arrive", "barrier"}
    BY <1>6 DEF RecvReady, SessionInv, Early
  <2>2. c # Main
    BY ServerAssumption
  <2> QED
    BY <1>6, <2>1, <2>2, FilesArrive DEF RecvReady
<1>7. CASE OpenFails(c) \/ WorkerCrash(c)
  BY <1>7, FilesFrame DEF OpenFails, WorkerCrash, ServerExits, Released
<1> QED
  BY <1>3, <1>4, <1>5, <1>6, <1>7 DEF Server, WorkerStep, WorkerFault

LEMMA FilesInvariant ==
    ASSUME NoReconnect
    PROVE  Spec => []FilesInv
<1>1. TypeInv /\ SyncInv /\ AcceptInv /\ SessionInv /\ FilesInv /\ [Next]_vars => FilesInv'
  <2> SUFFICES ASSUME TypeInv, SyncInv, AcceptInv, SessionInv, FilesInv, [Next]_vars
               PROVE  FilesInv'
    OBVIOUS
  <2>1. ASSUME Server(MainStep) \/ Server(OperatorStep) \/ Server(LoadFails \/ CreateFails)
        PROVE  FilesInv'
    <3>1. Server(MainStep \/ OperatorStep \/ LoadFails \/ CreateFails)
      BY <2>1 DEF Server
    <3> QED
      BY <3>1, FilesMain
  <2>2. ASSUME NEW c \in Conn,
               Server(handle_socket(c)) \/ Server(WorkerStep(c)) \/ Server(WorkerFault(c))
        PROVE  FilesInv'
    <3>1. Server(handle_socket(c) \/ WorkerStep(c) \/ WorkerFault(c))
      BY <2>2 DEF Server
    <3> QED
      BY <3>1, FilesWorker DEF TypeInv
  <2>3. ASSUME UNCHANGED serverVars PROVE FilesInv'
    BY <2>3, FilesFrame DEF serverVars, mainVars, syncVars, workerVars, Released
  <2> QED
    BY <2>1, <2>2, <2>3 DEF Next, Client, vars
<1> QED
  BY FilesInit, <1>1, TypeInvariant, SyncInvariant, SessionInvariant, PTL DEF Spec

-----------------------------------------------------------------------------
(* The main thread leaves the barrier with the workers, and the files are   *)
(* theirs: one for each of them.                                            *)

MainInv == Released # {} => MainReleased

PartsInv ==
    LET parts == 0 .. Cardinality(clients) - 1
    IN  DOMAIN files \subseteq parts /\ (midi_ready => parts \subseteq DOMAIN files)

LEMMA MainFrame ==
    ASSUME MainInv, Released' \subseteq Released, UNCHANGED plays,
           main = "select" => main' = "select"
    PROVE  MainInv'
BY DEF MainInv, MainReleased

\* The arrival that lets the workers go lets the main thread go, in a play.
LEMMA MainWithArrive ==
    ASSUME TypeOK, SyncInv, BarrierInv, SessionInv, FilesInv, MainInv,
           NEW t \in clients \cup {Main}, Arrive(t), barrier_initialized,
           main \in {"arrive", "barrier"}, UNCHANGED plays
    PROVE  MainInv'
<1>1. plays \in Nat /\ plays >= 1
  BY ConnAssumption DEF FilesInv, TypeOK, ServerTypeOK
<1>2. CASE Completes(barrier_in \cup {t})
  <2>1. barrier_in \cup {t} = clients \cup {Main}
    BY <1>2, FullMeansAll
  <2>2. main' = "select"
    BY <1>2, <2>1 DEF Arrive
  <2> QED
    BY <1>1, <2>2 DEF MainInv, MainReleased
<1>3. CASE ~Completes(barrier_in \cup {t})
  <2>1. \A c \in Conn : wpc'[c] = IF c = t THEN "barrier" ELSE wpc[c]
    BY <1>3 DEF Arrive
  <2>2. Released' \subseteq Released
    BY <2>1 DEF Released
  <2> QED
    BY <2>2, MainFrame
<1> QED
  BY <1>2, <1>3

LEMMA PartsFrame ==
    ASSUME PartsInv, UNCHANGED << clients, files >>, midi_ready' => midi_ready
    PROVE  PartsInv'
BY DEF PartsInv

LEMMA PartsMain ==
    ASSUME TypeInv, SyncInv, BarrierInv, SessionInv, FilesInv, MainInv, PartsInv, NoReconnect,
           Server(MainStep \/ OperatorStep \/ LoadFails \/ CreateFails)
    PROVE  MainInv' /\ PartsInv'
<1> USE DEF MainAt, MainGoes, mainVars, syncVars, workerVars, serverVars
<1>1. CASE OpenOut
  <2>1. DOMAIN files' = DOMAIN files \cup {nwritten}
    BY <1>1 DEF OpenOut
  <2>2. nwritten \in 0 .. Cardinality(clients) - 1
    BY <1>1, ListedFinite DEF OpenOut, TypeInv, Writing, TypeOK, ServerTypeOK
  <2>3. PartsInv'
    BY <1>1, <2>1, <2>2 DEF OpenOut, PartsInv
  <2> QED
    BY <1>1, <2>3, MainFrame DEF OpenOut, Released
<1>2. CASE FillOut
  <2>1. DOMAIN files' = DOMAIN files
    BY <1>2 DEF FillOut
  <2> QED
    BY <1>2, <2>1, MainFrame DEF FillOut, PartsInv, Released
<1>3. CASE SetReady
  <2>1. 0 .. Cardinality(clients) - 1 \subseteq DOMAIN files
    BY <1>3 DEF SetReady, FilesInv, Complete
  <2> QED
    BY <1>3, <2>1, MainFrame DEF SetReady, PartsInv, Released
<1>4. CASE MainLock \/ InitBarrier
  BY <1>4, MainFrame, PartsFrame DEF MainLock, InitBarrier, Released
<1>5. CASE Broadcast
  <2>1. Released' = Released
    BY <1>5 DEF Broadcast, Woken, Released
  <2> QED
    BY <1>5, <2>1, MainFrame, PartsFrame DEF Broadcast
<1>6. CASE MainArrive
  <2>1. barrier_initialized
    BY <1>6 DEF MainArrive, BarrierInv
  <2> QED
    BY <1>6, <2>1, MainWithArrive, PartsFrame DEF MainArrive, TypeInv
<1>7. CASE handle_play
  <2>1. plays \in Nat /\ plays' = plays + 1 /\ Released' = Released
    BY <1>7, ConnAssumption DEF handle_play, Released, TypeInv, TypeOK, ServerTypeOK
  <2>2. MainReleased => plays >= 1
    BY <2>1 DEF MainReleased
  <2>3. MainInv'
    BY <2>1, <2>2 DEF MainInv, MainReleased
  <2> QED
    BY <1>7, <2>3, PartsFrame DEF handle_play
<1>8. CASE handle_load \/ handle_quit \/ sighandler \/ LoadFails \/ CreateFails
  <2>1. UNCHANGED << main, plays, clients, files, midi_ready, wpc >>
    BY <1>8 DEF handle_load, handle_quit, sighandler, LoadFails, CreateFails, ServerExits
  <2>2. Released' = Released
    BY <2>1 DEF Released
  <2> QED
    BY <2>1, <2>2, MainFrame, PartsFrame
<1>9. ~handle_reconnect
  BY DEF handle_reconnect, NoReconnect
<1> QED
  BY <1>1, <1>2, <1>3, <1>4, <1>5, <1>6, <1>7, <1>8, <1>9 DEF Server, MainStep, OperatorStep

LEMMA PartsWorker ==
    ASSUME TypeInv, SyncInv, AcceptInv, BarrierInv, SessionInv, FilesInv, MainInv, PartsInv,
           NEW c \in Conn, Server(handle_socket(c) \/ WorkerStep(c) \/ WorkerFault(c))
    PROVE  MainInv' /\ PartsInv'
<1> USE DEF WorkerAt, WorkerGoes, mainVars, syncVars, workerVars, serverVars
<1>1. /\ wpc \in [Conn -> WorkerPC] /\ clients \subseteq Conn
      /\ IsFiniteSet(clients) /\ Cardinality(clients) \in Nat
  BY ListedFinite DEF TypeInv, TypeOK, ServerTypeOK
<1>2. ASSUME NEW pc, wpc' = [wpc EXCEPT ![c] = pc],
             wpc[c] \in {"play", "done"} \/ pc \notin {"play", "done"},
             UNCHANGED << main, plays, clients, midi_ready, files >>
      PROVE  MainInv' /\ PartsInv'
  <2>1. Released' \subseteq Released
    BY <1>1, <1>2 DEF Released
  <2> QED
    BY <1>2, <2>1, MainFrame, PartsFrame
<1>3. CASE handle_socket(c)
  <2>1. wpc[c] = "none" /\ main = "select" /\ UNCHANGED << main, plays, midi_ready, files >>
    BY <1>3 DEF handle_socket, AcceptInv, MainAt
  <2>2. CASE Admits
    <3>1. wpc' = [wpc EXCEPT ![c] = "start"] /\ clients' = clients \cup {c}
      BY <1>3, <2>2 DEF handle_socket
    <3>2. Released' \subseteq Released
      BY <1>1, <3>1 DEF Released
    <3>3. ~midi_ready
      BY <2>1, <2>2 DEF Admits, BarrierInv, SessionInv
    <3>4. c \notin clients
      BY <2>1 DEF SessionInv
    <3>5. Cardinality(clients') = Cardinality(clients) + 1
      BY <1>1, <3>1, <3>4, FS_AddElement
    <3>6. PartsInv'
      BY <1>1, <2>1, <3>3, <3>5 DEF PartsInv
    <3> QED
      BY <2>1, <3>2, <3>6, MainFrame
  <2>3. CASE ~Admits
    BY <1>3, <2>1, <2>3, MainFrame, PartsFrame DEF handle_socket, Released
  <2> QED
    BY <2>2, <2>3
<1>4. CASE Greet(c) \/ WorkerLock(c) \/ CheckReady(c) \/ CondWait(c) \/ SpuriousWakeup(c)
  BY <1>2, <1>4 DEF Greet, WorkerLock, CheckReady, CondWait, SpuriousWakeup
<1>5. CASE SendNewFile(c) \/ SendSize(c) \/ SendData(c) \/ SendDataFails(c) \/ SendPlay(c)
  BY <1>2, <1>5 DEF SendNewFile, SendSize, SendData, SendDataFails, SendPlay
<1>6. CASE RecvReady(c)
  <2>1. main \in {"arrive", "barrier"} /\ c \in clients /\ barrier_initialized
    BY <1>6 DEF RecvReady, SessionInv, Early, BarrierInv, Past
  <2> QED
    BY <1>6, <2>1, MainWithArrive, PartsFrame DEF RecvReady, TypeInv
<1>7. CASE OpenFails(c) \/ WorkerCrash(c)
  BY <1>7, MainFrame, PartsFrame DEF OpenFails, WorkerCrash, ServerExits, Released
<1> QED
  BY <1>3, <1>4, <1>5, <1>6, <1>7 DEF Server, WorkerStep, WorkerFault

LEMMA PartsInvariant ==
    ASSUME NoReconnect
    PROVE  Spec => [](MainInv /\ PartsInv)
<1>1. Init => MainInv /\ PartsInv
  <2>1. ASSUME Init PROVE Released = {} /\ DOMAIN files = {} /\ ~midi_ready
    BY <2>1 DEF Init, ServerInit, Released
  <2> QED
    BY <2>1 DEF MainInv, PartsInv
<1>2. TypeInv /\ SyncInv /\ AcceptInv /\ BarrierInv /\ SessionInv /\ FilesInv
         /\ (MainInv /\ PartsInv) /\ [Next]_vars => (MainInv /\ PartsInv)'
  <2> SUFFICES ASSUME TypeInv, SyncInv, AcceptInv, BarrierInv, SessionInv, FilesInv,
                      MainInv, PartsInv, [Next]_vars
               PROVE  MainInv' /\ PartsInv'
    OBVIOUS
  <2>1. ASSUME Server(MainStep) \/ Server(OperatorStep) \/ Server(LoadFails \/ CreateFails)
        PROVE  MainInv' /\ PartsInv'
    <3>1. Server(MainStep \/ OperatorStep \/ LoadFails \/ CreateFails)
      BY <2>1 DEF Server
    <3> QED
      BY <3>1, PartsMain
  <2>2. ASSUME NEW c \in Conn,
               Server(handle_socket(c)) \/ Server(WorkerStep(c)) \/ Server(WorkerFault(c))
        PROVE  MainInv' /\ PartsInv'
    <3>1. Server(handle_socket(c) \/ WorkerStep(c) \/ WorkerFault(c))
      BY <2>2 DEF Server
    <3> QED
      BY <3>1, PartsWorker
  <2>3. ASSUME UNCHANGED serverVars PROVE MainInv' /\ PartsInv'
    BY <2>3, MainFrame, PartsFrame DEF serverVars, mainVars, syncVars, workerVars, Released
  <2> QED
    BY <2>1, <2>2, <2>3 DEF Next, Client, vars
<1> QED
  BY <1>1, <1>2, TypeInvariant, SyncInvariant, BarrierInvariant, SessionInvariant,
     FilesInvariant, PTL DEF Spec

\* Nobody leaves the barrier, neither a worker nor the main thread, before every
\* worker of the session and the main thread have reached it
\* (cmd_handlers.c:155, 169, server_thread.c:117).
THEOREM ReleaseCorrect ==
    ASSUME NoReconnect
    PROVE  Spec => []ReleasedTogether
<1>1. TypeOK /\ SessionInv /\ FilesInv /\ MainInv => ReleasedTogether
  <2> SUFFICES ASSUME TypeOK, SessionInv, FilesInv, MainInv PROVE ReleasedTogether
    OBVIOUS
  <2>1. plays \in Nat
    BY ConnAssumption DEF TypeOK, ServerTypeOK
  <2>2. MainReleased => clients \subseteq Released
    BY <2>1 DEF MainReleased, FilesInv, SessionInv
  <2> QED
    BY <2>2 DEF ReleasedTogether, MainInv, SessionInv, PlayersTogether
<1> QED
  BY <1>1, TypeCorrect, SessionInvariant, FilesInvariant, PartsInvariant, PTL

\* Each file of a play has exactly one reader among all the workers there are,
\* and none is let go to a file that was not made
\* (cmd_handlers.c:353, 365, 386, server_thread.c:72).
THEOREM PartsCorrect ==
    ASSUME NoReconnect
    PROVE  Spec => []PartsCovered
<1>1. TypeOK /\ RosterInv /\ SessionInv /\ PartsInv => PartsCovered
  <2> SUFFICES ASSUME TypeOK, RosterInv, SessionInv, PartsInv PROVE PartsCovered
    OBVIOUS
  <2>1. Workers = clients
    BY DEF Workers, SessionInv, TypeOK, ServerTypeOK
  <2>2. {wtid[c] : c \in clients} = 0 .. Cardinality(clients) - 1
    BY DEF RosterInv, Numbered
  <2>3. ASSUME NEW i \in DOMAIN files
        PROVE  \E c \in Workers : \A d \in Workers : wtid[d] = i <=> d = c
    <3>1. PICK c \in clients : wtid[c] = i
      BY <2>2 DEF PartsInv
    <3>2. \A d \in clients : wtid[d] = i <=> d = c
      BY <3>1 DEF RosterInv, Numbered
    <3> QED
      BY <2>1, <3>2
  <2>4. ASSUME midi_ready, NEW c \in Workers PROVE wtid[c] \in DOMAIN files
    BY <2>1, <2>2, <2>4 DEF PartsInv
  <2> QED
    BY <2>3, <2>4 DEF PartsCovered
<1> QED
  BY <1>1, TypeCorrect, RosterInvariant, SessionInvariant, PartsInvariant, PTL

-----------------------------------------------------------------------------
(* What the clients hold, and what is on its way to them.                   *)

\* All the bytes of files in a stream are of the first play.
FirstPlayOnly(stream) ==
    \A i \in 1 .. Len(stream) : stream[i].kind = "data" => stream[i].file = 1

ContentOf(c) ==
    /\ fbuff[c] \in {None, 1}
    /\ wpc[c] = "data" => sized[c] = 1
    /\ FirstPlayOnly(toClient[c])

ContentInv == up = "running" => \A c \in clients : ContentOf(c)

LEMMA FirstPlayTail ==
    ASSUME NEW s \in Seq(Unit), s # << >>, FirstPlayOnly(s)
    PROVE  /\ FirstPlayOnly(Tail(s))
           /\ Head(s).kind = "data" => Head(s).file = 1
<1>1. /\ Len(s) \in Nat /\ Len(s) > 0 /\ Head(s) = s[1] /\ 1 \in 1 .. Len(s)
      /\ Len(Tail(s)) = Len(s) - 1
      /\ \A i \in 1 .. Len(Tail(s)) : Tail(s)[i] = s[i + 1] /\ i + 1 \in 1 .. Len(s)
  OBVIOUS
<1> QED
  BY <1>1 DEF FirstPlayOnly

LEMMA FirstPlayConcat ==
    ASSUME NEW s \in Seq(Unit), NEW t \in Seq(Unit), FirstPlayOnly(s), FirstPlayOnly(t)
    PROVE  FirstPlayOnly(s \o t)
<1>1. /\ Len(s) \in Nat /\ Len(t) \in Nat /\ Len(s \o t) = Len(s) + Len(t)
      /\ \A i \in 1 .. Len(s) + Len(t) :
            (s \o t)[i] = IF i <= Len(s) THEN s[i] ELSE t[i - Len(s)]
  BY ConcatProperties
<1> SUFFICES ASSUME NEW i \in 1 .. Len(s) + Len(t), (s \o t)[i].kind = "data"
             PROVE  (s \o t)[i].file = 1
  BY <1>1 DEF FirstPlayOnly
<1>2. CASE i <= Len(s)
  <2>1. i \in 1 .. Len(s)
    BY <1>1, <1>2
  <2> QED
    BY <1>1, <1>2, <2>1 DEF FirstPlayOnly
<1>3. CASE ~(i <= Len(s))
  <2>1. i - Len(s) \in 1 .. Len(t)
    BY <1>1, <1>3
  <2> QED
    BY <1>1, <1>3, <2>1 DEF FirstPlayOnly
<1> QED
  BY <1>2, <1>3

LEMMA FirstPlayFrom ==
    ASSUME NEW s \in Seq(Unit), Len(s) >= 2, FirstPlayOnly(s)
    PROVE  FirstPlayOnly(SubSeq(s, 3, Len(s)))
<1> DEFINE rest == SubSeq(s, 3, Len(s))
<1>1. Len(s) \in Nat /\ \A i \in 3 .. Len(s) : s[i] \in Unit
  OBVIOUS
<1>2. Len(rest) = IF 3 <= Len(s) THEN Len(s) - 3 + 1 ELSE 0
  BY <1>1, SubSeqProperties
<1> SUFFICES ASSUME NEW i \in 1 .. Len(rest), rest[i].kind = "data" PROVE rest[i].file = 1
  BY DEF FirstPlayOnly
<1>3. i \in 1 .. Len(s) - 3 + 1 /\ 3 + i - 1 \in 1 .. Len(s)
  <2> HIDE DEF rest
  <2> QED
    BY <1>1, <1>2
<1>4. rest[i] = s[3 + i - 1]
  BY <1>1, <1>3, SubSeqProperties
<1> QED
  BY <1>3, <1>4 DEF FirstPlayOnly

LEMMA ContentFrame ==
    ASSUME NEW d \in Conn, ContentOf(d), fbuff'[d] = fbuff[d], toClient'[d] = toClient[d],
           sized'[d] = sized[d], wpc'[d] = "data" => wpc[d] = "data"
    PROVE  ContentOf(d)'
BY DEF ContentOf, FirstPlayOnly

\* A worker sends nothing of a file.
LEMMA ContentSend ==
    ASSUME TypeOK, NEW c \in Conn, ContentOf(c), NEW units \in Seq(Unit), Sent(c, units),
           FirstPlayOnly(units), NEW pc, WorkerGoes(c, pc), pc = "data" => sized'[c] = 1,
           UNCHANGED fbuff
    PROVE  ContentOf(c)'
<1>1. toClient[c] \in Seq(Unit) /\ wpc'[c] = pc
  BY DEF TypeOK, NetTypeOK, ServerTypeOK, WorkerGoes
<1>2. FirstPlayOnly(toClient[c] \o units)
  BY <1>1, FirstPlayConcat DEF ContentOf
<1>3. toClient'[c] = IF alive[c] THEN toClient[c] \o units ELSE toClient[c]
  BY DEF Sent, TypeOK, NetTypeOK
<1>4. FirstPlayOnly(toClient'[c])
  BY <1>2, <1>3 DEF ContentOf
<1> QED
  BY <1>1, <1>4 DEF ContentOf, FirstPlayOnly

LEMMA ContentMain ==
    ASSUME TypeOK, SyncInv, ContentInv, NoReconnect,
           Server(MainStep \/ OperatorStep \/ LoadFails \/ CreateFails)
    PROVE  ContentInv'
<1> USE DEF netVars, mainVars, syncVars, workerVars, serverVars, clientVars, MainAt
<1>1. UNCHANGED << fbuff, toClient, sized, clients >> /\ up = "running"
  BY DEF Server, MainStep, OpenOut, FillOut, MainLock, SetReady, InitBarrier, Broadcast,
     MainArrive, OperatorStep, handle_load, handle_play, handle_reconnect, NoReconnect,
     handle_quit, sighandler, LoadFails, CreateFails, ServerExits
<1>2. \A d \in Conn : wpc'[d] = "data" => wpc[d] = "data"
  <2>1. CASE Broadcast
    BY <2>1 DEF Broadcast
  <2>2. CASE MainArrive
    BY <2>2 DEF MainArrive, Arrive
  <2>3. CASE ~Broadcast /\ ~MainArrive
    BY <2>3 DEF Server, MainStep, OpenOut, FillOut, MainLock, SetReady, InitBarrier,
       OperatorStep, handle_load, handle_play, handle_reconnect, handle_quit, sighandler,
       LoadFails, CreateFails, ServerExits
  <2> QED
    BY <2>1, <2>2, <2>3
<1> QED
  BY <1>1, <1>2, ContentFrame DEF ContentInv, TypeOK, ServerTypeOK

LEMMA ContentWorker ==
    ASSUME TypeOK, SyncInv, AcceptInv, SessionInv, RosterInv, StreamInv, FilesInv, ContentInv,
           NEW c \in Conn, Server(handle_socket(c) \/ WorkerStep(c) \/ WorkerFault(c))
    PROVE  ContentInv'
<1> USE DEF netVars, mainVars, syncVars, workerVars, serverVars, clientVars, WorkerAt
<1>1. /\ wpc \in [Conn -> WorkerPC] /\ toClient \in [Conn -> Seq(Unit)]
      /\ sized \in [Conn -> Contents] /\ clients \subseteq Conn
  BY DEF TypeOK, NetTypeOK, ServerTypeOK
<1>2. UNCHANGED clientVars
  BY DEF Server
<1>3. ASSUME up = "running", clients' \subseteq clients \cup {c}, c \in clients' => ContentOf(c)',
             \A d \in Conn \ {c} :
                /\ toClient'[d] = toClient[d] /\ sized'[d] = sized[d]
                /\ wpc'[d] = "data" => wpc[d] = "data"
      PROVE  ContentInv'
  <2> SUFFICES ASSUME NEW d \in clients', d # c PROVE ContentOf(d)'
    BY <1>3 DEF ContentInv
  <2>1. d \in clients /\ d \in Conn /\ ContentOf(d)
    BY <1>1, <1>3 DEF ContentInv
  <2> QED
    BY <1>2, <1>3, <2>1, ContentFrame
<1>4. CASE handle_socket(c)
  <2>1. up = "running" /\ wpc[c] = "none" /\ UNCHANGED << toClient, sized >>
    BY <1>4 DEF handle_socket, AcceptInv, MainAt
  <2>2. toClient'[c] = << >> /\ fbuff'[c] = None
    BY <1>2, <2>1 DEF StreamInv, StreamOf, Unheard
  <2>3. /\ clients' \subseteq clients \cup {c} /\ wpc'[c] # "data"
        /\ \A d \in Conn \ {c} : wpc'[d] = wpc[d]
    BY <1>1, <1>4, <2>1 DEF handle_socket, WorkerGoes
  <2>4. ContentOf(c)'
    BY <2>2, <2>3 DEF ContentOf, FirstPlayOnly
  <2> QED
    BY <1>3, <2>1, <2>3, <2>4
<1>5. ASSUME up = "running", c \in clients => ContentOf(c), NEW pc, WorkerGoes(c, pc), pc # "data",
             UNCHANGED << toClient, sized, clients >>
      PROVE  ContentInv'
  <2>1. wpc'[c] = pc /\ \A d \in Conn \ {c} : wpc'[d] = wpc[d]
    BY <1>1, <1>5 DEF WorkerGoes
  <2>2. c \in clients' => ContentOf(c)'
    BY <1>2, <1>5, <2>1, ContentFrame
  <2> QED
    BY <1>3, <1>5, <2>1, <2>2
<1>6. ASSUME up = "running", WorkerStep(c) \/ WorkerFault(c)
      PROVE  c \in clients => ContentOf(c)
  BY <1>6 DEF ContentInv
<1>7. CASE WorkerLock(c) \/ CheckReady(c) \/ CondWait(c) \/ SpuriousWakeup(c) \/ SendDataFails(c)
  BY <1>5, <1>6, <1>7
  DEF WorkerLock, CheckReady, CondWait, SpuriousWakeup, SendDataFails, WorkerStep, WorkerFault
<1>8. ASSUME up = "running", NEW units \in Seq(Unit), Sent(c, units), FirstPlayOnly(units),
             NEW pc, WorkerGoes(c, pc), pc = "data" => sized'[c] = 1,
             \A d \in Conn \ {c} : sized'[d] = sized[d],
             UNCHANGED clients
      PROVE  ContentInv'
  <2>1. c \in clients => ContentOf(c)
    BY <1>8 DEF ContentInv
  <2>2. c \in clients' => ContentOf(c)'
    BY <1>2, <1>8, <2>1, ContentSend
  <2>3. \A d \in Conn \ {c} : wpc'[d] = wpc[d] /\ toClient'[d] = toClient[d]
    BY <1>1, <1>8 DEF WorkerGoes, Sent
  <2> QED
    BY <1>3, <1>8, <2>2, <2>3
<1>9. ASSUME NEW u \in Unit, u.kind = "data" => u.file = 1
      PROVE  << u >> \in Seq(Unit) /\ FirstPlayOnly(<< u >>)
  BY <1>9 DEF FirstPlayOnly
<1>10. CASE Greet(c)
  <2> DEFINE units == << Plain("connected"), Plain("id") >>
  <2>1. Plain("connected") \in Unit /\ Plain("id") \in Unit
    BY PlainType DEF Kind
  <2>2. units \in Seq(Unit) /\ FirstPlayOnly(units)
    BY <2>1 DEF FirstPlayOnly, Plain
  <2>3. up = "running" /\ Sent(c, units) /\ WorkerGoes(c, "lock") /\ UNCHANGED << sized, clients >>
    BY <1>10 DEF Greet
  <2> HIDE DEF units
  <2> QED
    BY <1>8, <2>2, <2>3
<1>11. CASE SendNewFile(c)
  <2>1. Plain("NFILE") \in Unit /\ Plain("NFILE").kind = "NFILE"
    BY PlainType DEF Kind, Plain
  <2>2. << Plain("NFILE") >> \in Seq(Unit) /\ FirstPlayOnly(<< Plain("NFILE") >>)
    BY <1>9, <2>1
  <2> QED
    BY <1>8, <1>11, <2>2 DEF SendNewFile
<1>12. CASE SendPlay(c)
  <2>1. Plain("PLAY") \in Unit /\ Plain("PLAY").kind = "PLAY"
    BY PlainType DEF Kind, Plain
  <2>2. << Plain("PLAY") >> \in Seq(Unit) /\ FirstPlayOnly(<< Plain("PLAY") >>)
    BY <1>9, <2>1
  <2> QED
    BY <1>8, <1>12, <2>2 DEF SendPlay
<1>13. ASSUME wpc[c] \in {"open", "data"} PROVE wtid[c] \in DOMAIN files /\ files[wtid[c]] = 1
  <2>1. c \in clients /\ c \notin Released /\ main \in {"arrive", "barrier"}
    BY <1>13 DEF SessionInv, Released, Early
  <2>2. plays = 1
    BY <2>1, ConnAssumption DEF FilesInv, TypeOK, ServerTypeOK
  <2>3. wtid[c] \in 0 .. Cardinality(clients) - 1
    BY <2>1 DEF RosterInv, Numbered
  <2> QED
    BY <2>1, <2>2, <2>3 DEF FilesInv, Complete
<1>14. CASE SendSize(c)
  <2> DEFINE u == Carrying("size", files[wtid[c]])
  <2>1. /\ up = "running" /\ wpc[c] = "open" /\ Sent(c, << u >>) /\ WorkerGoes(c, "data")
        /\ sized' = [sized EXCEPT ![c] = files[wtid[c]]] /\ UNCHANGED clients
    BY <1>14 DEF SendSize
  <2>2. files[wtid[c]] = 1
    BY <1>13, <2>1
  <2>3. files[wtid[c]] \in Contents
    BY <1>14 DEF SendSize, TypeOK, ServerTypeOK
  <2>4. u \in Unit /\ u.kind = "size"
    BY <2>3, CarryingType DEF Kind, Carrying
  <2>5. sized'[c] = 1 /\ \A d \in Conn \ {c} : sized'[d] = sized[d]
    BY <1>1, <2>1, <2>2
  <2> HIDE DEF u
  <2>6. << u >> \in Seq(Unit) /\ FirstPlayOnly(<< u >>)
    BY <1>9, <2>4
  <2> QED
    BY <1>8, <2>1, <2>5, <2>6
<1>15. CASE SendData(c)
  <2> DEFINE now == files[wtid[c]]
             u == Carrying("data", IF now = sized[c] THEN now ELSE Torn)
  <2>1. /\ up = "running" /\ wpc[c] = "data" /\ Sent(c, << u >>) /\ WorkerGoes(c, "recv")
        /\ UNCHANGED << sized, clients >>
    BY <1>15 DEF SendData
  <2>2. now = 1 /\ now \in Contents
    BY <1>13, <2>1 DEF TypeOK, ServerTypeOK
  <2>3. CASE c \in clients
    <3>1. now = sized[c]
      BY <2>1, <2>2, <2>3 DEF ContentInv, ContentOf
    <3>2. u = Carrying("data", now)
      BY <3>1
    <3>3. u \in Unit /\ u.kind = "data" /\ u.file = 1
      BY <2>2, <3>2, CarryingType DEF Kind, Carrying
    <3> HIDE DEF u
    <3>4. << u >> \in Seq(Unit) /\ FirstPlayOnly(<< u >>)
      BY <1>9, <3>3
    <3> QED
      BY <1>8, <2>1, <3>4
  <2>4. CASE c \notin clients
    BY <2>1, <2>4 DEF SessionInv
  <2> QED
    BY <2>3, <2>4
<1>16. CASE RecvReady(c)
  <2>1. /\ up = "running" /\ UNCHANGED << toClient, sized, clients >>
        /\ \A d \in Conn : wpc'[d] = "data" => wpc[d] = "data"
    BY <1>16 DEF RecvReady, Arrive
  <2>2. c \in clients => ContentOf(c)'
    BY <1>2, <2>1, ContentFrame DEF ContentInv
  <2> QED
    BY <1>3, <2>1, <2>2
<1>17. CASE OpenFails(c) \/ WorkerCrash(c)
  BY <1>17 DEF OpenFails, WorkerCrash, ServerExits, ContentInv
<1> QED
  BY <1>4, <1>7, <1>10, <1>11, <1>12, <1>14, <1>15, <1>16, <1>17
  DEF Server, WorkerStep, WorkerFault

LEMMA ContentClient ==
    ASSUME TypeOK, SessionInv, StreamInv, ContentInv, NEW c \in Conn,
           Client(Connect(c) \/ ClientStep(c) \/ ClientEnd(c) \/ ClientDies(c))
    PROVE  ContentInv'
<1> USE DEF netVars, mainVars, syncVars, workerVars, serverVars, clientVars, ClientAt
<1>1. /\ toClient \in [Conn -> Seq(Unit)] /\ fbuff \in [Conn -> Contents \cup {None}]
      /\ clients \subseteq Conn
  BY DEF TypeOK, NetTypeOK, ServerTypeOK, ClientTypeOK
<1>2. UNCHANGED << up, clients, sized, wpc >>
  BY DEF Client, Connect, ClientStep, ConfirmConnection, ReadPlay, ReadNewFile, ReadSize,
     RecvFile, ClientEnd, ConfirmAtEOF, ConfirmFails, RepeatCommand, EmptyFile, RecvSpins,
     FileFails, ClientDies, ClientExits
<1> SUFFICES ASSUME up = "running" PROVE \A d \in clients : ContentOf(d)'
  BY <1>2 DEF ContentInv
<1>3. \A d \in clients : ContentOf(d)
  BY DEF ContentInv
<1>4. ASSUME c \in clients => fbuff'[c] \in {None, 1} /\ FirstPlayOnly(toClient'[c]),
             \A d \in Conn \ {c} : fbuff'[d] = fbuff[d] /\ toClient'[d] = toClient[d]
      PROVE  \A d \in clients : ContentOf(d)'
  <2> SUFFICES ASSUME NEW d \in clients PROVE ContentOf(d)'
    OBVIOUS
  <2>1. CASE d = c
    BY <1>2, <1>3, <1>4, <2>1 DEF ContentOf, FirstPlayOnly
  <2>2. CASE d # c
    BY <1>1, <1>2, <1>3, <1>4, <2>2, ContentFrame
  <2> QED
    BY <2>1, <2>2
<1>5. CASE UNCHANGED << fbuff, toClient >>
  BY <1>1, <1>3, <1>4, <1>5 DEF ContentOf
<1>6. CASE ConfirmConnection(c)
  <2>1. /\ Len(toClient[c]) >= 2 /\ UNCHANGED fbuff /\ toClient[c] \in Seq(Unit)
        /\ toClient' = [toClient EXCEPT ![c] = SubSeq(toClient[c], 3, Len(toClient[c]))]
    BY <1>1, <1>6 DEF ConfirmConnection
  <2>2. c \in clients => FirstPlayOnly(SubSeq(toClient[c], 3, Len(toClient[c])))
    BY <1>3, <2>1, FirstPlayFrom DEF ContentOf
  <2>3. toClient'[c] = SubSeq(toClient[c], 3, Len(toClient[c]))
        /\ \A d \in Conn \ {c} : toClient'[d] = toClient[d]
    BY <1>1, <2>1
  <2> QED
    BY <1>3, <1>4, <2>1, <2>2, <2>3 DEF ContentOf
<1>7. ASSUME NEW kind, Reads(c, kind)
      PROVE  /\ c \in clients => FirstPlayOnly(toClient'[c])
             /\ c \in clients /\ kind = "data" => Head(toClient[c]).file = 1
             /\ \A d \in Conn \ {c} : toClient'[d] = toClient[d]
  <2>1. /\ toClient[c] \in Seq(Unit) /\ toClient[c] # << >> /\ Head(toClient[c]).kind = kind
        /\ toClient'[c] = Tail(toClient[c]) /\ \A d \in Conn \ {c} : toClient'[d] = toClient[d]
    BY <1>1, <1>7 DEF Reads
  <2> QED
    BY <1>3, <2>1, FirstPlayTail DEF ContentOf
<1>8. CASE ReadPlay(c) \/ ReadNewFile(c) \/ ReadSize(c)
  <2>1. UNCHANGED fbuff /\ (Reads(c, "PLAY") \/ Reads(c, "NFILE") \/ Reads(c, "size"))
    BY <1>8 DEF ReadPlay, ReadNewFile, ReadSize
  <2>2. /\ c \in clients => FirstPlayOnly(toClient'[c])
        /\ \A d \in Conn \ {c} : toClient'[d] = toClient[d]
    BY <1>7, <2>1
  <2> QED
    BY <1>3, <1>4, <2>1, <2>2 DEF ContentOf
<1>9. CASE RecvFile(c)
  <2>1. Reads(c, "data") /\ fbuff' = [fbuff EXCEPT ![c] = Head(toClient[c]).file]
    BY <1>9 DEF RecvFile
  <2>2. /\ fbuff'[c] = Head(toClient[c]).file
        /\ \A d \in Conn \ {c} : fbuff'[d] = fbuff[d]
    BY <1>1, <2>1
  <2> QED
    BY <1>4, <1>7, <2>1, <2>2
<1>10. CASE ClientExits(c)
  <2>1. toClient' = [toClient EXCEPT ![c] = << >>] /\ UNCHANGED fbuff
    BY <1>10 DEF ClientExits
  <2>2. FirstPlayOnly(<< >>)
    BY DEF FirstPlayOnly
  <2>3. toClient'[c] = << >> /\ \A d \in Conn \ {c} : toClient'[d] = toClient[d]
    BY <1>1, <2>1
  <2> QED
    BY <1>3, <1>4, <2>1, <2>2, <2>3 DEF ContentOf
<1>11. CASE EmptyFile(c)
  <2>1. alive[c] /\ cpc[c] = "size" /\ AtEOF(c) /\ StreamOf(c)
    BY <1>11 DEF EmptyFile, StreamInv
  <2>2. wpc[c] = "none"
    BY <2>1, StreamEOF
  <2>3. c \notin clients
    BY <2>2 DEF SessionInv
  <2>4. \A d \in Conn \ {c} : fbuff'[d] = fbuff[d] /\ toClient'[d] = toClient[d]
    BY <1>1, <1>11 DEF EmptyFile
  <2> QED
    BY <1>4, <2>3, <2>4
<1> QED
  BY <1>5, <1>6, <1>8, <1>9, <1>10, <1>11
  DEF Client, Connect, ClientStep, ClientEnd, ConfirmAtEOF, ConfirmFails, RepeatCommand,
      RecvSpins, FileFails, ClientDies

LEMMA ContentInvariant ==
    ASSUME NoReconnect
    PROVE  Spec => []ContentInv
<1>1. Init => ContentInv
  BY DEF Init, ServerInit, ContentInv
<1>2. TypeInv /\ SyncInv /\ AcceptInv /\ SessionInv /\ RosterInv /\ StreamInv /\ FilesInv
         /\ ContentInv /\ [Next]_vars => ContentInv'
  <2> SUFFICES ASSUME TypeOK, SyncInv, AcceptInv, SessionInv, RosterInv, StreamInv, FilesInv,
                      ContentInv, [Next]_vars
               PROVE  ContentInv'
    BY DEF TypeInv
  <2>1. ASSUME Server(MainStep) \/ Server(OperatorStep) \/ Server(LoadFails \/ CreateFails)
        PROVE  ContentInv'
    <3>1. Server(MainStep \/ OperatorStep \/ LoadFails \/ CreateFails)
      BY <2>1 DEF Server
    <3> QED
      BY <3>1, ContentMain
  <2>2. ASSUME NEW c \in Conn,
               Server(handle_socket(c)) \/ Server(WorkerStep(c)) \/ Server(WorkerFault(c))
        PROVE  ContentInv'
    <3>1. Server(handle_socket(c) \/ WorkerStep(c) \/ WorkerFault(c))
      BY <2>2 DEF Server
    <3> QED
      BY <3>1, ContentWorker
  <2>3. ASSUME NEW c \in Conn,
               \/ Client(Connect(c)) \/ Client(ClientStep(c))
               \/ Client(ClientEnd(c)) \/ Client(ClientDies(c))
        PROVE  ContentInv'
    <3>1. Client(Connect(c) \/ ClientStep(c) \/ ClientEnd(c) \/ ClientDies(c))
      BY <2>3 DEF Client
    <3> QED
      BY <3>1, ContentClient
  <2>4. CASE UNCHANGED vars
    BY <2>4, ContentFrame
    DEF vars, netVars, serverVars, mainVars, workerVars, clientVars, ContentInv, TypeOK, ServerTypeOK
  <2> QED
    BY <2>1, <2>2, <2>3, <2>4 DEF Next
<1> QED
  BY <1>1, <1>2, TypeInvariant, SyncInvariant, SessionInvariant, RosterInvariant,
     StreamInvariant, FilesInvariant, PTL DEF Spec

-----------------------------------------------------------------------------
(* Who plays has been told to.                                              *)

PlayingInv == \A c \in Conn : playing[c] => wpc[c] = "done"

\* No step of the server changes who plays, and no worker does anything after
\* its last send.
LEMMA ServerKeepsDone ==
    ASSUME TypeOK, SyncInv, AcceptInv, NEW c \in Conn, wpc[c] = "done",
           \/ Server(MainStep) \/ Server(OperatorStep) \/ Server(LoadFails \/ CreateFails)
           \/ \E d \in Conn : Server(handle_socket(d)) \/ Server(WorkerStep(d))
                                 \/ Server(WorkerFault(d))
    PROVE  wpc'[c] = "done"
<1> USE DEF netVars, mainVars, syncVars, workerVars, serverVars, MainAt, WorkerAt, WorkerGoes
<1>1. wpc \in [Conn -> WorkerPC]
  BY DEF TypeOK, ServerTypeOK
<1>2. ASSUME NEW t \in Conn \cup {Main}, Arrive(t), t \in Conn => wpc[t] = "recv"
      PROVE  wpc'[c] = "done"
  BY <1>2, ServerAssumption DEF Arrive, SyncInv, BarrierPlaces
<1>3. CASE Server(MainStep)
  <2>1. CASE Broadcast
    BY <2>1 DEF Broadcast, Woken
  <2>2. CASE MainArrive
    BY <1>2, <2>2, ServerAssumption DEF MainArrive
  <2> QED
    BY <1>3, <2>1, <2>2 DEF Server, MainStep, OpenOut, FillOut, MainLock, SetReady, InitBarrier
<1>4. CASE Server(OperatorStep) \/ Server(LoadFails \/ CreateFails)
  BY <1>4 DEF Server, OperatorStep, handle_load, handle_play, handle_reconnect, handle_quit,
     sighandler, LoadFails, CreateFails, ServerExits
<1>5. ASSUME NEW d \in Conn, Server(handle_socket(d)) PROVE wpc'[c] = "done"
  <2>1. wpc[d] = "none"
    BY <1>5 DEF Server, handle_socket, AcceptInv
  <2> QED
    BY <1>1, <1>5, <2>1 DEF Server, handle_socket
<1>6. ASSUME NEW d \in Conn, Server(WorkerStep(d)) \/ Server(WorkerFault(d))
      PROVE  wpc'[c] = "done"
  <2>1. CASE RecvReady(d)
    BY <1>2, <2>1 DEF RecvReady
  <2>2. ASSUME wpc' = wpc \/ (wpc[d] # "done" /\ \E pc : wpc' = [wpc EXCEPT ![d] = pc])
        PROVE  wpc'[c] = "done"
    BY <1>1, <2>2
  <2>3. CASE Greet(d) \/ WorkerLock(d) \/ CheckReady(d) \/ CondWait(d) \/ SpuriousWakeup(d)
    BY <2>2, <2>3 DEF Greet, WorkerLock, CheckReady, CondWait, SpuriousWakeup
  <2>4. CASE SendNewFile(d) \/ SendSize(d) \/ SendData(d) \/ SendDataFails(d) \/ SendPlay(d)
    BY <2>2, <2>4 DEF SendNewFile, SendSize, SendData, SendDataFails, SendPlay
  <2>5. CASE OpenFails(d) \/ WorkerCrash(d)
    BY <2>2, <2>5 DEF OpenFails, WorkerCrash, ServerExits
  <2> QED
    BY <1>6, <2>1, <2>3, <2>4, <2>5 DEF Server, WorkerStep, WorkerFault
<1> QED
  BY <1>3, <1>4, <1>5, <1>6

\* A client starts only when it is told to; told again, it plays on.
LEMMA ClientPlays ==
    ASSUME TypeOK, StreamInv, NEW c \in Conn,
           Client(Connect(c) \/ ClientStep(c) \/ ClientEnd(c) \/ ClientDies(c))
    PROVE  \/ playing' = playing
           \/ wpc[c] = "done" /\ \A d \in Conn : playing'[d] = (playing[d] \/ d = c)
<1>1. playing \in [Conn -> BOOLEAN] /\ StreamOf(c)
  BY DEF TypeOK, ClientTypeOK, StreamInv
<1>2. CASE ReadPlay(c)
  <2>1. /\ alive[c] /\ cpc[c] = "commands" /\ Reads(c, "PLAY")
        /\ playing' = [playing EXCEPT ![c] = fbuff[c] # None]
    BY <1>2 DEF ReadPlay, ClientAt
  <2>2. OnTrack(c) /\ Consumed(c) < Written(c) /\ "PLAY" = Protocol[Consumed(c) + 1]
    BY <1>1, <2>1, StreamReads
  <2>3. Consumed(c) \in {2, 5, 6} /\ Written(c) \in 0 .. 6
    BY <2>1 DEF Consumed, Written
  <2>4. Protocol[2 + 1] # "PLAY"
    BY DEF Protocol
  <2>5. Consumed(c) = 5 /\ Written(c) = 6
    BY <2>2, <2>3, <2>4
  <2>6. fbuff[c] # None /\ wpc[c] = "done"
    BY <2>1, <2>5 DEF Consumed, Written
  <2>7. \A d \in Conn : playing'[d] = (playing[d] \/ d = c)
    <3>1. ASSUME NEW d \in Conn PROVE playing'[d] = IF d = c THEN TRUE ELSE playing[d]
      BY <1>1, <2>1, <2>6, Zenon
    <3> QED
      BY <1>1, <3>1
  <2> QED
    BY <2>6, <2>7
<1>3. CASE RepeatCommand(c)
  <2>1. CASE sbuf[c] = "NFILE"
    BY <1>3, <2>1 DEF RepeatCommand
  <2>2. CASE sbuf[c] # "NFILE"
    <3>1. playing' = [playing EXCEPT ![c] = fbuff[c] # None]
      BY <1>3, <2>2 DEF RepeatCommand
    <3>2. sbuf[c] = "PLAY"
      BY <2>2 DEF TypeOK, ClientTypeOK
    <3>3. playing[c] = (fbuff[c] # None)
      BY <1>1, <3>2 DEF StreamOf
    <3>4. playing' = [playing EXCEPT ![c] = playing[c]]
      BY <3>1, <3>3, Zenon
    <3> QED
      BY <1>1, <3>4
  <2> QED
    BY <2>1, <2>2
<1>4. CASE ~ReadPlay(c) /\ ~RepeatCommand(c)
  BY <1>4 DEF Client, Connect, ClientStep, ConfirmConnection, ReadNewFile, ReadSize, RecvFile,
     ClientEnd, ConfirmAtEOF, ConfirmFails, EmptyFile, RecvSpins, FileFails, ClientDies,
     ClientExits, clientVars
<1> QED
  BY <1>2, <1>3, <1>4

LEMMA PlayingInvariant == Spec => []PlayingInv
<1>1. Init => PlayingInv
  BY DEF Init, ClientInit, PlayingInv
<1>2. TypeInv /\ SyncInv /\ AcceptInv /\ StreamInv /\ PlayingInv /\ [Next]_vars => PlayingInv'
  <2> SUFFICES ASSUME TypeOK, SyncInv, AcceptInv, StreamInv, PlayingInv, [Next]_vars
               PROVE  PlayingInv'
    BY DEF TypeInv
  <2>1. ASSUME \/ Server(MainStep) \/ Server(OperatorStep) \/ Server(LoadFails \/ CreateFails)
               \/ \E d \in Conn : Server(handle_socket(d)) \/ Server(WorkerStep(d))
                                     \/ Server(WorkerFault(d))
        PROVE  PlayingInv'
    <3>1. playing' = playing
      BY <2>1 DEF Server, clientVars
    <3>2. \A c \in Conn : wpc[c] = "done" => wpc'[c] = "done"
      BY <2>1, ServerKeepsDone
    <3> QED
      BY <3>1, <3>2 DEF PlayingInv
  <2>2. ASSUME NEW c \in Conn,
               \/ Client(Connect(c)) \/ Client(ClientStep(c))
               \/ Client(ClientEnd(c)) \/ Client(ClientDies(c))
        PROVE  PlayingInv'
    <3>1. Client(Connect(c) \/ ClientStep(c) \/ ClientEnd(c) \/ ClientDies(c))
      BY <2>2 DEF Client
    <3>2. wpc' = wpc
      BY <3>1 DEF Client, serverVars, workerVars
    <3> QED
      BY <3>1, <3>2, ClientPlays DEF PlayingInv
  <2>3. CASE UNCHANGED vars
    BY <2>3 DEF vars, serverVars, workerVars, clientVars, PlayingInv
  <2> QED
    BY <2>1, <2>2, <2>3 DEF Next
<1> QED
  BY <1>1, <1>2, TypeInvariant, SyncInvariant, StreamInvariant, PTL DEF Spec

\* When a client of the session plays, every live client of the session holds
\* its whole part, and all the parts are of one play, although the operator
\* may play again and the files are then written again
\* (server_thread.c:114-124, cmd_handlers.c:386-395).
THEOREM StartCorrect ==
    ASSUME NoReconnect
    PROVE  Spec => []StartTogether
<1>1. TypeOK /\ SessionInv /\ StreamInv /\ ContentInv /\ PlayingInv => StartTogether
  <2> SUFFICES ASSUME TypeOK, SessionInv, StreamInv, ContentInv, PlayingInv,
                      NEW c \in clients, up = "running", playing[c]
               PROVE  /\ fbuff[c] # Torn
                      /\ \A d \in clients : alive[d] => fbuff[d] = fbuff[c]
    BY DEF StartTogether
  <2>1. clients \subseteq Conn /\ c \in Conn
    BY DEF TypeOK, ServerTypeOK
  <2>2. fbuff[c] = 1
    BY <2>1 DEF StreamInv, StreamOf, ContentInv, ContentOf
  <2>3. clients \subseteq Released
    BY <2>1 DEF PlayingInv, Released, SessionInv, PlayersTogether
  <2>4. ASSUME NEW d \in clients, alive[d] PROVE fbuff[d] = 1
    <3>1. d \in Conn /\ wpc[d] \in {"play", "done"}
      BY <2>1, <2>3, <2>4 DEF Released
    <3>2. OnTrack(d)
      BY <2>4, <3>1 DEF StreamInv, StreamOf, Ended
    <3>3. fbuff[d] # None
      BY <3>1, <3>2 DEF OnTrack, Consumed
    <3> QED
      BY <2>4, <3>3 DEF ContentInv, ContentOf
  <2> QED
    BY <2>2, <2>4 DEF Torn
<1> QED
  BY <1>1, TypeCorrect, SessionInvariant, StreamInvariant, ContentInvariant, PlayingInvariant,
     PTL

-----------------------------------------------------------------------------
(* The session is a Concert: each step is one of its steps, or none.        *)

LEMMA ConcertInit == Init => concert!Init
BY DEF Init, ServerInit, ClientInit, concert!Init, concertArrived, Released

\* Nobody arrives, joins or starts.
LEMMA ConcertStutter ==
    ASSUME UNCHANGED << clients, accepting_clients, barrier_in, playing >>,
           Released' = Released
    PROVE  UNCHANGED concert!concertVars
BY DEF concert!concertVars, concertArrived

\* Once a client has been released, everybody has arrived.
LEMMA ConcertStarted ==
    ASSUME TypeOK, SyncInv, BarrierInv, SessionInv, Released # {}
    PROVE  concert!Started /\ concertArrived = clients \cup {Main}
<1>1. clients \subseteq Released /\ Released \subseteq clients
  BY DEF SessionInv, PlayersTogether, Released
<1>2. barrier_in \subseteq clients \cup {Main}
  BY DEF TypeOK, ServerTypeOK, SyncInv, BarrierPlaces, SessionInv
<1>3. barrier_initialized /\ ~accepting_clients
  BY DEF Released, BarrierInv, Past, SessionInv
<1>4. concertArrived = clients \cup {Main}
  BY <1>1, <1>2 DEF concertArrived
<1> QED
  BY <1>3, <1>4 DEF concert!Started, concert!Participants

\* An arrival at the barrier, the last one of a play too, and main's second.
LEMMA ConcertArrive ==
    ASSUME TypeOK, SyncInv, BarrierInv, SessionInv, FilesInv, barrier_initialized,
           NEW t \in clients \cup {Main}, Arrive(t),
           t = Main => main = "arrive",
           t \in clients => wpc[t] = "recv",
           UNCHANGED << clients, accepting_clients, playing >>
    PROVE  concert!Arrive(t) \/ UNCHANGED concert!concertVars
<1>1. Main \notin Conn /\ clients \subseteq Conn /\ t \notin barrier_in
  BY ServerAssumption DEF TypeOK, ServerTypeOK, SyncInv, BarrierPlaces
<1>2. ~accepting_clients
  BY DEF SessionInv
<1>3. clients # {}
  BY DEF FilesInv
<1>4. CASE Released = {}
  <2>1. concertArrived = barrier_in
    BY <1>4 DEF concertArrived
  <2>2. CASE Completes(barrier_in \cup {t})
    <3>1. barrier_in \cup {t} = clients \cup {Main}
      BY <2>2, FullMeansAll
    <3>2. barrier_in' = {} /\ \A c \in Conn : wpc'[c] = IF c \in clients THEN "play" ELSE wpc[c]
      BY <1>1, <2>2, <3>1 DEF Arrive
    <3>3. Released' = clients
      BY <1>1, <1>4, <3>2 DEF Released
    <3>4. concertArrived' = concertArrived \cup {t}
      BY <1>3, <2>1, <3>1, <3>2, <3>3 DEF concertArrived
    <3> QED
      BY <1>1, <1>2, <2>1, <3>4 DEF concert!Arrive, concert!Participants
  <2>3. CASE ~Completes(barrier_in \cup {t})
    <3>1. /\ barrier_in' = barrier_in \cup {t}
          /\ \A c \in Conn : wpc'[c] = IF c = t THEN "barrier" ELSE wpc[c]
      BY <2>3 DEF Arrive
    <3>2. Released' = {}
      BY <1>4, <3>1 DEF Released
    <3>3. concertArrived' = concertArrived \cup {t}
      BY <2>1, <3>1, <3>2 DEF concertArrived
    <3> QED
      BY <1>1, <1>2, <2>1, <3>3 DEF concert!Arrive, concert!Participants
  <2> QED
    BY <2>2, <2>3
<1>5. CASE Released # {}
  <2>1. clients \subseteq Released /\ t = Main
    BY <1>5 DEF SessionInv, PlayersTogether, Released
  <2>2. concertArrived = clients \cup {Main}
    BY <1>5, ConcertStarted
  <2>3. barrier_in \subseteq {Main}
    BY <2>1 DEF TypeOK, ServerTypeOK, SyncInv, BarrierPlaces, Released, SessionInv
  <2>4. ~Completes(barrier_in \cup {t})
    BY <1>1, <1>3, <2>1, <2>3, FullMeansAll
  <2>5. barrier_in' = {Main} /\ wpc' = [c \in Conn |-> wpc[c]]
    BY <1>1, <2>1, <2>3, <2>4 DEF Arrive
  <2>6. Released' = Released
    BY <2>5 DEF Released
  <2>7. concertArrived' = concertArrived
    BY <2>1, <2>2, <2>3, <2>5, <2>6, <1>5 DEF concertArrived
  <2> QED
    BY <2>7 DEF concert!concertVars
<1> QED
  BY <1>4, <1>5

LEMMA ConcertMain ==
    ASSUME TypeOK, SyncInv, BarrierInv, SessionInv, FilesInv, NoReconnect,
           Server(MainStep \/ OperatorStep \/ LoadFails \/ CreateFails)
    PROVE  [concert!Next]_concert!concertVars
<1> USE DEF netVars, mainVars, syncVars, workerVars, serverVars, clientVars, MainAt
<1>1. CASE handle_play
  <2>1. /\ clients # {} /\ accepting_clients' = FALSE
        /\ UNCHANGED << clients, barrier_in, wpc, playing >>
    BY <1>1 DEF Server, handle_play
  <2>2. concertArrived' = concertArrived
    BY <2>1 DEF concertArrived, Released
  <2>3. concert!Close
    BY <2>1, <2>2 DEF concert!Close
  <2> QED
    BY <2>3 DEF concert!Next
<1>2. CASE MainArrive
  <2>1. barrier_initialized /\ Main \notin clients
    BY <1>2, ServerAssumption DEF MainArrive, BarrierInv, TypeOK, ServerTypeOK
  <2>2. concert!Arrive(Main) \/ UNCHANGED concert!concertVars
    BY <1>2, <2>1, ConcertArrive DEF Server, MainArrive
  <2> QED
    BY <2>2 DEF concert!Next
<1>3. CASE Broadcast
  <2>1. \A c \in Conn : wpc'[c] = IF wpc[c] = "sleep" THEN "lock" ELSE wpc[c]
    BY <1>3 DEF Broadcast, Woken
  <2>2. Released' = Released
    BY <2>1 DEF Released
  <2> QED
    BY <1>3, <2>2, ConcertStutter DEF Server, Broadcast
<1>4. CASE OpenOut \/ FillOut \/ MainLock \/ SetReady \/ InitBarrier
  <2>1. UNCHANGED << clients, accepting_clients, barrier_in, playing, wpc >>
    BY <1>4 DEF Server, OpenOut, FillOut, MainLock, SetReady, InitBarrier
  <2> QED
    BY <2>1, ConcertStutter DEF Released
<1>5. CASE handle_load \/ handle_quit \/ sighandler \/ LoadFails \/ CreateFails
  <2>1. UNCHANGED << clients, accepting_clients, barrier_in, playing, wpc >>
    BY <1>5 DEF Server, handle_load, handle_quit, sighandler, LoadFails, CreateFails, ServerExits
  <2> QED
    BY <2>1, ConcertStutter DEF Released
<1>6. ~handle_reconnect
  BY DEF handle_reconnect, NoReconnect
<1> QED
  BY <1>1, <1>2, <1>3, <1>4, <1>5, <1>6 DEF Server, MainStep, OperatorStep

LEMMA ConcertWorker ==
    ASSUME TypeOK, SyncInv, AcceptInv, BarrierInv, SessionInv, FilesInv, NEW c \in Conn,
           Server(handle_socket(c) \/ WorkerStep(c) \/ WorkerFault(c))
    PROVE  [concert!Next]_concert!concertVars
<1> USE DEF netVars, mainVars, syncVars, workerVars, serverVars, clientVars, WorkerAt, WorkerGoes
<1>1. wpc \in [Conn -> WorkerPC]
  BY DEF TypeOK, ServerTypeOK
<1>2. ASSUME NEW pc, wpc' = [wpc EXCEPT ![c] = pc],
             wpc[c] \in {"play", "done"} <=> pc \in {"play", "done"},
             UNCHANGED << clients, accepting_clients, barrier_in, playing >>
      PROVE  UNCHANGED concert!concertVars
  <2>1. Released' = Released
    BY <1>1, <1>2 DEF Released
  <2> QED
    BY <1>2, <2>1, ConcertStutter
<1>3. CASE handle_socket(c)
  <2>1. wpc[c] = "none" /\ UNCHANGED << accepting_clients, barrier_in, playing >>
    BY <1>3 DEF Server, handle_socket, AcceptInv
  <2>2. CASE Admits
    <3>1. clients' = clients \cup {c} /\ wpc' = [wpc EXCEPT ![c] = "start"]
      BY <1>3, <2>2 DEF handle_socket
    <3>2. Released' = Released
      BY <1>1, <2>1, <3>1 DEF Released
    <3>3. concertArrived' = concertArrived
      BY <2>1, <3>2 DEF concertArrived
    <3>4. concert!Join(c)
      BY <2>1, <2>2, <3>1, <3>3 DEF concert!Join, Admits
    <3> QED
      BY <3>4 DEF concert!Next
  <2>3. CASE ~Admits
    BY <1>3, <2>1, <2>3, ConcertStutter DEF handle_socket, Released
  <2> QED
    BY <2>2, <2>3
<1>4. CASE Greet(c) \/ WorkerLock(c) \/ CheckReady(c) \/ CondWait(c) \/ SpuriousWakeup(c)
  BY <1>2, <1>4 DEF Server, Greet, WorkerLock, CheckReady, CondWait, SpuriousWakeup
<1>5. CASE SendNewFile(c) \/ SendSize(c) \/ SendData(c) \/ SendDataFails(c) \/ SendPlay(c)
  BY <1>2, <1>5 DEF Server, SendNewFile, SendSize, SendData, SendDataFails, SendPlay
<1>6. CASE RecvReady(c)
  <2>1. barrier_initialized /\ c \in clients /\ c # Main
    BY <1>6, ServerAssumption DEF RecvReady, BarrierInv, Past, SessionInv
  <2>2. concert!Arrive(c) \/ UNCHANGED concert!concertVars
    BY <1>6, <2>1, ConcertArrive DEF Server, RecvReady
  <2> QED
    BY <2>2 DEF concert!Next
<1>7. CASE OpenFails(c) \/ WorkerCrash(c)
  BY <1>7, ConcertStutter DEF Server, OpenFails, WorkerCrash, ServerExits, Released
<1> QED
  BY <1>3, <1>4, <1>5, <1>6, <1>7 DEF Server, WorkerStep, WorkerFault

LEMMA ConcertClient ==
    ASSUME TypeOK, SyncInv, BarrierInv, SessionInv, StreamInv, NEW c \in Conn,
           Client(Connect(c) \/ ClientStep(c) \/ ClientEnd(c) \/ ClientDies(c))
    PROVE  [concert!Next]_concert!concertVars
<1>1. UNCHANGED << clients, accepting_clients, barrier_in, wpc >>
  BY DEF Client, serverVars, mainVars, syncVars, workerVars
<1>2. CASE playing' = playing
  BY <1>1, <1>2, ConcertStutter DEF Released
<1>3. CASE wpc[c] = "done" /\ \A d \in Conn : playing'[d] = (playing[d] \/ d = c)
  <2>1. c \in Released /\ c \in clients
    BY <1>3 DEF Released, SessionInv
  <2>2. concert!Started
    BY <2>1, ConcertStarted
  <2>3. concertArrived' = concertArrived
    BY <1>1 DEF concertArrived, Released
  <2>4. {d \in Conn : playing'[d]} = {d \in Conn : playing[d]} \cup {c}
    BY <1>3
  <2>5. concert!Play(c)
    BY <1>1, <2>1, <2>2, <2>3, <2>4 DEF concert!Play
  <2> QED
    BY <2>5 DEF concert!Next
<1> QED
  BY <1>2, <1>3, ClientPlays

\* What the server, its threads and the clients do is a Concert: nobody starts
\* before everybody has arrived, nobody joins once it is closed, and whoever
\* has arrived stays (cmd_handlers.c:128-178, server_thread.c:114-124).
THEOREM ConcertCorrect ==
    ASSUME NoReconnect
    PROVE  Spec => ConcertSafe
<1>1. TypeInv /\ SyncInv /\ AcceptInv /\ BarrierInv /\ SessionInv /\ StreamInv /\ FilesInv
         /\ [Next]_vars => [concert!Next]_concert!concertVars
  <2> SUFFICES ASSUME TypeOK, SyncInv, AcceptInv, BarrierInv, SessionInv, StreamInv, FilesInv,
                      [Next]_vars
               PROVE  [concert!Next]_concert!concertVars
    BY DEF TypeInv
  <2>1. ASSUME Server(MainStep) \/ Server(OperatorStep) \/ Server(LoadFails \/ CreateFails)
        PROVE  [concert!Next]_concert!concertVars
    <3>1. Server(MainStep \/ OperatorStep \/ LoadFails \/ CreateFails)
      BY <2>1 DEF Server
    <3> QED
      BY <3>1, ConcertMain
  <2>2. ASSUME NEW c \in Conn,
               Server(handle_socket(c)) \/ Server(WorkerStep(c)) \/ Server(WorkerFault(c))
        PROVE  [concert!Next]_concert!concertVars
    <3>1. Server(handle_socket(c) \/ WorkerStep(c) \/ WorkerFault(c))
      BY <2>2 DEF Server
    <3> QED
      BY <3>1, ConcertWorker
  <2>3. ASSUME NEW c \in Conn,
               \/ Client(Connect(c)) \/ Client(ClientStep(c))
               \/ Client(ClientEnd(c)) \/ Client(ClientDies(c))
        PROVE  [concert!Next]_concert!concertVars
    <3>1. Client(Connect(c) \/ ClientStep(c) \/ ClientEnd(c) \/ ClientDies(c))
      BY <2>3 DEF Client
    <3> QED
      BY <3>1, ConcertClient
  <2>4. CASE UNCHANGED vars
    BY <2>4, ConcertStutter
    DEF vars, serverVars, mainVars, syncVars, workerVars, clientVars, Released
  <2> QED
    BY <2>1, <2>2, <2>3, <2>4 DEF Next
<1>2. Init => concert!Init
  BY ConcertInit
<1> QED
  BY <1>1, <1>2, TypeInvariant, SyncInvariant, BarrierInvariant, SessionInvariant,
     StreamInvariant, FilesInvariant, PTL DEF Spec, ConcertSafe, concert!Safe
=============================================================================
