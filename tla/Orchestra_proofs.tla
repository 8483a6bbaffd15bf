-------------------------- MODULE Orchestra_proofs --------------------------
(***************************************************************************)
(* Proofs about Orchestra, for every number of clients and of plays, every *)
(* set of failures and, but where it is said, every set of commands.       *)
(***************************************************************************)
EXTENDS Orchestra, FiniteSetTheorems, SequenceTheorems, TLAPS

-----------------------------------------------------------------------------
(* Facts about the operators of the model.                                  *)

\* The clients of a session are finitely many, and no more than there are.
LEMMA ListedFinite ==
    ASSUME NEW S \in SUBSET Conn
    PROVE  /\ IsFiniteSet(S)
           /\ Cardinality(S) \in Nat
           /\ Cardinality(S) <= Cardinality(Conn)
           /\ Cardinality(Conn) \in Nat
           /\ S # {} => Cardinality(S) > 0
<1>1. IsFiniteSet(Conn)
  BY ConnAssumption
<1>2. IsFiniteSet(S) /\ Cardinality(S) <= Cardinality(Conn)
  BY <1>1, FS_Subset
<1>3. Cardinality(S) \in Nat /\ Cardinality(Conn) \in Nat
  BY <1>1, <1>2, FS_CardinalityType
<1>4. S # {} => Cardinality(S) # 0
  BY <1>2, FS_EmptySet
<1> QED
  BY <1>2, <1>3, <1>4

\* What the server writes to a stream are units, so that the stream stays one.
LEMMA SentType ==
    ASSUME toClient \in [Conn -> Seq(Unit)], NEW c \in Conn,
           NEW units \in Seq(Unit), Sent(c, units)
    PROVE  toClient' \in [Conn -> Seq(Unit)]
<1>1. toClient[c] \in Seq(Unit)
  OBVIOUS
<1>2. toClient[c] \o units \in Seq(Unit)
  BY <1>1, ConcatProperties
<1> QED
  BY <1>2 DEF Sent

LEMMA PlainType ==
    ASSUME NEW kind \in Kind
    PROVE  Plain(kind) \in Unit
BY ConnAssumption DEF Plain, Unit, Contents, Torn

LEMMA CarryingType ==
    ASSUME NEW kind \in Kind, NEW contents \in Contents
    PROVE  Carrying(kind, contents) \in Unit
BY DEF Carrying, Unit

\* What a client reads leaves a stream.
LEMMA ReadsType ==
    ASSUME toClient \in [Conn -> Seq(Unit)], NEW c \in Conn, NEW kind, Reads(c, kind)
    PROVE  /\ Head(toClient[c]) \in Unit
           /\ toClient' \in [Conn -> Seq(Unit)]
<1>1. toClient[c] \in Seq(Unit) /\ toClient[c] # << >>
  BY DEF Reads
<1>2. Head(toClient[c]) \in Unit /\ Tail(toClient[c]) \in Seq(Unit)
  BY <1>1, HeadTailProperties
<1> QED
  BY <1>2 DEF Reads

-----------------------------------------------------------------------------
(* Types.  The loop over the listed clients writes one file for each: its   *)
(* index stays below their number, and no file has a number beyond.         *)

Writing == main \in {"open", "fill"} => nwritten < Cardinality(clients)

TypeInv == TypeOK /\ Writing

LEMMA TypeInit == Init => TypeInv
<1> SUFFICES ASSUME Init PROVE TypeInv
  OBVIOUS
<1>1. Torn \in Contents /\ Torn \in Nat
  BY ConnAssumption DEF Torn, Contents
<1>2. Cardinality(Conn) \in Nat
  BY ListedFinite
<1>3. NetTypeOK
  BY EmptySeq DEF Init, NetInit, NetTypeOK
<1>4. ServerTypeOK
  <2>1. files \in Seq(Contents) /\ Len(files) = 0
    BY EmptySeq DEF Init, ServerInit
  <2>2. files \in [DOMAIN files -> Contents] /\ DOMAIN files = {}
    BY <2>1, LenProperties
  <2>3. DOMAIN files \subseteq 0 .. Cardinality(Conn) - 1
    BY <2>2
  <2>4. /\ main \in MainPC /\ accepting_clients \in BOOLEAN /\ mfile \in BOOLEAN
    BY DEF Init, ServerInit, MainPC
  <2>7. tid \in Nat /\ plays \in 0 .. MaxPlays /\ nwritten \in 0 .. Cardinality(Conn)
    BY <1>2, ConnAssumption DEF Init, ServerInit
  <2>5. /\ midi_ready \in BOOLEAN /\ owner \in Conn \cup {Main, None}
        /\ barrier_initialized \in BOOLEAN /\ barrier_count \in Nat
        /\ clients \subseteq Conn /\ barrier_in \subseteq Conn \cup {Main}
    BY DEF Init, ServerInit
  <2>6. /\ wpc \in [Conn -> WorkerPC] /\ wtid \in [Conn -> Nat]
        /\ sized \in [Conn -> Contents]
    BY <1>1 DEF Init, ServerInit, WorkerPC
  <2> QED
    BY <2>2, <2>3, <2>4, <2>5, <2>6, <2>7 DEF ServerTypeOK
<1>5. ClientTypeOK
  BY DEF Init, ClientInit, ClientTypeOK, ClientPC
<1> QED
  BY <1>3, <1>4, <1>5 DEF Init, ServerInit, TypeInv, TypeOK, Writing

LEMMA TypeMain ==
    ASSUME TypeInv, Server(MainStep \/ OperatorStep \/ LoadFails \/ CreateFails)
    PROVE  TypeInv'
<1> USE DEF TypeInv, TypeOK, Server, NetTypeOK, ServerTypeOK, ClientTypeOK, Writing,
            MainAt, MainGoes
<1> USE DEF netVars, serverVars, mainVars, syncVars, workerVars, clientVars, MainPC
<1>1. /\ Cardinality(clients) \in Nat
      /\ Cardinality(clients) <= Cardinality(Conn)
      /\ Cardinality(Conn) \in Nat
      /\ clients # {} => Cardinality(clients) > 0
  BY ListedFinite
<1>2. Torn \in Contents /\ \A n \in 0 .. MaxPlays : n \in Contents
  BY ConnAssumption DEF Torn, Contents
<1>3. CASE OpenOut
  <2>1. nwritten \in 0 .. Cardinality(Conn) - 1
    BY <1>1, <1>3 DEF OpenOut
  <2>2. /\ DOMAIN files' \subseteq 0 .. Cardinality(Conn) - 1
        /\ files' \in [DOMAIN files' -> Contents]
    BY <1>2, <1>3, <2>1 DEF OpenOut
  <2> QED
    BY <1>1, <1>3, <2>2 DEF OpenOut
<1>4. CASE FillOut
  <2>1. plays \in Contents
    BY <1>2
  <2>2. /\ DOMAIN files' \subseteq 0 .. Cardinality(Conn) - 1
        /\ files' \in [DOMAIN files' -> Contents]
    BY <1>4, <2>1 DEF FillOut
  <2>3. nwritten' \in 0 .. Cardinality(Conn) /\ Writing'
    BY <1>1, <1>4 DEF FillOut, MoreFiles
  <2> QED
    BY <1>4, <2>2, <2>3 DEF FillOut
<1>5. CASE MainLock
  BY <1>5 DEF MainLock
<1>6. CASE SetReady
  BY <1>6 DEF SetReady
<1>7. CASE InitBarrier
  <2>1. BarrierCount(clients) \in Nat
    BY <1>1 DEF BarrierCount
  <2> QED
    BY <1>7, <2>1 DEF InitBarrier
<1>8. CASE Broadcast
  <2>1. wpc' \in [Conn -> WorkerPC]
    BY <1>8 DEF Broadcast, WorkerPC
  <2> QED
    BY <1>8, <2>1 DEF Broadcast
<1>9. CASE MainArrive
  <2>1. wpc' \in [Conn -> WorkerPC]
    BY <1>9 DEF MainArrive, Arrive, WorkerPC
  <2>2. barrier_in' \subseteq Conn \cup {Main} /\ main' \in MainPC /\ Writing'
    BY <1>9 DEF MainArrive, Arrive
  <2> QED
    BY <1>9, <2>1, <2>2 DEF MainArrive
<1>10. CASE handle_load
  BY <1>10 DEF handle_load
<1>11. CASE handle_play
  <2>1. /\ plays' \in 0 .. MaxPlays /\ nwritten' \in 0 .. Cardinality(Conn)
        /\ nwritten' < Cardinality(clients')
    BY <1>1, <1>11, ConnAssumption DEF handle_play
  <2> QED
    BY <1>11, <2>1 DEF handle_play
<1>12. CASE handle_reconnect
  BY <1>12 DEF handle_reconnect, setup_connections
<1>13. CASE handle_quit
  BY <1>13 DEF handle_quit
<1>14. CASE sighandler
  BY <1>14 DEF sighandler
<1>15. CASE LoadFails \/ CreateFails
  BY <1>15 DEF LoadFails, CreateFails, ServerExits
<1> QED
  BY <1>3, <1>4, <1>5, <1>6, <1>7, <1>8, <1>9, <1>10, <1>11, <1>12, <1>13, <1>14, <1>15
  DEF MainStep, OperatorStep

LEMMA TypeWorker ==
    ASSUME TypeInv, NEW c \in Conn,
           Server(handle_socket(c) \/ WorkerStep(c) \/ WorkerFault(c))
    PROVE  TypeInv'
<1> USE DEF TypeInv, TypeOK, Server, NetTypeOK, ServerTypeOK, ClientTypeOK, Writing,
            MainAt, MainGoes, WorkerAt, WorkerGoes
<1> USE DEF netVars, serverVars, mainVars, syncVars, workerVars, clientVars
<1>1. CASE handle_socket(c)
  <2>1. CASE Admits
    <3> HIDE DEF TypeInv, TypeOK, NetTypeOK, ServerTypeOK, ClientTypeOK, Writing
    <3>1. /\ wpc' = [wpc EXCEPT ![c] = "start"] /\ wtid' = [wtid EXCEPT ![c] = tid]
          /\ sock' = [sock EXCEPT ![c] = "open"]
          /\ tid' = tid + 1 /\ clients' = clients \cup {c}
      BY <1>1, <2>1 DEF handle_socket, NextTid
    <3>2. wtid' \in [Conn -> Nat] /\ tid' \in Nat /\ clients' \subseteq Conn
      BY <3>1 DEF TypeInv, TypeOK, ServerTypeOK
    <3>3. /\ sock' \in [Conn -> {"none", "backlog", "open", "closed"}]
          /\ wpc' \in [Conn -> WorkerPC]
      BY <3>1 DEF TypeInv, TypeOK, NetTypeOK, ServerTypeOK, WorkerPC
    <3> USE DEF TypeInv, TypeOK, NetTypeOK, ServerTypeOK, ClientTypeOK, Writing
    <3>4. UNCHANGED << up, alive, toClient, toServer, main, accepting_clients, mfile,
                       plays, nwritten, files, midi_ready, owner, barrier_initialized,
                       barrier_count, barrier_in, sized >> /\ main = "select"
      BY <1>1 DEF handle_socket
    <3>5. ClientTypeOK' /\ NetTypeOK'
      BY <1>1, <3>3, <3>4
    <3> QED
      BY <3>2, <3>3, <3>4, <3>5
  <2>2. CASE ~Admits
    BY <1>1, <2>2 DEF handle_socket
  <2> QED
    BY <2>1, <2>2
<1>2. CASE Greet(c)
  <2>1. << Plain("connected"), Plain("id") >> \in Seq(Unit)
    BY PlainType DEF Kind
  <2> QED
    BY <1>2, <2>1, SentType DEF Greet, WorkerPC
<1>3. CASE WorkerLock(c)
  BY <1>3 DEF WorkerLock, WorkerPC
<1>4. CASE CheckReady(c)
  BY <1>4 DEF CheckReady, WorkerPC
<1>5. CASE CondWait(c)
  BY <1>5 DEF CondWait, WorkerPC
<1>6. CASE SendNewFile(c)
  <2>1. << Plain("NFILE") >> \in Seq(Unit)
    BY PlainType DEF Kind
  <2> QED
    BY <1>6, <2>1, SentType DEF SendNewFile, WorkerPC
<1>7. CASE SendSize(c)
  <2>1. files[wtid[c]] \in Contents
    BY <1>7 DEF SendSize
  <2>2. << Carrying("size", files[wtid[c]]) >> \in Seq(Unit)
    BY <2>1, CarryingType DEF Kind
  <2> QED
    BY <1>7, <2>1, <2>2, SentType DEF SendSize, WorkerPC
<1>8. CASE SendData(c)
  <2> DEFINE now == files[wtid[c]]
  <2>1. (IF now = sized[c] THEN now ELSE Torn) \in Contents
    BY ConnAssumption DEF Torn, Contents
  <2>2. << Carrying("data", IF now = sized[c] THEN now ELSE Torn) >> \in Seq(Unit)
    BY <2>1, CarryingType DEF Kind
  <2> QED
    BY <1>8, <2>2, SentType DEF SendData, WorkerPC
<1>9. CASE RecvReady(c)
  <2>1. wpc' \in [Conn -> WorkerPC]
    BY <1>9 DEF RecvReady, Arrive, WorkerPC
  <2>2. barrier_in' \subseteq Conn \cup {Main} /\ main' \in MainPC /\ Writing'
    BY <1>9 DEF RecvReady, Arrive, MainPC
  <2> QED
    BY <1>9, <2>1, <2>2 DEF RecvReady
<1>10. CASE SendPlay(c)
  <2>1. << Plain("PLAY") >> \in Seq(Unit)
    BY PlainType DEF Kind
  <2> QED
    BY <1>10, <2>1, SentType DEF SendPlay, WorkerPC
<1>11. CASE SpuriousWakeup(c)
  BY <1>11 DEF SpuriousWakeup, WorkerPC
<1>12. CASE SendDataFails(c)
  BY <1>12 DEF SendDataFails, WorkerPC
<1>13. CASE OpenFails(c) \/ WorkerCrash(c)
  BY <1>13 DEF OpenFails, WorkerCrash, ServerExits
<1> QED
  BY <1>1, <1>2, <1>3, <1>4, <1>5, <1>6, <1>7, <1>8, <1>9, <1>10, <1>11, <1>12, <1>13
  DEF WorkerStep, WorkerFault

LEMMA TypeClient ==
    ASSUME TypeInv, NEW c \in Conn,
           Client(Connect(c) \/ ClientStep(c) \/ ClientEnd(c) \/ ClientDies(c))
    PROVE  TypeInv'
<1> USE DEF TypeInv, TypeOK, Client, NetTypeOK, ServerTypeOK, ClientTypeOK, Writing,
            ClientAt, ClientGoes
<1> USE DEF netVars, serverVars, mainVars, syncVars, workerVars, clientVars
<1>1. Torn \in Contents
  BY ConnAssumption DEF Torn, Contents
<1>2. ASSUME ClientExits(c) PROVE TypeInv'
  BY <1>2, EmptySeq DEF ClientExits
<1>3. CASE Connect(c)
  BY <1>3 DEF Connect, ClientPC
<1>4. CASE ConfirmConnection(c)
  <2> DEFINE s == toClient[c]
  <2>1. s \in Seq(Unit) /\ Len(s) \in Nat
    BY LenProperties
  <2>2. \A i \in 3 .. Len(s) : s[i] \in Unit
    BY <2>1, ElementOfSeq
  <2>3. SubSeq(s, 3, Len(s)) \in Seq(Unit)
    BY <2>1, <2>2, SubSeqProperties
  <2>4. toClient' \in [Conn -> Seq(Unit)]
    BY <1>4, <2>3 DEF ConfirmConnection
  <2> QED
    BY <1>4, <2>4 DEF ConfirmConnection, ClientPC
<1>5. CASE ReadPlay(c)
  <2>1. toClient' \in [Conn -> Seq(Unit)]
    BY <1>5, ReadsType DEF ReadPlay
  <2> QED
    BY <1>5, <2>1 DEF ReadPlay
<1>6. CASE ReadNewFile(c)
  <2>1. toClient' \in [Conn -> Seq(Unit)]
    BY <1>6, ReadsType DEF ReadNewFile
  <2> QED
    BY <1>6, <2>1 DEF ReadNewFile, ClientPC
<1>7. CASE ReadSize(c)
  <2>1. toClient' \in [Conn -> Seq(Unit)]
    BY <1>7, ReadsType DEF ReadSize
  <2> QED
    BY <1>7, <2>1 DEF ReadSize, ClientPC
<1>8. CASE RecvFile(c)
  <2>1. toClient' \in [Conn -> Seq(Unit)] /\ Head(toClient[c]) \in Unit
    BY <1>8, ReadsType DEF RecvFile
  <2>2. Head(toClient[c]).file \in Contents
    BY <2>1 DEF Unit
  <2> QED
    BY <1>8, <2>1, <2>2 DEF RecvFile, ClientPC
<1>9. CASE ConfirmAtEOF(c)
  BY <1>9 DEF ConfirmAtEOF, ClientPC
<1>10. CASE RepeatCommand(c)
  BY <1>10 DEF RepeatCommand, ClientPC
<1>11. CASE EmptyFile(c)
  BY <1>1, <1>11 DEF EmptyFile, ClientPC
<1>12. CASE RecvSpins(c)
  BY <1>12 DEF RecvSpins, ClientPC
<1>13. CASE ConfirmFails(c) \/ FileFails(c) \/ ClientDies(c)
  BY <1>2, <1>13 DEF ConfirmFails, FileFails, ClientDies
<1> QED
  BY <1>3, <1>4, <1>5, <1>6, <1>7, <1>8, <1>9, <1>10, <1>11, <1>12, <1>13
  DEF ClientStep, ClientEnd

LEMMA TypeInvariant == Spec => []TypeInv
<1>1. TypeInv /\ [Next]_vars => TypeInv'
  <2> SUFFICES ASSUME TypeInv, [Next]_vars PROVE TypeInv'
    OBVIOUS
  <2>1. CASE Next
    <3>1. CASE Server(MainStep) \/ Server(OperatorStep) \/ Server(LoadFails \/ CreateFails)
      BY <3>1, TypeMain DEF Server
    <3>2. ASSUME NEW c \in Conn,
                 Server(handle_socket(c)) \/ Server(WorkerStep(c)) \/ Server(WorkerFault(c))
          PROVE  TypeInv'
      BY <3>2, TypeWorker DEF Server
    <3>3. ASSUME NEW c \in Conn,
                 \/ Client(Connect(c)) \/ Client(ClientStep(c))
                 \/ Client(ClientEnd(c)) \/ Client(ClientDies(c))
          PROVE  TypeInv'
      BY <3>3, TypeClient DEF Client
    <3> QED
      BY <2>1, <3>1, <3>2, <3>3 DEF Next
  <2>2. CASE UNCHANGED vars
    BY <2>2 DEF TypeInv, TypeOK, Writing, NetTypeOK, ServerTypeOK, ClientTypeOK, vars,
                netVars, serverVars, mainVars, syncVars, workerVars, clientVars
  <2> QED
    BY <2>1, <2>2
<1> QED
  BY TypeInit, <1>1, PTL DEF Spec

\* Every variable keeps to its type, and the loop that writes the files to its
\* bounds (cmd_handlers.c:371-396).
THEOREM TypeCorrect == Spec => []TypeOK
<1>1. TypeInv => TypeOK
  BY DEF TypeInv
<1> QED
  BY TypeInvariant, <1>1, PTL

-----------------------------------------------------------------------------
(* The mutex and the condition variable.  That nobody sleeps through a      *)
(* broadcast needs more than itself: a worker that has found midi_ready     *)
(* unset and is about to sleep still holds the mutex, so that main cannot   *)
(* be between setting midi_ready and the broadcast.                         *)

BarrierPlaces ==
    /\ Main \in barrier_in <=> main = "barrier"
    /\ \A c \in Conn : c \in barrier_in <=> wpc[c] = "barrier"

SyncInv ==
    /\ MutexDiscipline
    /\ BarrierPlaces
    /\ midi_ready /\ main \notin {"init", "broadcast"} =>
          \A c \in Conn : wpc[c] \notin {"wait", "sleep"}

\* A connection has no worker before main has accepted it.
AcceptInv ==
    \A c \in Conn : /\ cpc[c] = "init" => sock[c] = "none"
                    /\ sock[c] \in {"none", "backlog"} => wpc[c] = "none"

LEMMA SyncInit == Init => SyncInv
<1> SUFFICES ASSUME Init PROVE SyncInv
  OBVIOUS
<1> QED
  BY ConnAssumption, ServerAssumption
  DEF Init, ServerInit, SyncInv, MutexDiscipline, BarrierPlaces

\* Steps that touch neither the mutex, nor midi_ready, nor a thread's place.
LEMMA SyncFrame ==
    ASSUME SyncInv, UNCHANGED << main, owner, midi_ready, barrier_in, wpc >>
    PROVE  SyncInv'
BY DEF SyncInv, MutexDiscipline, BarrierPlaces

\* A worker that moves outside of the critical section, the wait and the barrier.
LEMMA SyncMove ==
    ASSUME TypeOK, SyncInv, UNCHANGED << main, owner, midi_ready, barrier_in >>,
           NEW c \in Conn, NEW pc, WorkerGoes(c, pc),
           wpc[c] \notin {"check", "wait", "barrier"},
           pc \notin {"check", "wait", "sleep", "barrier"}
    PROVE  SyncInv'
BY DEF TypeOK, ServerTypeOK, SyncInv, MutexDiscipline, BarrierPlaces, WorkerGoes

\* Main moves outside of the critical section and of the barrier.
LEMMA SyncMainMove ==
    ASSUME SyncInv, UNCHANGED << owner, midi_ready, barrier_in, wpc >>,
           main \notin {"ready", "init", "broadcast", "barrier"},
           main' \notin {"ready", "init", "broadcast", "barrier"}
    PROVE  SyncInv'
BY DEF SyncInv, MutexDiscipline, BarrierPlaces

\* An arrival at the barrier: threads leave it or enter it, main too.
LEMMA SyncArrive ==
    ASSUME TypeOK, SyncInv, UNCHANGED << owner, midi_ready >>,
           NEW t \in Conn \cup {Main}, Arrive(t),
           t = Main => main = "arrive",
           t \in Conn => wpc[t] = "recv"
    PROVE  SyncInv'
<1> DEFINE moved == IF Completes(barrier_in \cup {t}) THEN barrier_in \cup {t} ELSE {t}
           pc == IF Completes(barrier_in \cup {t}) THEN "play" ELSE "barrier"
<1>1. /\ wpc' = [c \in Conn |-> IF c \in moved THEN pc ELSE wpc[c]]
      /\ barrier_in' = IF Completes(barrier_in \cup {t}) THEN {} ELSE barrier_in \cup {t}
      /\ main' = IF Main \notin moved THEN main
                 ELSE IF Completes(barrier_in \cup {t}) THEN "select" ELSE "barrier"
  BY DEF Arrive
<1> HIDE DEF moved, pc
<1>2. \A c \in moved \cap Conn : wpc[c] \in {"barrier", "recv"}
  BY ServerAssumption DEF SyncInv, BarrierPlaces, moved
<1>3. \A c \in Conn : \/ wpc'[c] = wpc[c]
                      \/ wpc[c] \in {"barrier", "recv"} /\ wpc'[c] \in {"play", "barrier"}
  BY <1>1, <1>2 DEF pc
<1>4. Main \in moved => main \in {"arrive", "barrier"}
  BY ServerAssumption DEF SyncInv, BarrierPlaces, moved
<1>5. \/ main' = main
      \/ main \in {"arrive", "barrier"} /\ main' \in {"select", "barrier"}
  <2>1. CASE Main \in moved
    BY <1>1, <1>4, <2>1
  <2>2. CASE Main \notin moved
    BY <1>1, <2>2
  <2> QED
    BY <2>1, <2>2
<1>6. BarrierPlaces'
  <2>1. CASE Completes(barrier_in \cup {t})
    <3>1. \A c \in Conn : wpc'[c] # "barrier"
      BY <1>1, <2>1 DEF SyncInv, BarrierPlaces, moved, pc
    <3>2. main' # "barrier"
      BY <1>1, <2>1 DEF SyncInv, BarrierPlaces, moved
    <3> QED
      BY <1>1, <2>1, <3>1, <3>2 DEF BarrierPlaces
  <2>2. CASE ~Completes(barrier_in \cup {t})
    BY <1>1, <2>2, ServerAssumption DEF SyncInv, BarrierPlaces, moved, pc
  <2> QED
    BY <2>1, <2>2
<1>7. MutexDiscipline'
  BY <1>3, <1>5 DEF SyncInv, MutexDiscipline
<1>8. (midi_ready /\ main \notin {"init", "broadcast"} =>
          \A c \in Conn : wpc[c] \notin {"wait", "sleep"})'
  BY <1>3, <1>5 DEF SyncInv
<1> QED
  BY <1>6, <1>7, <1>8 DEF SyncInv

LEMMA SyncMain ==
    ASSUME TypeOK, SyncInv, Server(MainStep \/ OperatorStep \/ LoadFails \/ CreateFails)
    PROVE  SyncInv'
<1> USE ServerAssumption DEF MainAt, MainGoes
<1>1. CASE OpenOut
  BY <1>1, SyncMainMove DEF OpenOut, syncVars, workerVars
<1>2. CASE FillOut
  BY <1>2, SyncMainMove DEF FillOut, syncVars, workerVars
<1>3. CASE MainLock
  BY <1>3, ConnAssumption DEF MainLock, MutexFree, workerVars, SyncInv, MutexDiscipline, BarrierPlaces
<1>4. CASE SetReady
  BY <1>4 DEF SetReady, workerVars, SyncInv, MutexDiscipline, BarrierPlaces
<1>5. CASE InitBarrier
  BY <1>5 DEF InitBarrier, workerVars, SyncInv, MutexDiscipline, BarrierPlaces
<1>6. CASE Broadcast
  <2>1. \A c \in Conn : wpc[c] \notin {"check", "wait"}
    BY <1>6 DEF Broadcast, SyncInv, MutexDiscipline
  <2>2. \A c \in Conn : wpc'[c] = IF wpc[c] = "sleep" THEN "lock" ELSE wpc[c]
    BY <1>6 DEF Broadcast, Woken
  <2>3. owner' = None /\ main' = "arrive" /\ main = "broadcast" /\ barrier_in' = barrier_in
    BY <1>6 DEF Broadcast
  <2> QED
    BY <2>1, <2>2, <2>3, ConnAssumption DEF SyncInv, MutexDiscipline, BarrierPlaces
<1>7. CASE MainArrive
  BY <1>7, SyncArrive DEF MainArrive
<1>8. CASE handle_play
  BY <1>8 DEF handle_play, workerVars, SyncInv, MutexDiscipline, BarrierPlaces
<1>9. CASE handle_load \/ handle_reconnect \/ handle_quit \/ sighandler
  BY <1>9, SyncFrame DEF handle_load, handle_reconnect, setup_connections, handle_quit, sighandler,
     serverVars, mainVars, syncVars, workerVars
<1>10. CASE LoadFails \/ CreateFails
  BY <1>10, SyncFrame DEF LoadFails, CreateFails, ServerExits, serverVars, mainVars,
     syncVars, workerVars
<1> QED
  BY <1>1, <1>2, <1>3, <1>4, <1>5, <1>6, <1>7, <1>8, <1>9, <1>10
  DEF Server, MainStep, OperatorStep

LEMMA SyncWorker ==
    ASSUME TypeOK, SyncInv, NEW c \in Conn,
           Server(handle_socket(c) \/ WorkerStep(c) \/ WorkerFault(c)),
           AcceptInv
    PROVE  SyncInv'
<1> USE DEF MainAt, WorkerAt, mainVars, syncVars
<1>1. CASE handle_socket(c)
  <2>1. wpc[c] = "none"
    BY <1>1 DEF handle_socket, AcceptInv
  <2> QED
    BY <1>1, <2>1, SyncMove, SyncFrame DEF handle_socket
<1>2. CASE Greet(c)
  BY <1>2, SyncMove DEF Greet
<1>3. CASE WorkerLock(c)
  BY <1>3, ConnAssumption, ServerAssumption
  DEF WorkerLock, WorkerGoes, MutexFree, TypeOK, ServerTypeOK, SyncInv, MutexDiscipline,
      BarrierPlaces
<1>4. CASE CheckReady(c)
  BY <1>4, ConnAssumption, ServerAssumption
  DEF CheckReady, WorkerGoes, TypeOK, ServerTypeOK, SyncInv, MutexDiscipline, BarrierPlaces
<1>5. CASE CondWait(c)
  BY <1>5, ConnAssumption, ServerAssumption
  DEF CondWait, WorkerGoes, TypeOK, ServerTypeOK, SyncInv, MutexDiscipline, BarrierPlaces
<1>6. CASE SendNewFile(c)
  BY <1>6, SyncMove DEF SendNewFile
<1>7. CASE SendSize(c)
  BY <1>7, SyncMove DEF SendSize
<1>8. CASE SendData(c)
  BY <1>8, SyncMove DEF SendData
<1>9. CASE RecvReady(c)
  BY <1>9, SyncArrive, ServerAssumption DEF RecvReady
<1>10. CASE SendPlay(c)
  BY <1>10, SyncMove DEF SendPlay
<1>11. CASE SpuriousWakeup(c)
  BY <1>11, SyncMove DEF SpuriousWakeup
<1>12. CASE SendDataFails(c)
  BY <1>12, SyncMove DEF SendDataFails
<1>13. CASE OpenFails(c) \/ WorkerCrash(c)
  BY <1>13, SyncFrame DEF OpenFails, WorkerCrash, ServerExits, serverVars, workerVars
<1> QED
  BY <1>1, <1>2, <1>3, <1>4, <1>5, <1>6, <1>7, <1>8, <1>9, <1>10, <1>11, <1>12, <1>13
  DEF Server, WorkerStep, WorkerFault

LEMMA AcceptStep ==
    ASSUME TypeOK, SyncInv, AcceptInv, Next
    PROVE  AcceptInv'
<1> USE DEF TypeOK, NetTypeOK, ServerTypeOK, ClientTypeOK, AcceptInv
<1> USE DEF netVars, serverVars, mainVars, syncVars, workerVars, clientVars
<1>1. ASSUME UNCHANGED << cpc, sock >>,
             \A c \in Conn : wpc[c] = "none" => wpc'[c] = "none"
      PROVE  AcceptInv'
  BY <1>1
<1>2. ASSUME NEW t \in Conn \cup {Main}, Arrive(t), t \in Conn => wpc[t] = "recv",
             UNCHANGED << cpc, sock >>
      PROVE  AcceptInv'
  <2>1. \A c \in Conn : wpc[c] = "none" => c \notin barrier_in \cup {t}
    BY <1>2 DEF SyncInv, BarrierPlaces
  <2> DEFINE moved == IF Completes(barrier_in \cup {t}) THEN barrier_in \cup {t} ELSE {t}
  <2>2. \A c \in Conn : c \notin moved => wpc'[c] = wpc[c]
    BY <1>2 DEF Arrive
  <2>3. \A c \in Conn : wpc[c] = "none" => c \notin moved
    BY <2>1
  <2> HIDE DEF moved
  <2> QED
    BY <1>1, <1>2, <2>2, <2>3
<1>3. CASE Server(MainStep)
  <2>1. CASE MainArrive
    BY <1>2, <1>3, <2>1, ServerAssumption DEF Server, MainArrive
  <2>2. CASE Broadcast
    BY <1>1, <1>3, <2>2 DEF Server, Broadcast, Woken
  <2> QED
    BY <1>1, <1>3, <2>1, <2>2
    DEF Server, MainStep, OpenOut, FillOut, MainLock, SetReady, InitBarrier
<1>4. CASE Server(OperatorStep) \/ Server(LoadFails \/ CreateFails)
  BY <1>1, <1>4 DEF Server, OperatorStep, handle_load, handle_play, handle_reconnect, setup_connections,
     handle_quit, sighandler, LoadFails, CreateFails, ServerExits
<1>5. ASSUME NEW c \in Conn, Server(handle_socket(c)) PROVE AcceptInv'
  BY <1>5 DEF Server, handle_socket, WorkerGoes
<1>6. ASSUME NEW c \in Conn, Server(WorkerStep(c)) PROVE AcceptInv'
  <2>1. CASE RecvReady(c)
    BY <1>2, <1>6, <2>1 DEF Server, RecvReady, WorkerAt
  <2> QED
    BY <1>1, <1>6, <2>1
    DEF Server, WorkerStep, Greet, WorkerLock, CheckReady, CondWait, SendNewFile, SendSize,
        SendData, SendPlay, WorkerAt, WorkerGoes
<1>7. ASSUME NEW c \in Conn, Server(WorkerFault(c)) PROVE AcceptInv'
  BY <1>7 DEF Server, WorkerFault, SpuriousWakeup, OpenFails, SendDataFails, WorkerCrash,
     ServerExits, WorkerAt, WorkerGoes
<1>8. ASSUME NEW c \in Conn, Client(Connect(c)) PROVE AcceptInv'
  BY <1>8 DEF Client, Connect, ClientAt, ClientGoes
<1>9. ASSUME NEW c \in Conn,
             Client(ClientStep(c)) \/ Client(ClientEnd(c)) \/ Client(ClientDies(c))
      PROVE  AcceptInv'
  BY <1>9 DEF Client, ClientStep, ClientEnd, ClientDies, ConfirmConnection, ReadPlay,
     ReadNewFile, ReadSize, RecvFile, ConfirmAtEOF, ConfirmFails, RepeatCommand, EmptyFile,
     RecvSpins, FileFails, ClientExits, ClientAt, ClientGoes
<1> QED
  BY <1>3, <1>4, <1>5, <1>6, <1>7, <1>8, <1>9 DEF Next

LEMMA SyncInvariant == Spec => [](SyncInv /\ AcceptInv)
<1>1. Init => SyncInv /\ AcceptInv
  BY SyncInit DEF Init, NetInit, ServerInit, ClientInit, AcceptInv
<1>2. TypeInv /\ SyncInv /\ AcceptInv /\ [Next]_vars => (SyncInv /\ AcceptInv)'
  <2> SUFFICES ASSUME TypeOK, SyncInv, AcceptInv, [Next]_vars
               PROVE  (SyncInv /\ AcceptInv)'
    BY DEF TypeInv
  <2>1. CASE Next
    <3>1. ASSUME Server(MainStep) \/ Server(OperatorStep) \/ Server(LoadFails \/ CreateFails)
          PROVE  SyncInv'
      <4>1. Server(MainStep \/ OperatorStep \/ LoadFails \/ CreateFails)
        BY <3>1 DEF Server
      <4> QED
        BY <4>1, SyncMain
    <3>2. ASSUME NEW c \in Conn,
                 Server(handle_socket(c)) \/ Server(WorkerStep(c)) \/ Server(WorkerFault(c))
          PROVE  SyncInv'
      BY <3>2, SyncWorker DEF Server
    <3>3. ASSUME NEW c \in Conn,
                 \/ Client(Connect(c)) \/ Client(ClientStep(c))
                 \/ Client(ClientEnd(c)) \/ Client(ClientDies(c))
          PROVE  SyncInv'
      BY <3>3, SyncFrame DEF Client, serverVars, mainVars, syncVars, workerVars
    <3>4. SyncInv'
      BY <2>1, <3>1, <3>2, <3>3 DEF Next
    <3> QED
      BY <2>1, <3>4, AcceptStep
  <2>2. CASE UNCHANGED vars
    BY <2>2 DEF SyncInv, MutexDiscipline, BarrierPlaces, AcceptInv, vars, netVars,
                serverVars, mainVars, syncVars, workerVars, clientVars
  <2> QED
    BY <2>1, <2>2
<1> QED
  BY <1>1, <1>2, TypeInvariant, PTL DEF Spec

\* The mutex excludes (server_thread.c:59-64, cmd_handlers.c:150-161).
THEOREM MutexCorrect == Spec => []MutexDiscipline
<1>1. SyncInv => MutexDiscipline
  BY DEF SyncInv
<1> QED
  BY SyncInvariant, <1>1, PTL

\* Nobody sleeps through the broadcast, whatever the operator types and
\* whatever fails (server_thread.c:59-64, cmd_handlers.c:150-161, 376).
THEOREM WakeupCorrect == Spec => []NoLostWakeup
<1>1. SyncInv => NoLostWakeup
  BY DEF SyncInv, NoLostWakeup
<1> QED
  BY SyncInvariant, <1>1, PTL

-----------------------------------------------------------------------------
(* The barrier.  A worker that has seen midi_ready set has seen it after    *)
(* main initialised the barrier, since it looked while it held the mutex.   *)

Past == {"newfile", "open", "data", "recv", "barrier", "play", "done", "failed"}

BarrierInv ==
    /\ barrier_initialized => Cardinality(barrier_in) < barrier_count
    /\ midi_ready /\ main # "init" => barrier_initialized
    /\ main \in {"broadcast", "arrive", "barrier"} => barrier_initialized
    /\ \A c \in Conn : wpc[c] \in Past => barrier_initialized

LEMMA BarrierFinite ==
    ASSUME barrier_in \subseteq Conn \cup {Main}
    PROVE  IsFiniteSet(barrier_in) /\ Cardinality(barrier_in) \in Nat
<1>1. IsFiniteSet(Conn \cup {Main})
  BY ConnAssumption, FS_AddElement
<1> QED
  BY <1>1, FS_Subset, FS_CardinalityType

\* Who waits at the barrier waits at one that has been initialised.
LEMMA BarrierMeansInitialized ==
    ASSUME TypeOK, SyncInv, BarrierInv, barrier_in # {}
    PROVE  barrier_initialized
<1>1. PICK t \in barrier_in : t \in Conn \cup {Main}
  BY DEF TypeOK, ServerTypeOK
<1>2. t \in Conn => wpc[t] = "barrier"
  BY <1>1 DEF SyncInv, BarrierPlaces
<1>3. t = Main => main = "barrier"
  BY <1>1 DEF SyncInv, BarrierPlaces
<1> QED
  BY <1>1, <1>2, <1>3 DEF BarrierInv, Past

\* An arrival completes the barrier or leaves it short of its count.
LEMMA BarrierArrive ==
    ASSUME TypeOK, SyncInv, BarrierInv, NEW t \in Conn \cup {Main}, Arrive(t),
           barrier_initialized, UNCHANGED << barrier_initialized, barrier_count, midi_ready >>
    PROVE  BarrierInv'
<1> DEFINE in == barrier_in \cup {t}
<1>1. /\ IsFiniteSet(barrier_in) /\ Cardinality(barrier_in) \in Nat
      /\ barrier_count \in Nat /\ Cardinality(barrier_in) < barrier_count
  BY BarrierFinite DEF TypeOK, ServerTypeOK, BarrierInv
<1>2. Cardinality(in) \in Nat /\ Cardinality(in) <= barrier_count
  <2>1. Cardinality(in) = IF t \in barrier_in THEN Cardinality(barrier_in)
                          ELSE Cardinality(barrier_in) + 1
    BY <1>1, FS_AddElement, Zenon
  <2> QED
    BY <1>1, <2>1
<1>3. CASE Completes(in)
  <2>1. barrier_in' = {}
    BY <1>3 DEF Arrive
  <2>2. Cardinality(barrier_in') < barrier_count'
    BY <1>1, <2>1, FS_EmptySet
  <2> QED
    BY <2>2 DEF BarrierInv
<1>4. CASE ~Completes(in)
  <2>1. barrier_in' = in
    BY <1>4 DEF Arrive
  <2>2. Cardinality(in) # barrier_count
    BY <1>4 DEF Completes
  <2>3. Cardinality(barrier_in') < barrier_count'
    BY <1>1, <1>2, <2>1, <2>2
  <2> QED
    BY <2>3 DEF BarrierInv
<1> QED
  BY <1>3, <1>4

LEMMA BarrierInit == Init => BarrierInv
BY DEF Init, ServerInit, BarrierInv, Past

LEMMA BarrierStep ==
    ASSUME TypeOK, SyncInv, BarrierInv, Next
    PROVE  BarrierInv'
<1> USE DEF mainVars, syncVars, workerVars, serverVars, MainAt, MainGoes, WorkerAt, WorkerGoes
<1>1. ASSUME UNCHANGED << midi_ready, barrier_initialized, barrier_count, barrier_in >>,
             main' \in {"broadcast", "arrive", "barrier"} =>
                main \in {"broadcast", "arrive", "barrier"},
             main = "init" => main' = "init",
             \A c \in Conn : wpc'[c] \in Past => wpc[c] \in Past
      PROVE  BarrierInv'
  BY <1>1 DEF BarrierInv
<1>2. CASE Server(MainStep)
  <2>1. CASE OpenOut \/ FillOut \/ MainLock
    BY <1>1, <2>1 DEF OpenOut, FillOut, MainLock
  <2>2. CASE SetReady
    BY <2>2 DEF SetReady, BarrierInv
  <2>3. CASE InitBarrier
    <3>1. /\ barrier_in' = barrier_in /\ wpc' = wpc /\ midi_ready' = midi_ready
          /\ barrier_initialized' = TRUE
      BY <2>3 DEF InitBarrier
    <3>2. Cardinality(barrier_in') < barrier_count'
      <4>1. CASE barrier_initialized
        BY <2>3, <3>1, <4>1 DEF InitBarrier, BarrierInv
      <4>2. CASE ~barrier_initialized
        <5>1. Cardinality(barrier_in) = 0
          BY <4>2, BarrierMeansInitialized, FS_EmptySet
        <5>2. barrier_count' = Cardinality(clients) + 1
          BY <2>3, <4>2 DEF InitBarrier, BarrierCount
        <5> QED
          BY <3>1, <5>1, <5>2, ListedFinite DEF TypeOK, ServerTypeOK
      <4> QED
        BY <4>1, <4>2
    <3> QED
      BY <3>1, <3>2 DEF BarrierInv
  <2>4. CASE Broadcast
    BY <1>1, <2>4 DEF Broadcast, Woken, Past
  <2>5. CASE MainArrive
    BY <2>5, BarrierArrive DEF MainArrive, BarrierInv
  <2> QED
    BY <1>2, <2>1, <2>2, <2>3, <2>4, <2>5 DEF Server, MainStep
<1>3. CASE Server(OperatorStep) \/ Server(LoadFails \/ CreateFails)
  <2>1. CASE handle_play
    BY <2>1 DEF handle_play, BarrierInv
  <2> QED
    BY <1>1, <1>3, <2>1 DEF Server, OperatorStep, handle_load, handle_reconnect, setup_connections, handle_quit,
       sighandler, LoadFails, CreateFails, ServerExits
<1>4. ASSUME NEW c \in Conn, Server(handle_socket(c)) PROVE BarrierInv'
  BY <1>1, <1>4 DEF Server, handle_socket, Past, TypeOK, ServerTypeOK
<1>5. ASSUME NEW c \in Conn, Server(WorkerStep(c)) PROVE BarrierInv'
  <2> USE DEF Past, TypeOK, ServerTypeOK
  <2>1. CASE Greet(c) \/ WorkerLock(c) \/ CondWait(c)
    BY <1>1, <2>1 DEF Greet, WorkerLock, CondWait
  <2>2. CASE CheckReady(c)
    <3>1. main # "init"
      BY <2>2, ServerAssumption DEF CheckReady, SyncInv, MutexDiscipline
    <3> QED
      BY <2>2, <3>1 DEF CheckReady, BarrierInv
  <2>3. CASE SendNewFile(c) \/ SendSize(c) \/ SendData(c) \/ SendPlay(c)
    BY <1>1, <2>3 DEF SendNewFile, SendSize, SendData, SendPlay
  <2>4. CASE RecvReady(c)
    <3>1. barrier_initialized
      BY <2>4 DEF RecvReady, BarrierInv
    <3> QED
      BY <2>4, <3>1, BarrierArrive DEF RecvReady
  <2> QED
    BY <1>5, <2>1, <2>2, <2>3, <2>4 DEF Server, WorkerStep
<1>6. ASSUME NEW c \in Conn, Server(WorkerFault(c)) PROVE BarrierInv'
  BY <1>1, <1>6 DEF Server, WorkerFault, SpuriousWakeup, OpenFails, SendDataFails,
     WorkerCrash, ServerExits, Past, TypeOK, ServerTypeOK
<1>7. ASSUME NEW c \in Conn,
             \/ Client(Connect(c)) \/ Client(ClientStep(c))
             \/ Client(ClientEnd(c)) \/ Client(ClientDies(c))
      PROVE  BarrierInv'
  BY <1>1, <1>7 DEF Client
<1> QED
  BY <1>2, <1>3, <1>4, <1>5, <1>6, <1>7 DEF Next

LEMMA BarrierInvariant == Spec => []BarrierInv
<1>1. TypeInv /\ SyncInv /\ BarrierInv /\ [Next]_vars => BarrierInv'
  <2>1. ASSUME BarrierInv, UNCHANGED vars PROVE BarrierInv'
    BY <2>1 DEF BarrierInv, vars, serverVars, mainVars, syncVars, workerVars
  <2> QED
    BY <2>1, BarrierStep DEF TypeInv
<1> QED
  BY BarrierInit, <1>1, TypeInvariant, SyncInvariant, PTL DEF Spec

\* No thread reaches pthread_barrier_wait before pthread_barrier_init, in
\* whatever session it is (server_thread.c:117, cmd_handlers.c:153-169).
THEOREM BarrierCorrect == Spec => []BarrierInitBeforeUse
<1>1. TypeOK /\ SyncInv /\ BarrierInv => BarrierInitBeforeUse
  BY BarrierMeansInitialized DEF BarrierInitBeforeUse, BarrierInv
<1> QED
  BY TypeCorrect, SyncInvariant, BarrierInvariant, <1>1, PTL

-----------------------------------------------------------------------------
(* The list of clients.  They carry the numbers 0, 1, 2, ... each of them   *)
(* once, also after a reconnect (cmd_handlers.c:353, 365).  A connection    *)
(* that is listed has a worker, so that handle_socket never lists it again. *)

Numbered ==
    /\ tid = Cardinality(clients)
    /\ {wtid[c] : c \in clients} = 0 .. tid - 1
    /\ \A c, d \in clients : wtid[c] = wtid[d] => c = d

RosterInv ==
    /\ Numbered
    /\ \A c \in clients : wpc[c] # "none"

LEMMA RosterFrame ==
    ASSUME TypeOK, RosterInv, UNCHANGED << tid, clients, wtid >>,
           \A c \in Conn : wpc[c] # "none" => wpc'[c] # "none"
    PROVE  RosterInv'
BY DEF TypeOK, ServerTypeOK, RosterInv, Numbered

LEMMA RosterInit == Init => RosterInv
<1>1. Init => clients = {} /\ tid = 0
  BY DEF Init, ServerInit
<1>2. Cardinality({}) = 0
  BY FS_EmptySet
<1>3. 0 .. 0 - 1 = {}
  OBVIOUS
<1> QED
  BY <1>1, <1>2, <1>3 DEF RosterInv, Numbered

\* The next number goes to one more client.
LEMMA RosterAdd ==
    ASSUME TypeOK, RosterInv, NEW c \in Conn, wpc[c] = "none",
           tid' = tid + 1, clients' = clients \cup {c},
           wtid' = [wtid EXCEPT ![c] = tid], WorkerGoes(c, "start")
    PROVE  RosterInv'
<1>1. c \notin clients /\ clients \subseteq Conn
  BY DEF RosterInv, TypeOK, ServerTypeOK
<1>2. IsFiniteSet(clients)
  BY <1>1, ListedFinite
<1>3. tid = Cardinality(clients) /\ tid \in Nat /\ {wtid[d] : d \in clients} = 0 .. tid - 1
  BY DEF RosterInv, Numbered, TypeOK, ServerTypeOK
<1>4. tid' = Cardinality(clients')
  BY <1>1, <1>2, <1>3, FS_AddElement
<1>5. \A d \in Conn : wtid'[d] = IF d = c THEN tid ELSE wtid[d]
  BY DEF TypeOK, ServerTypeOK
<1>6. {wtid'[d] : d \in clients'} = {wtid[d] : d \in clients} \cup {tid}
  BY <1>1, <1>5
<1>7. 0 .. tid' - 1 = (0 .. tid - 1) \cup {tid}
  BY <1>3
<1>8. \A d \in Conn : wpc'[d] = IF d = c THEN "start" ELSE wpc[d]
  BY DEF TypeOK, ServerTypeOK, WorkerGoes
<1>9. \A d \in clients' : wpc'[d] # "none"
  BY <1>1, <1>8 DEF RosterInv
<1>10. \A d \in clients : wtid[d] # tid
  BY <1>3
<1>11. \A d, e \in clients' : wtid'[d] = wtid'[e] => d = e
  BY <1>1, <1>5, <1>10 DEF RosterInv, Numbered
<1> QED
  BY <1>3, <1>4, <1>6, <1>7, <1>9, <1>11 DEF RosterInv, Numbered

LEMMA RosterStep ==
    ASSUME TypeOK, SyncInv, AcceptInv, RosterInv, Next
    PROVE  RosterInv'
<1> USE DEF netVars, mainVars, syncVars, workerVars, serverVars, MainAt, WorkerAt
<1>1. wpc \in [Conn -> WorkerPC]
  BY DEF TypeOK, ServerTypeOK
<1>2. ASSUME NEW t \in Conn \cup {Main}, Arrive(t), UNCHANGED << tid, clients, wtid >>
      PROVE  RosterInv'
  <2>1. \A c \in Conn : wpc'[c] \in {wpc[c], "play", "barrier"}
    BY <1>2 DEF Arrive
  <2> QED
    BY <1>2, <2>1, RosterFrame
<1>3. CASE Server(MainStep)
  <2>1. CASE Broadcast
    BY <2>1, RosterFrame DEF Broadcast
  <2>2. CASE MainArrive
    BY <1>2, <2>2 DEF MainArrive
  <2> QED
    BY <1>3, <2>1, <2>2, RosterFrame
    DEF Server, MainStep, OpenOut, FillOut, MainLock, SetReady, InitBarrier
<1>4. CASE Server(OperatorStep)
  <2>1. CASE handle_reconnect
    <3>1. clients' = {} /\ tid' = 0
      BY <2>1 DEF handle_reconnect, setup_connections
    <3>2. Cardinality({}) = 0 /\ 0 .. 0 - 1 = {}
      BY FS_EmptySet
    <3> QED
      BY <3>1, <3>2 DEF RosterInv, Numbered
  <2> QED
    BY <1>4, <2>1, RosterFrame
    DEF Server, OperatorStep, handle_load, handle_play, handle_quit, sighandler
<1>5. CASE Server(LoadFails \/ CreateFails)
  BY <1>5, RosterFrame DEF Server, LoadFails, CreateFails, ServerExits
<1>6. ASSUME NEW c \in Conn, Server(handle_socket(c)) PROVE RosterInv'
  <2>1. wpc[c] = "none"
    BY <1>6 DEF Server, handle_socket, AcceptInv
  <2>2. CASE Admits
    BY <1>6, <2>1, <2>2, RosterAdd DEF Server, handle_socket, NextTid
  <2>3. CASE ~Admits
    BY <1>6, <2>3, RosterFrame DEF Server, handle_socket
  <2> QED
    BY <2>2, <2>3
<1>7. ASSUME NEW c \in Conn, Server(WorkerStep(c)) \/ Server(WorkerFault(c)) PROVE RosterInv'
  <2>1. ASSUME NEW pc, WorkerGoes(c, pc), pc # "none", UNCHANGED << tid, clients, wtid >>
        PROVE  RosterInv'
    BY <1>1, <2>1, RosterFrame DEF WorkerGoes
  <2>2. CASE CheckReady(c)
    BY <2>1, <2>2 DEF CheckReady
  <2>3. CASE RecvReady(c)
    BY <1>2, <2>3 DEF RecvReady
  <2>4. CASE WorkerCrash(c) \/ OpenFails(c)
    BY <2>4, RosterFrame DEF WorkerCrash, OpenFails, ServerExits
  <2>5. CASE Greet(c) \/ WorkerLock(c) \/ CondWait(c) \/ SendNewFile(c) \/ SendSize(c)
    BY <2>1, <2>5 DEF Greet, WorkerLock, CondWait, SendNewFile, SendSize
  <2>6. CASE SendData(c) \/ SendPlay(c) \/ SpuriousWakeup(c) \/ SendDataFails(c)
    BY <2>1, <2>6 DEF SendData, SendPlay, SpuriousWakeup, SendDataFails
  <2> QED
    BY <1>7, <2>2, <2>3, <2>4, <2>5, <2>6 DEF Server, WorkerStep, WorkerFault
<1>8. ASSUME UNCHANGED serverVars PROVE RosterInv'
  BY <1>8, RosterFrame
<1> QED
  BY <1>3, <1>4, <1>5, <1>6, <1>7, <1>8 DEF Next, Client

LEMMA RosterInvariant == Spec => []RosterInv
<1>1. TypeInv /\ SyncInv /\ AcceptInv /\ RosterInv /\ [Next]_vars => RosterInv'
  <2>1. ASSUME TypeOK, RosterInv, UNCHANGED vars PROVE RosterInv'
    BY <2>1, RosterFrame DEF vars, serverVars, mainVars, workerVars
  <2> QED
    BY <2>1, RosterStep DEF TypeInv
<1> QED
  BY RosterInit, <1>1, TypeInvariant, SyncInvariant, PTL DEF Spec
=============================================================================
