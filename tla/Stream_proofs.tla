---------------------------- MODULE Stream_proofs ----------------------------
(***************************************************************************)
(* What is on the streams between the worker threads and the clients, for  *)
(* any number of clients, whatever the operator types and whatever fails:  *)
(* a client's place in the protocol and its worker's say between them      *)
(* which units are on their way.                                           *)
(***************************************************************************)
EXTENDS Orchestra_proofs

\* What a worker sends, in this order, and no more.
Protocol == << "connected", "id", "NFILE", "size", "data", "PLAY" >>

\* How many of these units the worker of c has sent, and how many of them c
\* has read.
Written(c) ==
    IF wpc[c] \in {"none", "start"} THEN 0
    ELSE IF wpc[c] \in {"lock", "check", "wait", "sleep", "newfile"} THEN 2
    ELSE IF wpc[c] = "open" THEN 3
    ELSE IF wpc[c] \in {"data", "failed"} THEN 4
    ELSE IF wpc[c] = "done" THEN 6 ELSE 5

Consumed(c) ==
    IF cpc[c] \in {"init", "confirm"} THEN 0
    ELSE IF cpc[c] = "size" THEN 3
    ELSE IF cpc[c] = "data" THEN 4
    ELSE IF fbuff[c] = None THEN 2
    ELSE IF sbuf[c] = "NFILE" THEN 5 ELSE 6

\* The rest is on its way; there is an answer only between the file and the
\* barrier, and nobody is at the barrier without a file.
OnTrack(c) ==
    /\ cpc[c] # "spin"
    /\ Consumed(c) <= Written(c)
    /\ Len(toClient[c]) = Written(c) - Consumed(c)
    /\ \A i \in 1 .. Len(toClient[c]) : toClient[c][i].kind = Protocol[Consumed(c) + i]
    /\ cpc[c] \in {"init", "confirm", "size", "data"} => fbuff[c] = None
    /\ toServer[c] => Consumed(c) >= 5 /\ wpc[c] = "recv"
    /\ wpc[c] \in {"barrier", "play", "done"} => Consumed(c) >= 5

\* Or nothing comes any more: the server has exited, it turned c away, or its
\* worker failed while c waits for the bytes of the file.
Ended(c) ==
    /\ toClient[c] = << >>
    /\ \/ up = "exited"
       \/ sock[c] = "closed" /\ wpc[c] = "none"
       \/ sock[c] = "closed" /\ wpc[c] = "failed" /\ cpc[c] = "spin"

\* A client without a worker has heard nothing.
Unheard(c) ==
    /\ toClient[c] = << >> /\ ~toServer[c]
    /\ fbuff[c] = None /\ sbuf[c] = "PLAY" /\ ~playing[c]
    /\ cpc[c] \in {"init", "confirm", "commands"}

StreamOf(c) ==
    /\ alive[c] => OnTrack(c) \/ Ended(c)
    /\ sock[c] = "closed" => wpc[c] \in {"none", "failed"}
    /\ cpc[c] \in {"size", "data"} => sbuf[c] = "NFILE"
    /\ playing[c] <=> fbuff[c] # None /\ sbuf[c] = "PLAY"
    /\ wpc[c] = "none" => Unheard(c)

StreamInv == \A c \in Conn : StreamOf(c)

-----------------------------------------------------------------------------
(* The steps that leave a client and its worker alone, or nearly so.        *)

LEMMA StreamFrame ==
    ASSUME NEW d \in Conn, StreamOf(d), up = "exited" => up' = "exited",
           sock'[d] = sock[d], alive'[d] = alive[d], toClient'[d] = toClient[d],
           toServer'[d] = toServer[d], wpc'[d] = wpc[d], cpc'[d] = cpc[d],
           sbuf'[d] = sbuf[d], fbuff'[d] = fbuff[d], playing'[d] = playing[d]
    PROVE  StreamOf(d)'
<1>1. Written(d)' = Written(d) /\ Consumed(d)' = Consumed(d)
  BY DEF Written, Consumed
<1>2. OnTrack(d) => OnTrack(d)'
  BY <1>1 DEF OnTrack
<1>3. Ended(d) => Ended(d)'
  BY DEF Ended
<1>4. Unheard(d) => Unheard(d)'
  BY DEF Unheard
<1> QED
  BY <1>2, <1>3, <1>4 DEF StreamOf

\* A worker that moves on without sending anything.
LEMMA StreamMove ==
    ASSUME TypeOK, NEW d \in Conn, StreamOf(d), up' = up,
           sock'[d] = sock[d], alive'[d] = alive[d], toClient'[d] = toClient[d],
           cpc'[d] = cpc[d], sbuf'[d] = sbuf[d], fbuff'[d] = fbuff[d],
           playing'[d] = playing[d], up = "running",
           wpc[d] \notin {"none", "failed"}, wpc'[d] \notin {"none", "failed"},
           Written(d)' = Written(d),
           alive[d] /\ toServer'[d] => toServer[d] /\ wpc'[d] = wpc[d],
           wpc'[d] \in {"barrier", "play", "done"} =>
               \/ wpc[d] \in {"barrier", "play", "done"}
               \/ toServer[d] \/ ~alive[d]
    PROVE  StreamOf(d)'
<1>1. Consumed(d)' = Consumed(d)
  BY DEF Consumed
<1>2. OnTrack(d) => OnTrack(d)' \/ ~alive[d]
  BY <1>1 DEF OnTrack
<1>3. ~Ended(d)
  BY DEF Ended
<1> QED
  BY <1>2, <1>3 DEF StreamOf

\* The places of units that are appended to what is on its way.
LEMMA Shift ==
    ASSUME NEW r \in Nat, NEW n \in Nat, NEW ls \in Nat, NEW lu \in Nat, ls = n - r,
           NEW i \in 1 .. ls + lu, ~(i <= ls)
    PROVE  i - ls \in 1 .. lu /\ n + (i - ls) = r + i
OBVIOUS

\* A worker that sends the next units.
LEMMA StreamSend ==
    ASSUME TypeOK, NEW c \in Conn, StreamOf(c), up = "running",
           NEW units \in Seq(Unit), Sent(c, units), NEW pc \in WorkerPC, WorkerGoes(c, pc),
           UNCHANGED << up, sock, alive, toServer, clientVars >>,
           wpc[c] \notin {"none", "failed", "recv"}, pc \notin {"none", "failed", "barrier", "play"},
           pc = "done" => wpc[c] = "play",
           Written(c)' = Written(c) + Len(units),
           \A i \in 1 .. Len(units) : units[i].kind = Protocol[Written(c) + i]
    PROVE  StreamOf(c)'
<1> USE DEF TypeOK, NetTypeOK, ServerTypeOK, ClientTypeOK, clientVars
<1>1. wpc'[c] = pc /\ Consumed(c)' = Consumed(c)
  BY DEF WorkerGoes, Consumed
<1>2. ~Ended(c)
  BY DEF Ended
<1>3. ASSUME alive[c] PROVE OnTrack(c)'
  <2> DEFINE s == toClient[c]
             r == Consumed(c)
             n == Written(c)
  <2>1. /\ OnTrack(c) /\ s \in Seq(Unit) /\ Len(s) = n - r /\ r <= n
        /\ \A i \in 1 .. Len(s) : s[i].kind = Protocol[r + i]
    BY <1>2, <1>3 DEF StreamOf, OnTrack
  <2>2. toClient'[c] = s \o units
    BY <1>3 DEF Sent
  <2>4. r \in Nat /\ n \in Nat /\ Len(units) \in Nat /\ Len(s) \in Nat /\ Len(s) = n - r
    BY <2>1, LenProperties DEF Consumed, Written
  <2>5. \A i \in 1 .. Len(units) : units[i].kind = Protocol[n + i]
    OBVIOUS
  <2> HIDE DEF s, r, n
  <2>3. /\ Len(s \o units) = Len(s) + Len(units)
        /\ \A i \in 1 .. Len(s) + Len(units) :
              (s \o units)[i] = IF i <= Len(s) THEN s[i] ELSE units[i - Len(s)]
    <3>1. s \in Seq(Unit) /\ units \in Seq(Unit)
      BY <2>1
    <3> HIDE DEF TypeOK, NetTypeOK, ServerTypeOK, ClientTypeOK
    <3> QED
      BY <3>1, ConcatProperties
  <2>6. \A i \in 1 .. Len(s) + Len(units) : (s \o units)[i].kind = Protocol[r + i]
    <3> SUFFICES ASSUME NEW i \in 1 .. Len(s) + Len(units)
                 PROVE  (s \o units)[i].kind = Protocol[r + i]
      OBVIOUS
    <3>1. CASE i <= Len(s)
      BY <2>1, <2>3, <2>4, <3>1
    <3>2. CASE ~(i <= Len(s))
      <4>1. i - Len(s) \in 1 .. Len(units) /\ n + (i - Len(s)) = r + i
        <5> DEFINE ls == Len(s)
                   lu == Len(units)
        <5>1. ls \in Nat /\ lu \in Nat /\ ls = n - r /\ i \in 1 .. ls + lu /\ ~(i <= ls)
          BY <2>4, <3>2
        <5> HIDE DEF ls, lu, TypeOK, NetTypeOK, ServerTypeOK, ClientTypeOK, clientVars
        <5>2. r \in Nat /\ n \in Nat
          BY <2>4
        <5>3. i - ls \in 1 .. lu /\ n + (i - ls) = r + i
          BY <5>1, <5>2, Shift
        <5> QED
          BY <5>3 DEF ls, lu
      <4>2. units[i - Len(s)].kind = Protocol[n + (i - Len(s))]
        BY <2>5, <4>1
      <4> QED
        BY <2>3, <3>2, <4>1, <4>2
    <3> QED
      BY <3>1, <3>2
  <2>7. Len(toClient'[c]) = Written(c)' - Consumed(c)' /\ Consumed(c)' <= Written(c)'
    BY <1>1, <2>1, <2>2, <2>3, <2>4 DEF r, n, s
  <2>8. \A i \in 1 .. Len(toClient'[c]) : toClient'[c][i].kind = Protocol[Consumed(c)' + i]
    BY <1>1, <2>2, <2>3, <2>6 DEF r, s
  <2>9. /\ cpc'[c] # "spin"
        /\ cpc'[c] \in {"init", "confirm", "size", "data"} => fbuff'[c] = None
        /\ ~toServer'[c]
        /\ wpc'[c] \in {"barrier", "play", "done"} => Consumed(c)' >= 5
    BY <1>1, <2>1 DEF OnTrack
  <2> QED
    BY <2>7, <2>8, <2>9 DEF OnTrack
<1>4. alive'[c] => OnTrack(c)'
  BY <1>3
<1> HIDE DEF TypeOK, NetTypeOK, ServerTypeOK, ClientTypeOK
<1> QED
  BY <1>1, <1>4 DEF StreamOf

\* A client that reads finds the unit that is next in the protocol.
LEMMA StreamReads ==
    ASSUME TypeOK, NEW c \in Conn, StreamOf(c), alive[c], NEW kind, Reads(c, kind)
    PROVE  /\ OnTrack(c)
           /\ Consumed(c) < Written(c)
           /\ kind = Protocol[Consumed(c) + 1]
           /\ Len(toClient'[c]) = Written(c) - (Consumed(c) + 1)
           /\ \A i \in 1 .. Len(toClient'[c]) :
                 toClient'[c][i].kind = Protocol[Consumed(c) + 1 + i]
<1> DEFINE s == toClient[c]
           r == Consumed(c)
           n == Written(c)
<1>1. s \in Seq(Unit) /\ s # << >> /\ Head(s).kind = kind /\ toClient'[c] = Tail(s)
  BY DEF Reads, TypeOK, NetTypeOK
<1>2. OnTrack(c)
  BY <1>1 DEF StreamOf, Ended
<1>3. /\ Len(s) = n - r
      /\ \A i \in 1 .. Len(s) : s[i].kind = Protocol[r + i]
  BY <1>2 DEF OnTrack
<1>4. r \in Nat /\ n \in Nat
  BY DEF Consumed, Written
<1> HIDE DEF s, r, n
<1>5. /\ Len(s) \in Nat /\ Len(s) > 0 /\ Head(s) = s[1]
      /\ Len(Tail(s)) = Len(s) - 1
      /\ \A i \in 1 .. Len(Tail(s)) : Tail(s)[i] = s[i + 1]
  BY <1>1
<1>6. kind = Protocol[r + 1]
  BY <1>1, <1>3, <1>5
<1>7. Len(Tail(s)) = n - (r + 1) /\ r < n
  BY <1>3, <1>4, <1>5
<1>8. \A i \in 1 .. Len(Tail(s)) : Tail(s)[i].kind = Protocol[r + 1 + i]
  <2> SUFFICES ASSUME NEW i \in 1 .. Len(Tail(s))
               PROVE  Tail(s)[i].kind = Protocol[r + 1 + i]
    OBVIOUS
  <2>1. i + 1 \in 1 .. Len(s) /\ r + (i + 1) = r + 1 + i
    BY <1>4, <1>5
  <2> QED
    BY <1>3, <1>5, <2>1
<1> QED
  BY <1>1, <1>2, <1>6, <1>7, <1>8 DEF s, r, n

-----------------------------------------------------------------------------
(* Every step keeps it.                                                     *)

\* At the barrier every thread that moves has its answer behind it.
LEMMA StreamArrive ==
    ASSUME TypeOK, SyncInv, StreamInv, up = "running",
           NEW t \in Conn \cup {Main}, Arrive(t),
           t \in Conn => wpc[t] = "recv" /\ RecvReturns(t),
           UNCHANGED << up, sock, alive, toClient, clientVars >>,
           \A d \in Conn : toServer'[d] = (toServer[d] /\ d # t)
    PROVE  StreamInv'
<1> USE DEF clientVars
<1> SUFFICES ASSUME NEW d \in Conn PROVE StreamOf(d)'
  BY DEF StreamInv
<1>1. StreamOf(d)
  BY DEF StreamInv
<1>2. wpc \in [Conn -> WorkerPC] /\ toServer \in [Conn -> BOOLEAN]
  BY DEF TypeOK, ServerTypeOK, NetTypeOK
<1>3. CASE wpc'[d] = wpc[d] /\ d # t
  BY <1>1, <1>2, <1>3, StreamFrame
<1>4. CASE ~(wpc'[d] = wpc[d] /\ d # t)
  <2>1. wpc[d] \in {"recv", "barrier"} /\ wpc'[d] \in {"barrier", "play"}
    BY <1>2, <1>4 DEF Arrive, SyncInv, BarrierPlaces
  <2>2. wpc[d] = "recv" => toServer[d] \/ ~alive[d]
    BY <1>2, <1>4, ServerAssumption DEF Arrive, SyncInv, BarrierPlaces, RecvReturns
  <2>3. alive[d] /\ toServer'[d] => toServer[d] /\ wpc'[d] = wpc[d]
    <3>1. CASE d = t
      BY <3>1
    <3>2. CASE d # t
      <4>1. wpc[d] = "barrier"
        BY <1>2, <1>4, <2>1, <3>2 DEF Arrive, SyncInv, BarrierPlaces
      <4>2. alive[d] => ~toServer[d]
        BY <1>1, <4>1 DEF StreamOf, OnTrack, Ended
      <4> QED
        BY <1>4, <3>2, <4>1, <4>2
    <3> QED
      BY <3>1, <3>2
  <2>4. Written(d)' = Written(d)
    BY <2>1 DEF Written
  <2> QED
    BY <1>1, <2>1, <2>2, <2>3, <2>4, StreamMove
<1> QED
  BY <1>3, <1>4

\* Steps that no stream, worker or client takes part in.
LEMMA StreamSame ==
    ASSUME StreamInv, up = "exited" => up' = "exited",
           UNCHANGED << sock, alive, toClient, toServer, wpc, clientVars >>
    PROVE  StreamInv'
BY StreamFrame DEF StreamInv, clientVars

LEMMA StreamMain ==
    ASSUME TypeOK, SyncInv, StreamInv,
           Server(MainStep \/ OperatorStep \/ LoadFails \/ CreateFails)
    PROVE  StreamInv'
<1> USE DEF netVars, mainVars, syncVars, workerVars, serverVars, MainAt
<1>1. CASE Broadcast
  <2> SUFFICES ASSUME NEW d \in Conn PROVE StreamOf(d)'
    BY DEF StreamInv
  <2>1. StreamOf(d) /\ wpc'[d] = IF wpc[d] = "sleep" THEN "lock" ELSE wpc[d]
    BY <1>1 DEF StreamInv, Broadcast, Woken
  <2>2. up' = up /\ up = "running" /\ UNCHANGED << sock, alive, toClient, toServer, clientVars >>
    BY <1>1 DEF Broadcast, Server
  <2>3. CASE wpc[d] = "sleep"
    <3>1. Written(d)' = Written(d) /\ wpc'[d] = "lock"
      BY <2>1, <2>3 DEF Written
    <3>2. alive[d] => ~toServer[d]
      BY <2>1, <2>2, <2>3 DEF StreamOf, OnTrack, Ended
    <3> QED
      BY <2>1, <2>2, <2>3, <3>1, <3>2, StreamMove DEF clientVars
  <2>4. CASE wpc[d] # "sleep"
    BY <2>1, <2>2, <2>4, StreamFrame DEF clientVars
  <2> QED
    BY <2>3, <2>4
<1>2. CASE MainArrive
  <2>1. /\ up = "running" /\ Arrive(Main) /\ Main \notin Conn
        /\ UNCHANGED << up, sock, alive, toClient, toServer, clientVars >>
    BY <1>2, ServerAssumption DEF MainArrive, Server
  <2>2. \A d \in Conn : toServer'[d] = (toServer[d] /\ d # Main)
    BY <2>1 DEF TypeOK, NetTypeOK
  <2> QED
    BY <2>1, <2>2, StreamArrive
<1>3. CASE OpenOut \/ FillOut \/ MainLock \/ SetReady \/ InitBarrier
  BY <1>3, StreamSame
  DEF Server, OpenOut, FillOut, MainLock, SetReady, InitBarrier
<1>4. CASE OperatorStep \/ LoadFails \/ CreateFails
  BY <1>4, StreamSame
  DEF Server, OperatorStep, handle_load, handle_play, handle_reconnect, setup_connections,
      handle_quit, sighandler, LoadFails, CreateFails, ServerExits
<1> QED
  BY <1>1, <1>2, <1>3, <1>4 DEF Server, MainStep

LEMMA StreamWorker ==
    ASSUME TypeOK, SyncInv, AcceptInv, StreamInv, NEW c \in Conn,
           Server(handle_socket(c) \/ WorkerStep(c) \/ WorkerFault(c))
    PROVE  StreamInv'
<1> USE DEF netVars, mainVars, syncVars, workerVars, serverVars, WorkerAt
<1>1. ASSUME StreamOf(c)', up' = up, UNCHANGED clientVars,
             \A d \in Conn \ {c} :
                /\ sock'[d] = sock[d] /\ alive'[d] = alive[d] /\ toClient'[d] = toClient[d]
                /\ toServer'[d] = toServer[d] /\ wpc'[d] = wpc[d]
      PROVE  StreamInv'
  <2> SUFFICES ASSUME NEW d \in Conn, d # c PROVE StreamOf(d)'
    BY <1>1 DEF StreamInv
  <2> QED
    BY <1>1, StreamFrame DEF StreamInv, clientVars
<1>2. StreamOf(c) /\ UNCHANGED clientVars
  BY DEF StreamInv, Server
<1>3. /\ wpc \in [Conn -> WorkerPC] /\ toClient \in [Conn -> Seq(Unit)]
      /\ sock \in [Conn -> {"none", "backlog", "open", "closed"}]
      /\ toServer \in [Conn -> BOOLEAN]
  BY DEF TypeOK, ServerTypeOK, NetTypeOK
<1>4. CASE handle_socket(c)
  <2>1. /\ wpc[c] = "none" /\ sock[c] = "backlog" /\ up = "running"
        /\ UNCHANGED << up, alive, toClient, toServer >>
    BY <1>4 DEF handle_socket, AcceptInv, MainAt
  <2>2. CASE Admits
    <3>1. sock' = [sock EXCEPT ![c] = "open"] /\ wpc' = [wpc EXCEPT ![c] = "start"]
      BY <1>4, <2>2 DEF handle_socket, WorkerGoes
    <3>2. sock'[c] = "open" /\ wpc'[c] = "start"
      BY <1>3, <3>1
    <3>3. Written(c)' = Written(c) /\ Consumed(c)' = Consumed(c)
      BY <1>2, <2>1, <3>2 DEF Written, Consumed, clientVars
    <3>4. alive'[c] => OnTrack(c)'
      BY <1>2, <2>1, <3>2, <3>3 DEF StreamOf, OnTrack, Ended, clientVars
    <3>5. StreamOf(c)'
      BY <1>2, <3>2, <3>4 DEF StreamOf, clientVars
    <3> QED
      BY <1>1, <1>2, <1>3, <2>1, <3>1, <3>5
  <2>3. CASE ~Admits
    <3>1. sock' = [sock EXCEPT ![c] = "closed"] /\ wpc' = wpc
      BY <1>4, <2>3 DEF handle_socket
    <3>2. sock'[c] = "closed" /\ wpc'[c] = "none"
      BY <1>3, <2>1, <3>1
    <3>3. Unheard(c)' /\ Ended(c)'
      BY <1>2, <2>1, <3>2 DEF StreamOf, Unheard, Ended, clientVars
    <3>4. StreamOf(c)'
      BY <1>2, <3>2, <3>3 DEF StreamOf, clientVars
    <3> QED
      BY <1>1, <1>2, <1>3, <2>1, <3>1, <3>4
  <2> QED
    BY <2>2, <2>3
<1>5. ASSUME up = "running", NEW pc \in WorkerPC, WorkerGoes(c, pc),
             wpc[c] \notin {"none", "failed"}, pc \notin {"none", "failed"},
             UNCHANGED << up, sock, alive, toClient, toServer >>,
             wpc[c] # "recv", pc \notin {"barrier", "play", "done"}, Written(c)' = Written(c)
      PROVE  StreamInv'
  <2>1. wpc'[c] = pc /\ \A d \in Conn \ {c} : wpc'[d] = wpc[d]
    BY <1>3, <1>5 DEF WorkerGoes
  <2>2. alive[c] => ~toServer[c]
    BY <1>2, <1>5 DEF StreamOf, OnTrack, Ended
  <2>3. StreamOf(c)'
    BY <1>2, <1>5, <2>1, <2>2, StreamMove DEF clientVars
  <2> QED
    BY <1>1, <1>2, <1>5, <2>1, <2>3
<1>6. CASE WorkerLock(c)
  BY <1>5, <1>6 DEF WorkerLock, Written, WorkerGoes, WorkerPC, TypeOK, ServerTypeOK
<1>7. CASE CheckReady(c)
  BY <1>5, <1>7 DEF CheckReady, Written, WorkerGoes, WorkerPC, TypeOK, ServerTypeOK
<1>8. CASE CondWait(c)
  BY <1>5, <1>8 DEF CondWait, Written, WorkerGoes, WorkerPC, TypeOK, ServerTypeOK
<1>9. CASE SpuriousWakeup(c)
  BY <1>5, <1>9 DEF SpuriousWakeup, Written, WorkerGoes, WorkerPC, TypeOK, ServerTypeOK
<1>10. ASSUME up = "running", NEW units \in Seq(Unit), Sent(c, units),
              NEW pc \in WorkerPC, WorkerGoes(c, pc),
              UNCHANGED << up, sock, alive, toServer >>,
              wpc[c] \notin {"none", "failed", "recv"},
              pc \notin {"none", "failed", "barrier", "play"},
              pc = "done" => wpc[c] = "play",
              Written(c)' = Written(c) + Len(units),
              \A i \in 1 .. Len(units) : units[i].kind = Protocol[Written(c) + i]
       PROVE  StreamInv'
  <2>1. StreamOf(c)'
    BY <1>2, <1>10, StreamSend
  <2>2. \A d \in Conn \ {c} : wpc'[d] = wpc[d] /\ toClient'[d] = toClient[d]
    BY <1>3, <1>10 DEF WorkerGoes, Sent
  <2> QED
    BY <1>1, <1>2, <1>10, <2>1, <2>2
<1>11. ASSUME NEW u \in Unit, NEW pc \in WorkerPC, NEW n \in Nat,
              up = "running", Sent(c, << u >>), WorkerGoes(c, pc),
              UNCHANGED << up, sock, alive, toServer >>,
              wpc[c] \notin {"none", "failed", "recv"},
              pc \notin {"none", "failed", "barrier", "play"},
              pc = "done" => wpc[c] = "play",
              Written(c) = n, Written(c)' = n + 1, u.kind = Protocol[n + 1]
       PROVE  StreamInv'
  <2> DEFINE units == << u >>
  <2>1. /\ units \in Seq(Unit) /\ Len(units) = 1
        /\ \A i \in 1 .. 1 : i = 1 /\ units[i] = u
    OBVIOUS
  <2>2. Sent(c, units)
    BY <1>11
  <2> HIDE DEF units
  <2>3. Written(c)' = Written(c) + Len(units)
    BY <1>11, <2>1
  <2>4. \A i \in 1 .. Len(units) : units[i].kind = Protocol[Written(c) + i]
    BY <1>11, <2>1
  <2> QED
    BY <1>10, <1>11, <2>1, <2>2, <2>3, <2>4
<1>12. CASE Greet(c)
  <2> DEFINE units == << Plain("connected"), Plain("id") >>
  <2>1. Plain("connected") \in Unit /\ Plain("id") \in Unit
    BY PlainType DEF Kind
  <2>2. units \in Seq(Unit) /\ Len(units) = 2
    BY <2>1
  <2>3. /\ up = "running" /\ wpc[c] = "start" /\ Sent(c, units) /\ WorkerGoes(c, "lock")
        /\ UNCHANGED << up, sock, alive, toServer >>
    BY <1>12 DEF Greet
  <2>4. wpc'[c] = "lock" /\ "lock" \in WorkerPC
    BY <1>3, <2>3 DEF WorkerGoes, WorkerPC
  <2>5. Written(c) = 0 /\ Written(c)' = 2
    BY <2>3, <2>4 DEF Written
  <2>6. \A i \in 1 .. 2 : units[i].kind = Protocol[0 + i]
    BY DEF Plain, Protocol
  <2> HIDE DEF units
  <2> QED
    BY <1>10, <2>2, <2>3, <2>4, <2>5, <2>6
<1>13. CASE SendNewFile(c)
  <2> DEFINE u == Plain("NFILE")
  <2>1. u \in Unit /\ u.kind = "NFILE"
    BY PlainType DEF Kind, Plain
  <2>2. /\ up = "running" /\ wpc[c] = "newfile" /\ Sent(c, << u >>) /\ WorkerGoes(c, "open")
        /\ UNCHANGED << up, sock, alive, toServer >>
    BY <1>13 DEF SendNewFile
  <2>3. wpc'[c] = "open" /\ "open" \in WorkerPC
    BY <1>3, <2>2 DEF WorkerGoes, WorkerPC
  <2>4. Written(c) = 2 /\ Written(c)' = 3 /\ Protocol[2 + 1] = "NFILE"
    BY <2>2, <2>3 DEF Written, Protocol
  <2> HIDE DEF u
  <2> QED
    BY <1>11, <2>1, <2>2, <2>3, <2>4
<1>14. CASE SendSize(c)
  <2> DEFINE u == Carrying("size", files[wtid[c]])
  <2>1. files[wtid[c]] \in Contents
    BY <1>14 DEF SendSize, TypeOK, ServerTypeOK
  <2>2. u \in Unit /\ u.kind = "size"
    BY <2>1, CarryingType DEF Kind, Carrying
  <2>3. /\ up = "running" /\ wpc[c] = "open" /\ Sent(c, << u >>) /\ WorkerGoes(c, "data")
        /\ UNCHANGED << up, sock, alive, toServer >>
    BY <1>14 DEF SendSize
  <2>4. wpc'[c] = "data" /\ "data" \in WorkerPC
    BY <1>3, <2>3 DEF WorkerGoes, WorkerPC
  <2>5. Written(c) = 3 /\ Written(c)' = 4 /\ Protocol[3 + 1] = "size"
    BY <2>3, <2>4 DEF Written, Protocol
  <2> HIDE DEF u
  <2> QED
    BY <1>11, <2>2, <2>3, <2>4, <2>5
<1>15. CASE SendData(c)
  <2> DEFINE now == files[wtid[c]]
             u == Carrying("data", IF now = sized[c] THEN now ELSE Torn)
  <2>1. (IF now = sized[c] THEN now ELSE Torn) \in Contents
    BY ConnAssumption DEF Torn, Contents, TypeOK, ServerTypeOK
  <2>2. u \in Unit /\ u.kind = "data"
    BY <2>1, CarryingType DEF Kind, Carrying
  <2>3. /\ up = "running" /\ wpc[c] = "data" /\ Sent(c, << u >>) /\ WorkerGoes(c, "recv")
        /\ UNCHANGED << up, sock, alive, toServer >>
    BY <1>15 DEF SendData
  <2>4. wpc'[c] = "recv" /\ "recv" \in WorkerPC
    BY <1>3, <2>3 DEF WorkerGoes, WorkerPC
  <2>5. Written(c) = 4 /\ Written(c)' = 5 /\ Protocol[4 + 1] = "data"
    BY <2>3, <2>4 DEF Written, Protocol
  <2> HIDE DEF u
  <2> QED
    BY <1>11, <2>2, <2>3, <2>4, <2>5
<1>16. CASE SendPlay(c)
  <2> DEFINE u == Plain("PLAY")
  <2>1. u \in Unit /\ u.kind = "PLAY"
    BY PlainType DEF Kind, Plain
  <2>2. /\ up = "running" /\ wpc[c] = "play" /\ Sent(c, << u >>) /\ WorkerGoes(c, "done")
        /\ UNCHANGED << up, sock, alive, toServer >>
    BY <1>16 DEF SendPlay
  <2>3. wpc'[c] = "done" /\ "done" \in WorkerPC
    BY <1>3, <2>2 DEF WorkerGoes, WorkerPC
  <2>4. Written(c) = 5 /\ Written(c)' = 6 /\ Protocol[5 + 1] = "PLAY"
    BY <2>2, <2>3 DEF Written, Protocol
  <2> HIDE DEF u
  <2> QED
    BY <1>11, <2>1, <2>2, <2>3, <2>4
<1>17. CASE RecvReady(c)
  <2>1. /\ up = "running" /\ Arrive(c) /\ wpc[c] = "recv" /\ RecvReturns(c)
        /\ UNCHANGED << up, sock, alive, toClient >>
    BY <1>17 DEF RecvReady
  <2>2. \A d \in Conn : toServer'[d] = (toServer[d] /\ d # c)
    BY <1>3, <1>17 DEF RecvReady
  <2> QED
    BY <1>2, <2>1, <2>2, StreamArrive
<1>18. CASE SendDataFails(c)
  <2>1. /\ up = "running" /\ wpc[c] = "data"
        /\ sock' = [sock EXCEPT ![c] = "closed"] /\ wpc' = [wpc EXCEPT ![c] = "failed"]
        /\ UNCHANGED << up, alive, toClient, toServer >>
    BY <1>18 DEF SendDataFails, WorkerGoes
  <2>2. sock'[c] = "closed" /\ wpc'[c] = "failed"
    BY <1>3, <2>1
  <2>3. Written(c)' = Written(c) /\ Consumed(c)' = Consumed(c)
    BY <1>2, <2>1, <2>2 DEF Written, Consumed, clientVars
  <2>4. alive'[c] => OnTrack(c)'
    BY <1>2, <2>1, <2>2, <2>3 DEF StreamOf, OnTrack, Ended, clientVars
  <2>5. StreamOf(c)'
    BY <1>2, <2>2, <2>4 DEF StreamOf, clientVars
  <2> QED
    BY <1>1, <1>2, <1>3, <2>1, <2>5
<1>19. CASE OpenFails(c) \/ WorkerCrash(c)
  BY <1>2, <1>19, StreamSame DEF OpenFails, WorkerCrash, ServerExits
<1> QED
  BY <1>4, <1>6, <1>7, <1>8, <1>9, <1>12, <1>13, <1>14, <1>15, <1>16, <1>17, <1>18, <1>19
  DEF Server, WorkerStep, WorkerFault

\* A client outside of the reads of a file that finds the end of the stream:
\* the server is gone, or has turned it away.
LEMMA StreamEOF ==
    ASSUME TypeOK, NEW c \in Conn, StreamOf(c), alive[c], AtEOF(c),
           cpc[c] \in {"confirm", "commands", "size"}
    PROVE  up = "exited" \/ (sock[c] = "closed" /\ wpc[c] = "none")
<1>1. toClient[c] = << >> /\ Len(toClient[c]) = 0
  BY DEF AtEOF
<1>2. ASSUME OnTrack(c), wpc[c] = "failed" PROVE FALSE
  <2>1. Written(c) = 4 /\ Consumed(c) \in {0, 2, 3, 5, 6}
    BY <1>2 DEF Written, Consumed
  <2> QED
    BY <1>1, <1>2, <2>1 DEF OnTrack
<1> QED
  BY <1>2 DEF StreamOf, Ended, AtEOF, ServerGone

LEMMA StreamClient ==
    ASSUME TypeOK, AcceptInv, StreamInv, NEW c \in Conn,
           Client(Connect(c) \/ ClientStep(c) \/ ClientEnd(c) \/ ClientDies(c))
    PROVE  StreamInv'
<1> USE DEF netVars, mainVars, syncVars, workerVars, serverVars, ClientAt
<1>1. ASSUME StreamOf(c)', up' = up, UNCHANGED serverVars,
             \A d \in Conn \ {c} :
                /\ sock'[d] = sock[d] /\ alive'[d] = alive[d] /\ toClient'[d] = toClient[d]
                /\ toServer'[d] = toServer[d] /\ cpc'[d] = cpc[d] /\ sbuf'[d] = sbuf[d]
                /\ fbuff'[d] = fbuff[d] /\ playing'[d] = playing[d]
      PROVE  StreamInv'
  <2> SUFFICES ASSUME NEW d \in Conn, d # c PROVE StreamOf(d)'
    BY <1>1 DEF StreamInv
  <2> QED
    BY <1>1, StreamFrame DEF StreamInv
<1>2. StreamOf(c) /\ UNCHANGED serverVars
  BY DEF StreamInv, Client
<1>3. /\ toClient \in [Conn -> Seq(Unit)] /\ alive \in [Conn -> BOOLEAN]
      /\ sock \in [Conn -> {"none", "backlog", "open", "closed"}]
      /\ toServer \in [Conn -> BOOLEAN] /\ cpc \in [Conn -> ClientPC]
      /\ sbuf \in [Conn -> {"PLAY", "NFILE"}] /\ playing \in [Conn -> BOOLEAN]
      /\ fbuff \in [Conn -> Contents \cup {None}] /\ wpc[c] \in WorkerPC
  BY DEF TypeOK, ServerTypeOK, NetTypeOK, ClientTypeOK
<1>4. ASSUME ClientExits(c) PROVE StreamInv'
  <2>1. /\ alive' = [alive EXCEPT ![c] = FALSE] /\ toClient' = [toClient EXCEPT ![c] = << >>]
        /\ UNCHANGED << up, sock, toServer, clientVars >>
    BY <1>4 DEF ClientExits
  <2>2. ~alive'[c] /\ toClient'[c] = << >>
    BY <1>3, <2>1
  <2>3. StreamOf(c)'
    BY <1>2, <2>1, <2>2 DEF StreamOf, Unheard, clientVars
  <2> QED
    BY <1>1, <1>2, <1>3, <2>1, <2>3 DEF clientVars
<1>5. CASE Connect(c)
  <2>1. /\ alive[c] /\ cpc[c] = "init" /\ up # "exited"
        /\ sock' = [sock EXCEPT ![c] = "backlog"] /\ cpc' = [cpc EXCEPT ![c] = "confirm"]
        /\ UNCHANGED << up, alive, toClient, toServer, sbuf, fbuff, playing >>
    BY <1>5 DEF Connect, ClientGoes
  <2>2. sock'[c] = "backlog" /\ cpc'[c] = "confirm" /\ sock[c] = "none" /\ wpc[c] = "none"
    BY <1>3, <2>1 DEF AcceptInv
  <2>3. Written(c)' = Written(c) /\ Consumed(c)' = Consumed(c)
    BY <1>2, <2>1, <2>2 DEF Written, Consumed
  <2>4. OnTrack(c)
    BY <1>2, <2>1, <2>2 DEF StreamOf, Ended
  <2>5. OnTrack(c)'
    BY <1>2, <2>1, <2>2, <2>3, <2>4 DEF OnTrack, StreamOf, Unheard
  <2>6. StreamOf(c)'
    BY <1>2, <2>1, <2>2, <2>5 DEF StreamOf, Unheard
  <2> QED
    BY <1>1, <1>2, <1>3, <2>1, <2>6
<1>6. CASE ConfirmConnection(c)
  <2> DEFINE s == toClient[c]
  <2>1. /\ alive[c] /\ cpc[c] = "confirm" /\ Len(s) >= 2
        /\ toClient' = [toClient EXCEPT ![c] = SubSeq(s, 3, Len(s))]
        /\ cpc' = [cpc EXCEPT ![c] = "commands"]
        /\ UNCHANGED << up, sock, alive, toServer, sbuf, fbuff, playing >>
    BY <1>6 DEF ConfirmConnection, ClientGoes
  <2>2. toClient'[c] = SubSeq(s, 3, Len(s)) /\ cpc'[c] = "commands"
    BY <1>3, <2>1
  <2>3. OnTrack(c) /\ Consumed(c) = 0 /\ fbuff[c] = None
    <3>1. s # << >>
      BY <2>1
    <3>2. OnTrack(c)
      BY <1>2, <2>1, <3>1 DEF StreamOf, Ended
    <3> QED
      BY <2>1, <3>2 DEF OnTrack, Consumed
  <2>4. /\ Len(s) = Written(c) /\ Written(c) \in Nat
        /\ \A i \in 1 .. Len(s) : s[i].kind = Protocol[i]
    BY <2>3 DEF OnTrack, Written
  <2>5. Written(c)' = Written(c) /\ Consumed(c)' = 2
    BY <1>2, <2>1, <2>2, <2>3 DEF Written, Consumed
  <2>6. /\ Len(SubSeq(s, 3, Len(s))) = Len(s) - 2
        /\ \A i \in 1 .. Len(s) - 2 : SubSeq(s, 3, Len(s))[i] = s[i + 2]
    <3> DEFINE rest == SubSeq(s, 3, Len(s))
    <3>1. s \in Seq(Unit)
      BY <1>3
    <3> HIDE DEF s
    <3>2. Len(s) \in Nat /\ Len(s) >= 2 /\ \A i \in 3 .. Len(s) : s[i] \in Unit
      BY <2>1, <3>1
    <3>3. Len(rest) = IF 3 <= Len(s) THEN Len(s) - 3 + 1 ELSE 0
      BY <3>2, SubSeqProperties
    <3>4. Len(rest) = Len(s) - 2
      <4> DEFINE n == Len(s)
                 m == Len(rest)
      <4>1. n \in Nat /\ n >= 2 /\ m = IF 3 <= n THEN n - 3 + 1 ELSE 0
        BY <3>2, <3>3
      <4> HIDE DEF n, m
      <4>2. m = n - 2
        BY <4>1
      <4> QED
        BY <4>2 DEF n, m
    <3>5. ASSUME NEW i \in 1 .. Len(s) - 2 PROVE rest[i] = s[i + 2]
      <4>1. i \in 1 .. Len(s) - 3 + 1 /\ 3 + i - 1 = i + 2
        BY <3>2
      <4>2. rest[i] = s[3 + i - 1]
        BY <3>2, <4>1, SubSeqProperties
      <4> QED
        BY <4>1, <4>2
    <3> QED
      BY <3>4, <3>5 DEF rest
  <2>7. \A i \in 1 .. Len(toClient'[c]) : toClient'[c][i].kind = Protocol[2 + i]
    <3> SUFFICES ASSUME NEW i \in 1 .. Len(s) - 2 PROVE s[i + 2].kind = Protocol[2 + i]
      BY <2>2, <2>6
    <3>1. i + 2 \in 1 .. Len(s) /\ i + 2 = 2 + i
      BY <2>1, <2>4
    <3> QED
      BY <2>4, <3>1
  <2>8. OnTrack(c)'
    BY <1>2, <2>1, <2>2, <2>3, <2>4, <2>5, <2>6, <2>7 DEF OnTrack
  <2>9. StreamOf(c)'
    BY <1>2, <2>1, <2>2, <2>3, <2>4, <2>8 DEF StreamOf, Written
  <2> QED
    BY <1>1, <1>2, <1>3, <2>1, <2>9
<1>7. CASE ReadPlay(c)
  <2>1. /\ alive[c] /\ cpc[c] = "commands" /\ Reads(c, "PLAY")
        /\ sbuf' = [sbuf EXCEPT ![c] = "PLAY"]
        /\ playing' = [playing EXCEPT ![c] = fbuff[c] # None]
        /\ UNCHANGED << up, sock, alive, toServer, cpc, fbuff >>
    BY <1>7 DEF ReadPlay
  <2>2. /\ sbuf'[c] = "PLAY" /\ (playing'[c] <=> fbuff[c] # None)
        /\ \A d \in Conn \ {c} : playing'[d] = playing[d]
    BY <1>3, <2>1, Zenon
  <2>3. /\ OnTrack(c) /\ Consumed(c) < Written(c) /\ "PLAY" = Protocol[Consumed(c) + 1]
        /\ Len(toClient'[c]) = Written(c) - (Consumed(c) + 1)
        /\ \A i \in 1 .. Len(toClient'[c]) :
              toClient'[c][i].kind = Protocol[Consumed(c) + 1 + i]
    BY <1>2, <2>1, StreamReads
  <2>4. Consumed(c) = 5 /\ fbuff[c] # None
    <3>1. Consumed(c) \in {2, 5, 6} /\ Written(c) \in 0 .. 6
      BY <2>1 DEF Consumed, Written
    <3>2. Protocol[2 + 1] # "PLAY"
      BY DEF Protocol
    <3>3. Consumed(c) = 5
      BY <2>3, <3>1, <3>2
    <3> QED
      BY <2>1, <3>3 DEF Consumed
  <2>5. Consumed(c)' = 6 /\ Written(c)' = Written(c) /\ Written(c) = 6 /\ wpc[c] = "done"
    BY <1>2, <2>1, <2>2, <2>3, <2>4 DEF Consumed, Written
  <2>6. OnTrack(c)'
    BY <1>2, <2>1, <2>2, <2>3, <2>4, <2>5 DEF OnTrack
  <2>7. StreamOf(c)'
    BY <1>2, <2>1, <2>2, <2>4, <2>5, <2>6 DEF StreamOf
  <2>8. \A d \in Conn \ {c} : toClient'[d] = toClient[d] /\ sbuf'[d] = sbuf[d]
    BY <1>3, <2>1 DEF Reads
  <2> QED
    BY <1>1, <1>2, <2>1, <2>2, <2>7, <2>8
<1>8. CASE ReadNewFile(c)
  <2>1. /\ alive[c] /\ cpc[c] = "commands" /\ Reads(c, "NFILE")
        /\ sbuf' = [sbuf EXCEPT ![c] = "NFILE"] /\ cpc' = [cpc EXCEPT ![c] = "size"]
        /\ UNCHANGED << up, sock, alive, toServer, fbuff, playing >>
    BY <1>8 DEF ReadNewFile, ClientGoes
  <2>2. sbuf'[c] = "NFILE" /\ cpc'[c] = "size"
    BY <1>3, <2>1
  <2>3. /\ OnTrack(c) /\ Consumed(c) < Written(c) /\ "NFILE" = Protocol[Consumed(c) + 1]
        /\ Len(toClient'[c]) = Written(c) - (Consumed(c) + 1)
        /\ \A i \in 1 .. Len(toClient'[c]) :
              toClient'[c][i].kind = Protocol[Consumed(c) + 1 + i]
    BY <1>2, <2>1, StreamReads
  <2>4. Consumed(c) = 2 /\ fbuff[c] = None
    <3>1. Consumed(c) \in {2, 5, 6} /\ Written(c) \in 0 .. 6
      BY <2>1 DEF Consumed, Written
    <3>2. Protocol[5 + 1] # "NFILE"
      BY DEF Protocol
    <3>3. Consumed(c) = 2
      BY <2>3, <3>1, <3>2
    <3> QED
      BY <2>1, <3>3 DEF Consumed
  <2>5. Consumed(c)' = 3 /\ Written(c)' = Written(c) /\ Written(c) > 2 /\ Written(c) \in Nat
    BY <1>2, <2>1, <2>2, <2>3, <2>4 DEF Consumed, Written
  <2>6. OnTrack(c)'
    BY <1>2, <2>1, <2>2, <2>3, <2>4, <2>5 DEF OnTrack
  <2>7. wpc[c] # "none"
    BY <2>5 DEF Written
  <2>8. StreamOf(c)'
    BY <1>2, <2>1, <2>2, <2>4, <2>6, <2>7 DEF StreamOf
  <2>9. \A d \in Conn \ {c} : /\ toClient'[d] = toClient[d] /\ sbuf'[d] = sbuf[d]
                              /\ cpc'[d] = cpc[d]
    BY <1>3, <2>1 DEF Reads
  <2> QED
    BY <1>1, <1>2, <2>1, <2>8, <2>9
<1>9. CASE ReadSize(c)
  <2>1. /\ alive[c] /\ cpc[c] = "size" /\ Reads(c, "size")
        /\ cpc' = [cpc EXCEPT ![c] = "data"]
        /\ UNCHANGED << up, sock, alive, toServer, sbuf, fbuff, playing >>
    BY <1>9 DEF ReadSize, ClientGoes
  <2>2. cpc'[c] = "data" /\ Consumed(c) = 3 /\ sbuf[c] = "NFILE"
    BY <1>2, <1>3, <2>1 DEF Consumed, StreamOf
  <2>3. /\ OnTrack(c) /\ Consumed(c) < Written(c)
        /\ Len(toClient'[c]) = Written(c) - (Consumed(c) + 1)
        /\ \A i \in 1 .. Len(toClient'[c]) :
              toClient'[c][i].kind = Protocol[Consumed(c) + 1 + i]
    BY <1>2, <2>1, StreamReads
  <2>4. Consumed(c)' = 4 /\ Written(c)' = Written(c) /\ Written(c) > 3 /\ Written(c) \in Nat
    BY <1>2, <2>1, <2>2, <2>3 DEF Consumed, Written
  <2>5. OnTrack(c)'
    BY <1>2, <2>1, <2>2, <2>3, <2>4 DEF OnTrack
  <2>6. wpc[c] # "none"
    BY <2>4 DEF Written
  <2>7. StreamOf(c)'
    BY <1>2, <2>1, <2>2, <2>5, <2>6 DEF StreamOf
  <2>8. \A d \in Conn \ {c} : toClient'[d] = toClient[d] /\ cpc'[d] = cpc[d]
    BY <1>3, <2>1 DEF Reads
  <2> QED
    BY <1>1, <1>2, <2>1, <2>7, <2>8
<1>10. CASE RecvFile(c)
  <2>1. /\ alive[c] /\ cpc[c] = "data" /\ Reads(c, "data")
        /\ fbuff' = [fbuff EXCEPT ![c] = Head(toClient[c]).file]
        /\ toServer' = [toServer EXCEPT ![c] = TRUE] /\ cpc' = [cpc EXCEPT ![c] = "commands"]
        /\ UNCHANGED << up, sock, alive, sbuf, playing >>
    BY <1>10 DEF RecvFile, ClientGoes
  <2>2. Head(toClient[c]).file # None
    <3>1. Head(toClient[c]) \in Unit
      BY <1>3, <2>1, ReadsType
    <3>2. Head(toClient[c]).file \in Contents
      BY <3>1 DEF Unit
    <3> QED
      BY <3>2, ConnAssumption DEF Contents
  <2>3. /\ cpc'[c] = "commands" /\ fbuff'[c] # None /\ toServer'[c]
        /\ Consumed(c) = 4 /\ sbuf[c] = "NFILE"
    BY <1>2, <1>3, <2>1, <2>2 DEF Consumed, StreamOf
  <2>4. /\ OnTrack(c) /\ Consumed(c) < Written(c)
        /\ Len(toClient'[c]) = Written(c) - (Consumed(c) + 1)
        /\ \A i \in 1 .. Len(toClient'[c]) :
              toClient'[c][i].kind = Protocol[Consumed(c) + 1 + i]
    BY <1>2, <2>1, StreamReads
  <2>5. wpc[c] = "recv" /\ Written(c) = 5
    BY <1>3, <2>3, <2>4 DEF Written, OnTrack, WorkerPC
  <2>6. Consumed(c)' = 5 /\ Written(c)' = Written(c)
    BY <1>2, <2>1, <2>3, <2>5 DEF Consumed, Written
  <2>7. OnTrack(c)'
    BY <1>2, <2>1, <2>3, <2>4, <2>5, <2>6 DEF OnTrack
  <2>8. StreamOf(c)'
    BY <1>2, <2>1, <2>3, <2>5, <2>7 DEF StreamOf
  <2>9. \A d \in Conn \ {c} : /\ toClient'[d] = toClient[d] /\ cpc'[d] = cpc[d]
                              /\ fbuff'[d] = fbuff[d] /\ toServer'[d] = toServer[d]
    BY <1>3, <2>1 DEF Reads
  <2> QED
    BY <1>1, <1>2, <2>1, <2>8, <2>9
<1>11. CASE ConfirmAtEOF(c)
  <2>1. /\ alive[c] /\ cpc[c] = "confirm" /\ AtEOF(c)
        /\ cpc' = [cpc EXCEPT ![c] = "commands"]
        /\ UNCHANGED << netVars, sbuf, fbuff, playing >>
    BY <1>11 DEF ConfirmAtEOF, ClientGoes
  <2>2. cpc'[c] = "commands" /\ (up = "exited" \/ (sock[c] = "closed" /\ wpc[c] = "none"))
    BY <1>2, <1>3, <2>1, StreamEOF
  <2>3. Ended(c)'
    BY <1>2, <2>1, <2>2 DEF Ended, AtEOF
  <2>4. StreamOf(c)'
    BY <1>2, <2>1, <2>2, <2>3 DEF StreamOf, Unheard
  <2> QED
    BY <1>1, <1>2, <1>3, <2>1, <2>4
<1>12. CASE RepeatCommand(c)
  <2>1. /\ alive[c] /\ cpc[c] = "commands" /\ AtEOF(c) /\ UNCHANGED << netVars, sbuf, fbuff >>
    BY <1>12 DEF RepeatCommand
  <2>2. up = "exited" \/ (sock[c] = "closed" /\ wpc[c] = "none")
    BY <1>2, <2>1, StreamEOF
  <2>3. CASE sbuf[c] = "NFILE"
    <3>1. cpc' = [cpc EXCEPT ![c] = "size"] /\ UNCHANGED playing
      BY <1>12, <2>3 DEF RepeatCommand, ClientGoes
    <3>2. cpc'[c] = "size" /\ wpc[c] # "none"
      BY <1>2, <1>3, <2>3, <3>1 DEF StreamOf, Unheard
    <3>3. Ended(c)'
      BY <1>2, <2>1, <2>2, <3>2 DEF Ended, AtEOF
    <3>4. StreamOf(c)'
      BY <1>2, <2>1, <2>3, <3>1, <3>2, <3>3 DEF StreamOf
    <3> QED
      BY <1>1, <1>2, <1>3, <2>1, <3>1, <3>4
  <2>4. CASE sbuf[c] # "NFILE"
    <3>1. playing' = [playing EXCEPT ![c] = fbuff[c] # None] /\ UNCHANGED cpc
      BY <1>12, <2>4 DEF RepeatCommand
    <3>2. (playing'[c] <=> fbuff[c] # None) /\ \A d \in Conn \ {c} : playing'[d] = playing[d]
      BY <1>3, <3>1, Zenon
    <3>3. sbuf[c] = "PLAY"
      BY <1>3, <2>4
    <3>4. Ended(c)'
      BY <1>2, <2>1, <2>2 DEF Ended, AtEOF
    <3>5. Unheard(c) => Unheard(c)'
      BY <2>1, <3>1, <3>2 DEF Unheard
    <3>6. StreamOf(c)'
      BY <1>2, <2>1, <3>1, <3>2, <3>3, <3>4, <3>5 DEF StreamOf
    <3> QED
      BY <1>1, <1>2, <2>1, <3>1, <3>2, <3>6
  <2> QED
    BY <2>3, <2>4
<1>13. CASE EmptyFile(c)
  <2>1. /\ alive[c] /\ cpc[c] = "size" /\ AtEOF(c) /\ UNCHANGED << netVars, sbuf, playing >>
        /\ fbuff' = [fbuff EXCEPT ![c] = Torn] /\ cpc' = [cpc EXCEPT ![c] = "commands"]
    BY <1>13 DEF EmptyFile, ClientGoes
  <2>2. fbuff'[c] = Torn /\ cpc'[c] = "commands" /\ sbuf[c] = "NFILE" /\ ~playing[c]
    BY <1>2, <1>3, <2>1 DEF StreamOf
  <2>3. wpc[c] # "none"
    BY <1>2, <2>1 DEF StreamOf, Unheard
  <2>4. up = "exited"
    BY <1>2, <2>1, <2>3, StreamEOF
  <2>5. Ended(c)'
    BY <1>2, <2>1, <2>4 DEF Ended, AtEOF
  <2>6. StreamOf(c)'
    BY <1>2, <2>1, <2>2, <2>3, <2>5 DEF StreamOf
  <2> QED
    BY <1>1, <1>2, <1>3, <2>1, <2>6
<1>14. CASE RecvSpins(c)
  <2>1. /\ alive[c] /\ cpc[c] = "data" /\ AtEOF(c) /\ UNCHANGED << netVars, sbuf, fbuff, playing >>
        /\ cpc' = [cpc EXCEPT ![c] = "spin"]
    BY <1>14 DEF RecvSpins, ClientGoes
  <2>2. cpc'[c] = "spin" /\ wpc[c] # "none"
    BY <1>2, <1>3, <2>1 DEF StreamOf, Unheard
  <2>3. Ended(c)'
    BY <1>2, <2>1, <2>2 DEF Ended, AtEOF, ServerGone, StreamOf
  <2>4. StreamOf(c)'
    BY <1>2, <2>1, <2>2, <2>3 DEF StreamOf
  <2> QED
    BY <1>1, <1>2, <1>3, <2>1, <2>4
<1>15. CASE ConfirmFails(c) \/ FileFails(c) \/ ClientDies(c)
  BY <1>4, <1>15 DEF ConfirmFails, FileFails, ClientDies
<1> QED
  BY <1>5, <1>6, <1>7, <1>8, <1>9, <1>10, <1>11, <1>12, <1>13, <1>14, <1>15
  DEF Client, ClientStep, ClientEnd

LEMMA StreamInit == Init => StreamInv
<1> SUFFICES ASSUME Init, NEW c \in Conn PROVE StreamOf(c)
  BY DEF StreamInv
<1> QED
  BY DEF Init, NetInit, ServerInit, ClientInit, StreamOf, OnTrack, Unheard, Written, Consumed

LEMMA StreamInvariant == Spec => []StreamInv
<1>1. TypeInv /\ SyncInv /\ AcceptInv /\ StreamInv /\ [Next]_vars => StreamInv'
  <2> SUFFICES ASSUME TypeOK, SyncInv, AcceptInv, StreamInv, [Next]_vars PROVE StreamInv'
    BY DEF TypeInv
  <2>1. ASSUME Server(MainStep) \/ Server(OperatorStep) \/ Server(LoadFails \/ CreateFails)
        PROVE  StreamInv'
    <3>1. Server(MainStep \/ OperatorStep \/ LoadFails \/ CreateFails)
      BY <2>1 DEF Server
    <3> QED
      BY <3>1, StreamMain
  <2>2. ASSUME NEW c \in Conn,
               Server(handle_socket(c)) \/ Server(WorkerStep(c)) \/ Server(WorkerFault(c))
        PROVE  StreamInv'
    <3>1. Server(handle_socket(c) \/ WorkerStep(c) \/ WorkerFault(c))
      BY <2>2 DEF Server
    <3> QED
      BY <3>1, StreamWorker
  <2>3. ASSUME NEW c \in Conn,
               \/ Client(Connect(c)) \/ Client(ClientStep(c))
               \/ Client(ClientEnd(c)) \/ Client(ClientDies(c))
        PROVE  StreamInv'
    <3>1. Client(Connect(c) \/ ClientStep(c) \/ ClientEnd(c) \/ ClientDies(c))
      BY <2>3 DEF Client
    <3> QED
      BY <3>1, StreamClient
  <2>4. CASE UNCHANGED vars
    BY <2>4, StreamSame DEF vars, netVars, serverVars, workerVars
  <2> QED
    BY <2>1, <2>2, <2>3, <2>4 DEF Next
<1> QED
  BY StreamInit, <1>1, TypeInvariant, SyncInvariant, PTL DEF Spec

-----------------------------------------------------------------------------
(* What it means for the protocol.                                          *)

\* Commands are never read as sizes, nor data as commands, whatever fails
\* (server_thread.c:49-124, client.c:72-131, 154-177).
THEOREM InStepCorrect == Spec => []InStep
<1>1. TypeOK /\ AcceptInv /\ StreamInv => InStep
  <2> SUFFICES ASSUME TypeOK, AcceptInv, StreamInv, NEW c \in Conn, alive[c], toClient[c] # << >>
               PROVE  Head(toClient[c]).kind \in
                         CASE cpc[c] = "confirm"  -> {"connected"}
                           [] cpc[c] = "commands" -> {"NFILE", "PLAY"}
                           [] cpc[c] = "size"     -> {"size"}
                           [] cpc[c] = "data"     -> {"data"}
                           [] OTHER               -> {}
    BY DEF InStep
  <2>1. OnTrack(c) /\ (wpc[c] = "none" => Unheard(c))
    BY DEF StreamInv, StreamOf, Ended
  <2>2. /\ toClient[c] \in Seq(Unit) /\ Len(toClient[c]) > 0
        /\ Head(toClient[c]) = toClient[c][1] /\ 1 \in 1 .. Len(toClient[c])
    BY DEF TypeOK, NetTypeOK
  <2>3. Head(toClient[c]).kind = Protocol[Consumed(c) + 1] /\ Consumed(c) < Written(c)
    BY <2>1, <2>2 DEF OnTrack, Consumed, Written
  <2>4. cpc[c] # "init"
    BY <2>1, <2>2 DEF AcceptInv, Unheard
  <2> QED
    BY <2>1, <2>3, <2>4 DEF OnTrack, Consumed, Written, Protocol, TypeOK, ClientTypeOK, ClientPC
<1> QED
  BY TypeCorrect, SyncInvariant, StreamInvariant, <1>1, PTL

\* At the barrier and beyond, a worker's client has stored its file or is
\* gone, and no second answer waits (server_thread.c:107-117).
THEOREM DeliveryCorrect == Spec => []BarrierMeansDelivered
<1>1. StreamInv => BarrierMeansDelivered
  <2> SUFFICES ASSUME StreamInv, NEW c \in Conn, up = "running", alive[c],
                      wpc[c] \in {"barrier", "play", "done"}
               PROVE  fbuff[c] # None /\ ~toServer[c]
    BY DEF BarrierMeansDelivered
  <2>1. OnTrack(c)
    BY DEF StreamInv, StreamOf, Ended
  <2> QED
    BY <2>1 DEF OnTrack, Consumed
<1> QED
  BY StreamInvariant, <1>1, PTL

\* A client that was turned away stays without a file and never plays,
\* whatever it takes itself for (cmd_handlers.c:338-342, client.c:69-79).
THEOREM TurnedAwayCorrect == Spec => []TurnedAwayIsSilent
<1>1. StreamInv => TurnedAwayIsSilent
  BY DEF StreamInv, StreamOf, Unheard, TurnedAwayIsSilent
<1> QED
  BY StreamInvariant, <1>1, PTL
=============================================================================
