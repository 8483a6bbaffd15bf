------------------------------- MODULE Remote -------------------------------
(***************************************************************************)
(* A client on its stream of bytes: client/client.c with socket_client.c,  *)
(* and whoever sends it the commands of client_protocol.h.  PlayClient     *)
(* takes the units of the protocol as they were sent; here TCP may deliver *)
(* the bytes of a unit in pieces, and the client reads what there is: only *)
(* recvall asks again, and nothing else looks at how much was read.        *)
(***************************************************************************)
EXTENDS Integers, SequencesExt

CONSTANTS
    Scripts,     \* sequences of commands the server may send
    Garbage,     \* bytes that uninitialised memory may hold
    MaxCalls     \* bound: calls of the player a client makes

PLAY == 0
PAUSE == 1
RESUME == 2
SEEK == 3
LOOP == 4
NOLOOP == 5
NFILE == 6
QUIT == 7

\* A command has the four bytes of a tick or the bytes of a file, or nothing.
Command(byte, arg) == [byte |-> byte, arg |-> arg]
Greeting == << 99, 111, 110, 110, 101, 99, 116, 101, 100, 0 >>
Number(n) == << n \div 2^24, (n \div 2^16) % 256, (n \div 2^8) % 256, n % 256 >>
NumberOf(b) == b[1] * 2^24 + b[2] * 2^16 + b[3] * 2^8 + b[4]

ASSUME RemoteAssumption ==
    /\ Garbage \subseteq 0 .. 255
    /\ \A script \in Scripts : \A i \in DOMAIN script : script[i].byte \in PLAY .. QUIT

VARIABLES
    script,      \* the commands of this session
    left,        \* the units still to be sent
    awaiting,    \* the server waits for the answer to a file
    answers,     \* answers on their way
    stream,      \* pieces on their way to the client
    closed,      \* the server is gone
    split,       \* a unit that the client reads in one call was delivered in pieces
    cpc, sbuf,   \* where the client is, and its last command byte
    fsize, fbuff,\* the file being received
    calls        \* the calls of its player, with their arguments

serverVars == << script, left, awaiting >>
netVars == << answers, stream, closed, split >>
clientVars == << cpc, sbuf, fsize, fbuff, calls >>
vars == << serverVars, netVars, clientVars >>

TypeOK ==
    /\ script \in Scripts
    /\ awaiting \in BOOLEAN /\ closed \in BOOLEAN /\ split \in BOOLEAN
    /\ answers \in Nat
    /\ \A i \in DOMAIN stream : stream[i] # << >> /\ stream[i] \in Seq(0 .. 255)
    /\ cpc \in {"connect", "greeting", "id", "commands", "tick", "size", "data",
                "answer", "exited", "done"}
    /\ sbuf \in 0 .. 255
    /\ Len(fbuff) <= fsize
    /\ cpc = "data" /\ fsize > 0 => Len(fbuff) < fsize
    /\ Len(calls) <= MaxCalls

\* What server_thread sends, each unit by a send() or sendall() of its own.
Unit(bytes, file) == [bytes |-> bytes, file |-> file]
Units(command) ==
    << Unit(<< command.byte >>, FALSE) >>
    \o CASE command.byte = SEEK -> << Unit(command.arg, FALSE) >>
         [] command.byte = NFILE ->
                << Unit(Number(Len(command.arg)), FALSE), Unit(command.arg, TRUE) >>
         [] OTHER -> << >>

Init ==
    /\ script \in Scripts
    /\ left = << Unit(Greeting, FALSE), Unit(Number(0), FALSE) >>
                \o FlattenSeq([i \in DOMAIN script |-> Units(script[i])])
    /\ awaiting = FALSE /\ answers = 0
    /\ stream = << >> /\ closed = FALSE /\ split = FALSE
    /\ cpc = "connect" /\ sbuf = PLAY
    /\ fsize = 0 /\ fbuff = << >> /\ calls = << >>

-----------------------------------------------------------------------------
(* The server and the network.                                              *)

Pieces(bytes) == { << SubSeq(bytes, 1, k), SubSeq(bytes, k + 1, Len(bytes)) >> :
                       k \in 1 .. Len(bytes) - 1 }

SendUnit ==
    /\ left # << >> /\ ~awaiting /\ ~closed /\ cpc # "connect"
    /\ \/ stream' = Append(stream, Head(left).bytes) /\ UNCHANGED split
       \/ /\ \E pieces \in Pieces(Head(left).bytes) : stream' = stream \o pieces
          /\ split' = (split \/ ~Head(left).file)
    /\ left' = Tail(left)
    /\ awaiting' = Head(left).file
    /\ UNCHANGED << script, answers, closed, clientVars >>

RecvAnswer ==
    /\ awaiting /\ answers > 0 /\ ~closed
    /\ answers' = answers - 1
    /\ awaiting' = FALSE
    /\ UNCHANGED << script, left, stream, closed, split, clientVars >>

\* The server's process ends; what was on its way may be lost from some byte on.
Dies ==
    /\ ~closed
    /\ closed' = TRUE
    /\ \E n \in 0 .. Len(stream) : stream' = SubSeq(stream, 1, n)
    /\ UNCHANGED << serverVars, answers, split, clientVars >>

-----------------------------------------------------------------------------
(* The client.                                                              *)

AtEOF == closed /\ stream = << >>

Goes(pc) == cpc' = pc

\* What a read of at most n bytes may return, and what it leaves: some of the
\* pieces have come, or nothing will come any more.
Readings(n) ==
    { LET come == FlattenSeq(SubSeq(stream, 1, j))
          got == Min({n, Len(come)})
          over == SubSeq(come, got + 1, Len(come))
      IN  << SubSeq(come, 1, got), (IF over = << >> THEN << >> ELSE << over >>)
                                     \o SubSeq(stream, j + 1, Len(stream)) >> :
      j \in 1 .. Len(stream) }
    \cup (IF AtEOF THEN { << << >>, << >> >> } ELSE {})

\* A read whose result nobody looks at.
Reads(pc, n, next) ==
    /\ cpc = pc
    /\ \E reading \in Readings(n) : stream' = reading[2]
    /\ cpc' = next
    /\ UNCHANGED << serverVars, answers, closed, split, sbuf, fsize, fbuff, calls >>

\* What may become of an address of the server: the next one is tried until
\* one can be connected to.
connect_to ==
    /\ cpc = "connect"
    /\ \E fates \in [1 .. 2 -> {"socket", "connect", "ok"}] :
          cpc' = IF \E i \in DOMAIN fates : fates[i] = "ok" THEN "greeting" ELSE "exited"
    /\ UNCHANGED << serverVars, netVars, sbuf, fsize, fbuff, calls >>

confirm_connection_All == Reads("greeting", Len(Greeting) + 4, "id")
confirm_connection == Reads("greeting", Len(Greeting), "id")
ReadId == Reads("id", 4, "commands")

\* The player functions that commands without an argument call.
PlayerCall ==
    PLAY :> << "player_play" >> @@ PAUSE :> << "player_pause" >>
    @@ RESUME :> << "player_play" >>
    @@ LOOP :> << "player_setloop", 1 >> @@ NOLOOP :> << "player_setloop", 0 >>

\* A command byte: its call is made, or its argument is read next.
Executes(byte) ==
    /\ sbuf' = byte
    /\ calls' = IF byte \in DOMAIN PlayerCall THEN Append(calls, PlayerCall[byte]) ELSE calls
    /\ cpc' = CASE byte = SEEK -> "tick" [] byte = NFILE -> "size" [] byte = QUIT -> "done"
                [] OTHER -> "commands"
    /\ UNCHANGED << serverVars, answers, closed, split, fsize, fbuff >>

\* At the end of the stream the byte is the one that was there before.
ReadCommand ==
    /\ cpc = "commands" /\ Len(calls) < MaxCalls
    /\ \E reading \in Readings(1) :
          /\ stream' = reading[2]
          /\ Executes(IF reading[1] = << >> THEN sbuf ELSE reading[1][1])

\* Four bytes of which only some were read keep what was there before.
Filled(bytes, before) == bytes \o SubSeq(before, Len(bytes) + 1, 4)

ReadTick ==
    /\ cpc = "tick"
    /\ \E reading \in Readings(4), byte \in Garbage :
          /\ stream' = reading[2]
          /\ calls' = Append(calls, << "player_seek", Filled(reading[1], << byte, byte, byte, byte >>) >>)
    /\ Goes("commands")
    /\ UNCHANGED << serverVars, answers, closed, split, sbuf, fsize, fbuff >>

ReadSize ==
    /\ cpc = "size"
    /\ \E reading \in Readings(4) :
          /\ stream' = reading[2]
          /\ fsize' = NumberOf(Filled(reading[1], << 0, 0, 0, 0 >>))
    /\ fbuff' = << >>
    /\ Goes("data")
    /\ UNCHANGED << serverVars, answers, closed, split, sbuf, calls >>

\* recvall asks for what is missing, and at the end of the stream for ever.
bytesleft == fsize - Len(fbuff)
recvall_Once(bytes) == bytes # << >>
recvall(bytes) == Len(bytes) = fsize

ReadData ==
    /\ cpc = "data" /\ fsize > 0
    /\ \E reading \in Readings(bytesleft) :
          /\ reading[1] # << >>
          /\ stream' = reading[2]
          /\ fbuff' = fbuff \o reading[1]
    /\ IF recvall(fbuff')
       THEN Goes("answer") /\ calls' = Append(calls, << "player_add_midi_mem", fbuff' >>)
       ELSE UNCHANGED << cpc, calls >>
    /\ UNCHANGED << serverVars, answers, closed, split, sbuf, fsize >>

\* With nothing to receive recvall returns what an uninitialised variable says.
EmptyFile ==
    /\ cpc = "data" /\ fsize = 0
    /\ \/ Goes("answer") /\ calls' = Append(calls, << "player_add_midi_mem", << >> >>)
       \/ Goes("exited") /\ UNCHANGED calls
    /\ UNCHANGED << serverVars, netVars, sbuf, fsize, fbuff >>

\* Once the server is gone send() may fail, or end the process by SIGPIPE.
SendAnswer ==
    /\ cpc = "answer"
    /\ \/ Goes("commands") /\ answers' = answers + 1
       \/ closed /\ Goes("exited") /\ UNCHANGED answers
    /\ UNCHANGED << serverVars, stream, closed, split, sbuf, fsize, fbuff, calls >>

\* The error of a connection that was reset ends the client, except where it
\* reads its commands.
ReadFails ==
    /\ cpc \in {"greeting", "id", "tick", "size", "data"}
    /\ AtEOF
    /\ Goes("exited")
    /\ UNCHANGED << serverVars, netVars, sbuf, fsize, fbuff, calls >>

ClientStep ==
    \/ confirm_connection \/ ReadId \/ ReadCommand \/ ReadTick \/ ReadSize
    \/ ReadData \/ EmptyFile \/ SendAnswer

Next == SendUnit \/ RecvAnswer \/ Dies \/ connect_to \/ ClientStep \/ ReadFails

Spec == Init /\ [][Next]_vars

\* The server's worker and the client go on as long as they can.
FairSpec == Spec /\ WF_vars(SendUnit) /\ WF_vars(RecvAnswer) /\ WF_vars(ClientStep)

-----------------------------------------------------------------------------
(* Properties.                                                              *)

\* What a script asks of the player.
CallOf(command) ==
    CASE command.byte = SEEK -> << << "player_seek", command.arg >> >>
      [] command.byte = NFILE -> << << "player_add_midi_mem", command.arg >> >>
      [] command.byte = QUIT -> << >>
      [] OTHER -> << PlayerCall[command.byte] >>
Asked == FlattenSeq([i \in DOMAIN script |-> CallOf(script[i])])

\* As long as TCP delivers what is read in one call in one piece, a client
\* calls its player as the server asked, each call once, in order and with its
\* tick or its whole file, however the file was cut; and when the server has
\* gone, at most the last command again.  The answer the server receives says
\* that the file it sent is with the client's player, and nothing else has been
\* asked of it since (client.c:72-131, 154-177, socket_client.c:70-128,
\* server_thread.c:107-117).
Obeys ==
    /\ TypeOK
    /\ ~split =>
         \E n \in 0 .. Len(calls) :
            /\ IsPrefix(SubSeq(calls, 1, n), Asked)
            /\ n < Len(calls) => closed
            /\ \A i \in n + 1 .. Len(calls) :
                  \E call \in ToSet(CallOf(Command(sbuf, << >>))) : calls[i][1] = call[1]
    /\ ~split /\ ~closed /\ answers > 0 =>
         /\ answers = 1 /\ awaiting
         /\ calls # << >> /\ Last(calls)[1] = "player_add_midi_mem"

\* Once connected, a client comes to obey everything the server has to send,
\* unless the server goes away or TCP splits what the client does not put
\* together: neither waits for the other for ever (client.c:106-123,
\* server_thread.c:107-112).
EverythingObeyed == (cpc = "greeting") ~> (closed \/ split \/ calls = Asked)
=============================================================================
