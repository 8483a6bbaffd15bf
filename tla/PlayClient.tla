----------------------------- MODULE PlayClient -----------------------------
(***************************************************************************)
(* The client program: client/client.c with client/socket_client.c.  It    *)
(* connects, waits for the server's greeting, and then executes one-byte   *)
(* commands for ever.  A client whose connection has ended never notices:  *)
(* what read() returns is not looked at, so the last command is repeated.  *)
(***************************************************************************)
EXTENDS Connection

VARIABLES
    cpc,      \* where the client is
    sbuf,     \* the byte of the last command read, by its name
    fbuff,    \* the contents of the last file received, or None
    playing   \* its player has been started with something to play

clientVars == << cpc, sbuf, fbuff, playing >>

ClientPC == {"init", "confirm", "commands", "size", "data", "spin"}

ClientTypeOK ==
    /\ cpc \in [Conn -> ClientPC]
    /\ sbuf \in [Conn -> {"PLAY", "NFILE"}]
    /\ fbuff \in [Conn -> Contents \cup {None}]
    /\ playing \in [Conn -> BOOLEAN]

ClientInit_OtherByte ==
    /\ cpc = [c \in Conn |-> "init"]
    /\ sbuf = [c \in Conn |-> "NFILE"]
    /\ fbuff = [c \in Conn |-> None]
    /\ playing = [c \in Conn |-> FALSE]

\* sbuf starts as 0, which is the byte of PLAY.
ClientInit ==
    /\ cpc = [c \in Conn |-> "init"]
    /\ sbuf = [c \in Conn |-> "PLAY"]
    /\ fbuff = [c \in Conn |-> None]
    /\ playing = [c \in Conn |-> FALSE]

ClientAt(c, pc) == alive[c] /\ cpc[c] = pc
ClientGoes(c, pc) == cpc' = [cpc EXCEPT ![c] = pc]

\* The first unit waiting to be read is of this kind, and is read.
Reads(c, kind) ==
    /\ toClient[c] # << >>
    /\ Head(toClient[c]).kind = kind
    /\ toClient' = [toClient EXCEPT ![c] = Tail(@)]

\* exit(), or a signal: the process is gone and reads nothing any more.
ClientExits(c) ==
    /\ alive' = [alive EXCEPT ![c] = FALSE]
    /\ toClient' = [toClient EXCEPT ![c] = << >>]
    /\ UNCHANGED << up, sock, toServer, clientVars >>

Connect(c) ==
    /\ ClientAt(c, "init")
    /\ up # "exited"
    /\ sock' = [sock EXCEPT ![c] = "backlog"]
    /\ ClientGoes(c, "confirm")
    /\ UNCHANGED << up, alive, toClient, toServer, sbuf, fbuff, playing >>

\* confirm_connection: "connected" and the number are read and not checked.
ConfirmConnection(c) ==
    /\ ClientAt(c, "confirm")
    /\ Len(toClient[c]) >= 2
    /\ toClient' = [toClient EXCEPT ![c] = SubSeq(@, 3, Len(@))]
    /\ ClientGoes(c, "commands")
    /\ UNCHANGED << up, sock, alive, toServer, sbuf, fbuff, playing >>

\* Both reads return 0 when the server has closed: that is a confirmation too.
ConfirmAtEOF(c) ==
    /\ ClientAt(c, "confirm")
    /\ AtEOF(c)
    /\ ClientGoes(c, "commands")
    /\ UNCHANGED << netVars, sbuf, fbuff, playing >>

\* Only an error, which the reset of a connection is, ends the client.
ConfirmFails(c) ==
    /\ ClientAt(c, "confirm")
    /\ AtEOF(c) /\ up = "exited"
    /\ ClientExits(c)

\* The player starts when there is a file in its playlist.
ReadPlay(c) ==
    /\ ClientAt(c, "commands")
    /\ Reads(c, "PLAY")
    /\ sbuf' = [sbuf EXCEPT ![c] = "PLAY"]
    /\ playing' = [playing EXCEPT ![c] = fbuff[c] # None]
    /\ UNCHANGED << up, sock, alive, toServer, cpc, fbuff >>

ReadNewFile_WithoutSize(c) ==
    /\ ClientAt(c, "commands")
    /\ Reads(c, "NFILE")
    /\ sbuf' = [sbuf EXCEPT ![c] = "NFILE"]
    /\ ClientGoes(c, "data")
    /\ UNCHANGED << up, sock, alive, toServer, fbuff, playing >>

ReadNewFile(c) ==
    /\ ClientAt(c, "commands")
    /\ Reads(c, "NFILE")
    /\ sbuf' = [sbuf EXCEPT ![c] = "NFILE"]
    /\ ClientGoes(c, "size")
    /\ UNCHANGED << up, sock, alive, toServer, fbuff, playing >>

\* At the end of the stream read() leaves the byte there is, and its command
\* is executed again.
RepeatCommand(c) ==
    /\ ClientAt(c, "commands")
    /\ AtEOF(c)
    /\ IF sbuf[c] = "NFILE"
       THEN ClientGoes(c, "size") /\ UNCHANGED playing
       ELSE /\ playing' = [playing EXCEPT ![c] = fbuff[c] # None]
            /\ UNCHANGED cpc
    /\ UNCHANGED << netVars, sbuf, fbuff >>

ReadSize_AnswersEarly(c) ==
    /\ ClientAt(c, "size")
    /\ Reads(c, "size")
    /\ toServer' = [toServer EXCEPT ![c] = TRUE]
    /\ ClientGoes(c, "data")
    /\ UNCHANGED << up, sock, alive, sbuf, fbuff, playing >>

ReadSize(c) ==
    /\ ClientAt(c, "size")
    /\ Reads(c, "size")
    /\ ClientGoes(c, "data")
    /\ UNCHANGED << up, sock, alive, toServer, sbuf, fbuff, playing >>

\* get_file returns once all bytes have come, and the client answers: a byte
\* that waits for the worker's recv.
RecvFile(c) ==
    /\ ClientAt(c, "data")
    /\ Reads(c, "data")
    /\ fbuff' = [fbuff EXCEPT ![c] = Head(toClient[c]).file]
    /\ toServer' = [toServer EXCEPT ![c] = TRUE]
    /\ ClientGoes(c, "commands")
    /\ UNCHANGED << up, sock, alive, sbuf, playing >>

(* No size came: it stays 0 and recvall, with nothing to receive, returns   *)
(* what an uninitialised variable says.  The file is empty, and the answer  *)
(* is sent to nobody, or the client exits.                                  *)
EmptyFile(c) ==
    /\ ClientAt(c, "size")
    /\ AtEOF(c)
    /\ fbuff' = [fbuff EXCEPT ![c] = Torn]
    /\ ClientGoes(c, "commands")
    /\ UNCHANGED << netVars, sbuf, playing >>

\* The bytes stop: recvall adds 0 and asks again, for ever.
RecvSpins(c) ==
    /\ ClientAt(c, "data")
    /\ AtEOF(c)
    /\ ClientGoes(c, "spin")
    /\ UNCHANGED << netVars, sbuf, fbuff, playing >>

\* The error of a reset connection, the uninitialised result above, or an
\* answer that cannot be sent.
FileFails(c) ==
    /\ ClientAt(c, "size") \/ ClientAt(c, "data")
    /\ AtEOF(c)
    /\ ClientExits(c)

ClientDies(c) ==
    /\ "client" \in Fault
    /\ alive[c]
    /\ ClientExits(c)

ClientStep(c) ==
    \/ ConfirmConnection(c) \/ ReadPlay(c) \/ ReadNewFile(c)
    \/ ReadSize(c) \/ RecvFile(c)

\* What a client does once nothing more comes.
ClientEnd(c) ==
    \/ ConfirmAtEOF(c) \/ ConfirmFails(c) \/ RepeatCommand(c)
    \/ EmptyFile(c) \/ RecvSpins(c) \/ FileFails(c)
=============================================================================
