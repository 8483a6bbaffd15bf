----------------------------- MODULE Connection -----------------------------
(***************************************************************************)
(* The TCP connection between one client process and the worker thread     *)
(* that serves it, as server/server_thread.c and client/client.c use it.   *)
(*                                                                         *)
(* A stream is a sequence of protocol units, delivered in order: what the  *)
(* bytes of a unit are, and how send() and recv() may cut them, is not the *)
(* concern of this module.  What is kept is who has closed which end, and  *)
(* what send() and recv() may then return.                                 *)
(***************************************************************************)
EXTENDS Naturals, Sequences, FiniteSets

CONSTANTS
    Conn,      \* connections; one run of the client program makes one
    None,      \* no file, no mutex owner
    Fault,     \* the environment failures that can happen, from FaultKind
    MaxPlays   \* bound: how often the operator starts an orchestra play

FaultKind ==
    { "client",   \* a client process dies at any moment
      "disk",     \* the files of the tmp directory cannot be written or read
      "midi",     \* a loaded file does not parse, or cannot be split
      "wakeup" }  \* pthread_cond_wait returns spuriously

(* The contents of a file out_<i>.mid, and of what a client received: the   *)
(* number of the play that wrote it, counted from 1, which stands for the   *)
(* song loaded at that time and the number of clients it was split for; or  *)
(* Torn, bytes that are no complete file of any play.                       *)
Torn == 0
Contents == 0 .. MaxPlays

ASSUME ConnAssumption ==
    /\ IsFiniteSet(Conn)
    /\ None \notin Conn
    /\ None \notin Nat
    /\ Fault \subseteq FaultKind
    /\ MaxPlays \in Nat

(* The units the server writes to a client.  "connected" and "id" open the  *)
(* connection; NFILE and PLAY are the bytes 6 and 0 of enum client_protocol *)
(* (the others are never sent); "size" and "data" follow NFILE.             *)
Kind == {"connected", "id", "NFILE", "size", "data", "PLAY"}
Unit == [kind : Kind, file : Contents]

VARIABLES
    up,        \* the server process: "running", "exited", or "hung" in quit
    sock,      \* the server's end: "none", "backlog", "open" or "closed"
    alive,     \* the client process has not exited or been killed
    toClient,  \* units sent by the server and not yet read by the client
    toServer   \* the client's one-byte answer is waiting to be received

netVars == << up, sock, alive, toClient, toServer >>

NetTypeOK ==
    /\ up \in {"running", "exited", "hung"}
    /\ sock \in [Conn -> {"none", "backlog", "open", "closed"}]
    /\ alive \in [Conn -> BOOLEAN]
    /\ toClient \in [Conn -> Seq(Unit)]
    /\ toServer \in [Conn -> BOOLEAN]

NetInit ==
    /\ up = "running"
    /\ sock = [c \in Conn |-> "none"]
    /\ alive = [c \in Conn |-> TRUE]
    /\ toClient = [c \in Conn |-> << >>]
    /\ toServer = [c \in Conn |-> FALSE]

Plain(kind) == [kind |-> kind, file |-> Torn]
Carrying(kind, contents) == [kind |-> kind, file |-> contents]

\* The client's reads find the end of the stream: the server closed its end,
\* or its process is gone, and everything it had sent has been read.
ServerGone(c) == up = "exited" \/ sock[c] = "closed"
AtEOF(c) == ServerGone(c) /\ toClient[c] = << >>

(* What send() does when the peer is gone.  The first send after the peer   *)
(* closed is still accepted; once a reset has come back it fails, or raises *)
(* SIGPIPE, which neither program handles, so that the process dies.        *)
SendResult(peerGone) == IF peerGone THEN {"ok", "error", "sigpipe"} ELSE {"ok"}

\* The stream of c after sending it some units; a dead client reads nothing.
Sent(c, units) ==
    toClient' = IF alive[c] THEN [toClient EXCEPT ![c] = @ \o units] ELSE toClient
=============================================================================
