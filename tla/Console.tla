------------------------------- MODULE Console -------------------------------
(***************************************************************************)
(* The server's main thread as its operator sees it: server/shell.c with   *)
(* socket.c and utils.c, and the handlers of cmd_handlers.c that work on   *)
(* the server's own player.  Lines are split into words and dispatched;    *)
(* signals arrive at any moment; the player goes on in a thread of its     *)
(* library.  Sending a song to clients is the concern of ServerThreads:    *)
(* here a play with clients returns, waits for ever, or ends the process,  *)
(* as the worker threads may at any moment.                                *)
(*                                                                         *)
(* The build is the Makefile's, with SERVER_NOPLAY: the server has a       *)
(* player only once it played without clients, and does not start it.      *)
(***************************************************************************)
EXTENDS Player, SequencesExt

CONSTANTS
    Lines,         \* what the operator may type: sequences of words and spaces
    INT_MAX,       \* the largest int: limits.h
    MaxAddresses,  \* bound: the addresses getaddrinfo finds for the server
    MaxClients     \* bound: the clients of a session

\* A word is its text, unless it is digits, or digits and a percent sign: then
\* only the value of the digits counts.
Word(text) == [text |-> text, form |-> "text", value |-> 0]
Ticks(n) == [text |-> "", form |-> "digits", value |-> n]
Percent(n) == [text |-> "", form |-> "percent", value |-> n]
Space == Word(" ")
EOF == << Word("^D") >>
Tokens == [text : STRING, form : {"text", "digits", "percent"}, value : Nat]

\* There is a space between two words.
ASSUME ConsoleAssumption ==
    /\ Lines \subseteq Seq(Tokens)
    /\ \A l \in Lines : \A i \in 1 .. Len(l) - 1 : Space \in {l[i], l[i + 1]}
    /\ INT_MAX \in Nat /\ INT_MAX >= 32767
    /\ MaxAddresses \in Nat
    /\ MaxClients \in Nat
    /\ Songs \subseteq STRING

VARIABLES
    pc,                   \* where the main thread is
    sockfd,               \* "none", "socket", or "stdout"
    line,                 \* the line being handled
    args, nwords,         \* what parse_line makes of it
    called,               \* the command called for it, with its argument
    mfile,                \* the song loaded, or ""
    nclients,             \* clients->len
    served,               \* some connection was given a worker thread
    accepting_clients,
    barrier_initialized,
    player,               \* the server's own player
    sigwinch_received,
    freed,                \* the list of clients that handle_quit frees is freed
    end                   \* how the process ended, or "running"

lineVars == << line, args, nwords, called >>
songVars == << mfile, nclients, served, accepting_clients, barrier_initialized >>
processVars == << sockfd, sigwinch_received, freed, end >>
vars == << pc, lineVars, songVars, player, processVars >>

TypeOK ==
    /\ pc \in {"setup", "select", "line", "call", "barrier", "reconnect", "quit", "ended"}
    /\ sockfd \in {"none", "socket", "stdout"}
    /\ line \in Lines \cup {<< >>}
    /\ nwords \in Nat /\ Len(args) <= nwords
    /\ mfile \in Songs \cup {""}
    /\ nclients \in 0 .. MaxClients
    /\ served \in BOOLEAN
    /\ accepting_clients \in BOOLEAN
    /\ barrier_initialized \in BOOLEAN
    /\ player = NoPlayer \/ player \in Players
    /\ sigwinch_received \in BOOLEAN
    /\ freed \in BOOLEAN
    /\ end \in {"running", "quit", "setup", "select", "parse", "play", "worker", "crash"}
    /\ (pc = "ended") <=> (end # "running")

Init ==
    /\ pc = "setup" /\ sockfd = "none"
    /\ line = << >> /\ args = << >> /\ nwords = 0 /\ called = << >>
    /\ mfile = "" /\ nclients = 0 /\ served = FALSE
    /\ accepting_clients = TRUE /\ barrier_initialized = FALSE
    /\ player = NoPlayer
    /\ sigwinch_received = FALSE /\ freed = FALSE /\ end = "running"

\* Back to select(), after session_cleanup; or the process is over.
Returns ==
    /\ pc' = "select"
    /\ line' = << >> /\ args' = << >> /\ nwords' = 0 /\ called' = << >>
    /\ UNCHANGED end

Ends(how) == pc' = "ended" /\ end' = how /\ UNCHANGED lineVars

-----------------------------------------------------------------------------
(* The start of the program, its signals and its socket.                    *)

\* What may become of an address: setup_server tries the next one when no
\* socket can be made for it or bound to it, and gives up on other failures.
Fates == {"socket", "setsockopt", "bind", "listen", "ok"}

Listens(fates) ==
    \E i \in DOMAIN fates :
        fates[i] = "ok" /\ \A j \in 1 .. i - 1 : fates[j] \in {"socket", "bind"}

\* When getaddrinfo fails setup_server returns 1, and main goes on with that:
\* it is the descriptor of the standard output.
setup_server ==
    /\ pc = "setup"
    /\ \/ sockfd' = "stdout" /\ Returns
       \/ \E fates \in UNION {[1 .. n -> Fates] : n \in 1 .. MaxAddresses} :
             IF Listens(fates)
             THEN sockfd' = "socket" /\ Returns
             ELSE UNCHANGED sockfd /\ Ends("setup")
    /\ UNCHANGED << songVars, player, sigwinch_received, freed >>

\* The window changes its size: the handler sets a flag, but select() has been
\* interrupted if main was waiting in it, and main takes that for a failure.
Resize ==
    /\ pc \notin {"setup", "ended"}
    /\ sigwinch_received' = TRUE
    /\ IF pc = "select" THEN Ends("select") ELSE UNCHANGED << pc, lineVars, end >>
    /\ UNCHANGED << songVars, player, sockfd, freed >>

\* select() returns for another reason, and the flag is seen.
Selected(fd) ==
    /\ pc = "select"
    /\ fd
    /\ sigwinch_received' = FALSE

\* handle_quit goes through the list of clients and frees it.  When that is
\* freed already, by reconnect or by a quit that ^C interrupts, the C library
\* may notice or not.
ShellExit ==
    /\ freed' = TRUE
    /\ \/ Ends("quit")
       \/ freed /\ Ends("crash")

\* ^C runs shell_exit in the signal handler, wherever main is.
Interrupt ==
    /\ pc \notin {"setup", "ended"}
    /\ ShellExit
    /\ UNCHANGED << songVars, player, sockfd, sigwinch_received >>

handle_socket ==
    /\ Selected(sockfd = "socket")
    /\ accepting_clients /\ nclients < MaxClients
    /\ nclients' = nclients + 1
    /\ served' = TRUE
    /\ UNCHANGED << pc, lineVars, mfile, accepting_clients, barrier_initialized,
                    player, sockfd, freed, end >>

(* A worker thread ends the whole process: it cannot open its file, it      *)
(* writes to a client that is gone, or its argument was freed by reconnect  *)
(* (WorkerFault of ServerThreads).  Threads outlive the list of clients.    *)
WorkerEnds ==
    /\ pc \notin {"setup", "ended"}
    /\ served
    /\ Ends("worker")
    /\ UNCHANGED << songVars, player, sockfd, sigwinch_received, freed >>

-----------------------------------------------------------------------------
(* A line, its words, and the command they name.                            *)

SpacesOf(l) == {i \in DOMAIN l : l[i] = Space}
WordsOf(l) == DOMAIN l \ SpacesOf(l)
WordAt(l, n) == CHOOSE i \in WordsOf(l) : Cardinality({j \in WordsOf(l) : j <= i}) = n

Words(l) == [n \in 1 .. Cardinality(WordsOf(l)) |-> l[WordAt(l, n)]]
count_words(l) == Cardinality(SpacesOf(l)) + 1

\* An empty line does nothing: Lines need not have it.
cb_linehandler(l) ==
    /\ Selected(TRUE)
    /\ IF l = EOF
       THEN ShellExit
       ELSE /\ pc' = "line"
            /\ line' = l
            /\ args' = Words(l)
            /\ nwords' = count_words(l)
            /\ UNCHANGED << called, freed, end >>
    /\ UNCHANGED << songVars, player, sockfd >>

Plain == {"play", "pause", "resume", "restart", "loop", "noloop", "status",
          "quit", "exit", "reconnect", "help"}
WithArgument == {"load", "seek"}

\* The name of a command compares equal to the first word.
Named(names) == pc = "line" /\ args # << >> /\ args[1].text \in names

MissingArgument_OffByOne == nwords <= 2
MissingArgument_Never == nwords < 1
MissingArgument == nwords < 2

\* args[1], which parse_line has not set when the line has more spaces than
\* its words need: it is whatever malloc() finds there, a string or not.
Uninitialised == Len(args) < 2
AnyWord == UNION {ToSet(Words(l)) : l \in Lines}

Calls(command) ==
    /\ pc' = "call"
    /\ called' = command
    /\ UNCHANGED << line, args, nwords, end >>

Dispatch ==
    /\ \/ Named(Plain) /\ Calls(<< args[1].text >>)
       \/ Named(WithArgument) /\ ~MissingArgument /\
            \E arg \in IF Uninitialised THEN AnyWord ELSE {args[2]} :
                Calls(<< args[1].text, arg >>)
       \/ Named(WithArgument) /\ ~MissingArgument /\ Uninitialised /\ Ends("crash")
    /\ UNCHANGED << songVars, player, sockfd, sigwinch_received, freed >>

\* "command not found", also for a command whose argument is missing; but
\* strcmp() is given NULL when the line has no word at all.
NotFound ==
    /\ \/ Named(WithArgument) /\ MissingArgument /\ Returns
       \/ pc = "line" /\ args # << >> /\ ~Named(Plain \cup WithArgument) /\ Returns
       \/ pc = "line" /\ args = << >> /\ Ends("crash")
    /\ UNCHANGED << songVars, player, sockfd, sigwinch_received, freed >>

-----------------------------------------------------------------------------
(* The handlers.                                                            *)

Runs(name) ==
    /\ pc = "call" /\ called[1] = name
    /\ UNCHANGED << sockfd, sigwinch_received >>

\* What is no MIDI file leaves the song; one that cannot be opened takes it
\* away, and one that does not parse ends the process.
handle_load ==
    /\ Runs("load")
    /\ IF called[2].text \in Songs
       THEN \/ mfile' \in {called[2].text, ""} /\ Returns
            \/ UNCHANGED mfile /\ Ends("parse")
       ELSE UNCHANGED mfile /\ Returns
    /\ UNCHANGED << nclients, served, accepting_clients, barrier_initialized, player, freed >>

(* With clients the song is split and written, which may end the process    *)
(* (CreateFails of ServerThreads).  Then main waits at the barrier: after   *)
(* the first play, or when a worker has failed, the wait has no end.        *)
handle_play ==
    /\ Runs("play")
    /\ IF mfile = "" THEN Returns /\ UNCHANGED << songVars, player >>
       ELSE IF nclients = 0
       THEN /\ player' = player_add(player_setup(player), mfile)
            /\ Returns
            /\ UNCHANGED songVars
       ELSE /\ accepting_clients' = FALSE
            /\ \/ barrier_initialized' = TRUE /\ Returns
               \/ barrier_initialized' = TRUE /\ pc' = "barrier" /\ UNCHANGED << lineVars, end >>
               \/ UNCHANGED barrier_initialized /\ Ends("play")
            /\ UNCHANGED << mfile, nclients, served, player >>
    /\ UNCHANGED freed

\* A handler that only hands its command to FluidSynth, which is given NULL
\* before the server has played.
Controls(name, controlled) ==
    /\ Runs(name)
    /\ IF player = NoPlayer
       THEN Ends("crash") /\ UNCHANGED player
       ELSE Returns /\ player' = controlled
    /\ UNCHANGED << songVars, freed >>

handle_pause == Controls("pause", player_pause(player))
handle_resume == Controls("resume", player_play(player))
handle_loop == Controls("loop", player_setloop(player, 1))
handle_noloop == Controls("noloop", player_setloop(player, 0))
handle_restart == Controls("restart", player_restart(player))

\* An int wraps around; its division drops the fraction.
AsInt(n) == ((n + INT_MAX + 1) % (2 * (INT_MAX + 1))) - (INT_MAX + 1)
Quotient(n, d) == IF n < 0 THEN -((-n) \div d) ELSE n \div d

TickOf_DividesFirst(percent, total) == percent * Quotient(total, 100)
TickOf(percent, total) == Quotient(AsInt(percent * total), 100)

\* What is neither digits nor a percentage up to 100 is refused.
handle_seek ==
    LET arg == called[2] IN
    \/ arg.form = "percent" /\ AsInt(arg.value) \in 0 .. 100
         /\ Controls("seek", player_seek(player, TickOf(AsInt(arg.value), player_get_total_ticks(player))))
    \/ arg.form = "digits" /\ Controls("seek", player_seek(player, AsInt(arg.value)))
    \/ /\ arg.form = "text" \/ (arg.form = "percent" /\ AsInt(arg.value) \notin 0 .. 100)
       /\ Runs("seek")
       /\ Returns
       /\ UNCHANGED << songVars, player, freed >>

\* The position is divided by the length of the song, when there is a player.
handle_status ==
    /\ Runs("status")
    /\ IF player_get_status(player) # -1 /\ player_get_total_ticks(player) = 0
       THEN Ends("crash")
       ELSE Returns
    /\ UNCHANGED << songVars, player, freed >>

\* reconnect frees the list of clients, and then makes a new one: between the
\* two clients points to what is freed.
handle_reconnect ==
    /\ Runs("reconnect")
    /\ freed' = TRUE
    /\ pc' = "reconnect"
    /\ UNCHANGED << lineVars, songVars, player, end >>

setup_connections ==
    /\ pc = "reconnect"
    /\ freed' = FALSE
    /\ nclients' = 0
    /\ accepting_clients' = TRUE
    /\ Returns
    /\ UNCHANGED << mfile, served, barrier_initialized, player, sockfd, sigwinch_received >>

handle_help ==
    /\ Runs("help")
    /\ Returns
    /\ UNCHANGED << songVars, player, freed >>

\* ^C may come between the frees and the end of the program.
handle_quit ==
    /\ Runs("quit") \/ Runs("exit")
    /\ freed' = TRUE
    /\ pc' = "quit"
    /\ UNCHANGED << lineVars, songVars, player, end >>

\* player_cleanup, running = 0, and the loop of main is left.
LeaveLoop ==
    /\ pc = "quit"
    /\ Ends("quit")
    /\ UNCHANGED << songVars, player, sockfd, sigwinch_received, freed >>

\* The thread of FluidSynth; what it is about to do after the last song has
\* been seen to leave a player without ticks.
PlayerGoesOn ==
    /\ pc # "ended"
    /\ player # NoPlayer /\ player.status = "playing"
    /\ \/ player' = Advance(player)
       \/ Advance(player).status = "done" /\ player' = Forgets(Advance(player))
    /\ UNCHANGED << pc, lineVars, songVars, processVars >>

Handler ==
    \/ handle_load \/ handle_play \/ handle_pause \/ handle_resume
    \/ handle_restart \/ handle_loop \/ handle_noloop \/ handle_status
    \/ handle_quit \/ handle_reconnect \/ handle_help
    \/ pc = "call" /\ called[1] = "seek" /\ handle_seek

Next ==
    \/ setup_server \/ handle_socket \/ Resize \/ Interrupt \/ WorkerEnds
    \/ \E l \in Lines : cb_linehandler(l)
    \/ Dispatch \/ NotFound \/ Handler
    \/ setup_connections \/ LeaveLoop \/ PlayerGoesOn

Spec == Init /\ [][Next]_vars

-----------------------------------------------------------------------------
(* Properties.                                                              *)

\* However many spaces separate them, the first two words of a line are the
\* command that is called and its argument; and a line whose command exists
\* and has the argument it needs is never refused (shell.c:117-145,
\* utils.c:41-62).
CommandsAsTyped ==
    [][ pc = "line" => LET words == Words(line) IN
          /\ pc' = "call" =>
                /\ called'[1] = words[1].text
                /\ Len(words) >= 2 => called' = << words[1].text >> \/ called'[2] = words[2]
          /\ pc' = "select" =>
                /\ words[1].text \notin Plain
                /\ words[1].text \in WithArgument => Len(words) = 1 ]_vars

\* A seek to a percentage sends the player to a tick of its song, the last one
\* that is not past the percentage, as long as a hundred times the length of
\* the song is an int (cmd_handlers.c:222-229).
SeeksWhereAsked ==
    [][ /\ pc = "call" /\ called[1] = "seek" /\ pc' = "select"
        /\ called[2].form = "percent" /\ called[2].value <= 100
        /\ player.total * 100 <= INT_MAX
        => /\ player'.seek \in 0 .. player.total
           /\ player'.seek * 100 <= called[2].value * player.total
           /\ called[2].value * player.total < (player'.seek + 1) * 100 ]_vars

(* The process ends other than by quit only for one of these reasons: a     *)
(* resize during select(), no address to listen on, a song that does not    *)
(* parse, a play that has clients to send to, a thread that serves or       *)
(* served one, a list of clients freed a second time, a command for a       *)
(* player that is not there, a position in a song of no ticks, and a line   *)
(* without the words its spaces promise (shell.c:118, 139, 187,             *)
(* midi_reader.c:371-376, cmd_handlers.c:107, 143-169, 180-208, 275, 295).  *)
FailsOnlyWhere ==
    /\ TypeOK
    /\ end = "select" => sigwinch_received
    /\ end = "setup" => sockfd = "none"
    /\ end = "parse" => called # << >> /\ called[1] = "load" /\ called[2].text \in Songs
    /\ end = "play" => called = << "play" >> /\ mfile # "" /\ nclients > 0
    /\ end = "worker" => served
    /\ end = "crash" =>
          \/ freed
          \/ player = NoPlayer /\ called # << >>
                /\ called[1] \in {"pause", "resume", "loop", "noloop", "restart", "seek"}
          \/ called = << "status" >> /\ player # NoPlayer /\ player.total = 0
          \/ Len(args) < nwords /\ Len(args) < 2
=============================================================================
