# Orchestra: a TLA+ model of MKS65-symphony

The program plays a MIDI file on several computers at once. A *server* loads the
file, splits its tracks over the clients connected to it, sends each *client* its
part, and starts all of them together. The repository also keeps libsmf, a library
for songs in memory, with its own shell. This directory holds TLA+ modules that model them, TLC configurations that check them on small instances, and
TLAPS proofs of the results that hold for any number of clients.

## 1. Inventory: the parts of the program

| Part | Source | State it keeps | Operations | Interacts through |
|---|---|---|---|---|
| Main thread of the server | `server/shell.c`, `server/cmd_handlers.c`, `server/socket.c` | `accepting_clients`, `tid`, the list `clients`, `mfile`, `midi_ready`, `barrier_initialized`, `sigwinch_received` | `setup_server`, `select` loop, `handle_*`, `sighandler` | shared variables, a mutex with its condition variable, a barrier, files in `tmp/` |
| Worker threads | `server/server_thread.c` | `my_id`, the open socket, the size of the file | greet, wait for the files, send the file, receive the answer, wait at the barrier, send PLAY | the same, and one TCP stream each |
| Client | `client/client.c`, `client/socket_client.c` | `sbuf`, `fbuff`, the player | connect, confirm, execute one-byte commands | its TCP stream |
| Wire protocol | `client_protocol.h` | none | greeting, NFILE with size and data, the answer, PLAY, and six commands no server sends | |
| MIDI reader | `server/midi_reader.c`, `server/midifile.c` | `Mf_toberead`, `Mf_currtime`, message buffer, the `Mfile` being built | `mfread`, handlers of the events | callbacks |
| MIDI writer | `server/midi_writer.c`, `server/midifile.c` | `laststatus`, `Mf_numbyteswritten` | `mfwrite`, `mf_write_midi_event`, `mf_write_meta_event` | callbacks |
| MIDI data | `server/midi.c` | lists of events | `append_mevent`, copies | |
| Splitter | `server/midi_splitter.c` | none | `Mfile_split_by_tracks`, `track_num_map` | |
| Player | `*/midi_player.c` | one FluidSynth player | setup, add, play, pause, loop, seek, status | FluidSynth, and its thread |
| Command line | `server/utils.c`, `cb_linehandler` | `args` | `parse_line`, dispatch | |
| libsmf | `exp/libsmf-1.3/src/smf.c`, `smf_tempo.c` | tracks, events, the tempo map, the position | functions that edit, play and seek | |
| libsmf's files | `smf_load.c`, `smf_save.c`, `smf_decode.c` | a buffer | `smf_load`, `smf_save`, which reads back what it wrote | the file |
| libsmf's shell | `smfsh.c` | `smf`, `selected_track`, `selected_event` | commands by number or on what is selected | the library |

**What is hard.** The main thread, the workers and the clients run concurrently;
`midi_ready` is reset outside its mutex (`cmd_handlers.c:376`); the barrier is
initialised by the main thread while workers may already be on their way to it, once
in the life of the process, with the number of clients of that moment; a client may
die at any point of the transfer; `^C` runs the quit handler on top of whatever the
main thread is doing; `reconnect` forgets threads that keep running; TCP cuts what is
sent where it likes, and only one of the client's five reads asks again. Nothing has a
timeout. Nothing is persisted but the files in `tmp/`, which are rewritten at each play.
libsmf keeps most things twice (an event's number and its place, pulses and deltas and
seconds, a tempo map beside the tempo events, a position that is an event's number and a
copy of its time), and updates the copies by hand in each function.

**What makes each part correct.**

- *Synchronisation*: no wakeup is lost; nobody waits at an uninitialised barrier;
  nobody leaves it early; the prompt comes back after `play`; `quit` does not hang.
- *Session*: the roster does not change once the barrier has counted it; each
  part has exactly one reader; everybody holds its part, of the same play, before
  anybody starts; a client that is turned away stays silent.
- *Protocol*: the client finds on the stream what it is about to read; a worker
  reaches the barrier only when its client has the file; whatever the server sends is
  done, once and in order, however the file was cut.
- *Prompt*: the command that runs, and its argument, are what was typed; a percentage is
  the tick it says; the process ends other than by `quit` only in known cases.
- *MIDI*: the parts together are the song; what the writer writes is what the
  reader had read.
- *libsmf*: the copies agree after any sequence of calls; the tempo map tells the time the
  events tell; songs play in order; what is saved is read back as it was.

## 2. Modules

| Module | Models | Composes |
|---|---|---|
| `Connection` | the TCP stream between one client and its worker: ordered units, end of stream, reset, SIGPIPE | |
| `ServerThreads` | the main thread and the workers, one action per step between two synchronisation points | `Connection` |
| `PlayClient` | the client program, as one of many | `Connection` |
| `Concert` | abstract specification: players join, the roster closes, all report, all play | |
| `Orchestra` | server and clients together; their properties; the refinement of `Concert` | `ServerThreads`, `PlayClient`, `Concert` |
| `Remote` | one client and its server on a stream of bytes, with every command of the protocol | |
| `Player` | `midi_player.c` over FluidSynth, as operators on a player | |
| `Console` | the server's prompt: set-up, lines, words, dispatch, signals, the commands for its own player | `Player` |
| `Splitter` | `Mfile_split_by_tracks`: which tracks go into which client's part | |
| `Smf` | Standard MIDI Files: songs, and all the files that hold one | |
| `MidiReader` | `mfread` and the callbacks that build the tracks, one event per action | `Smf` |
| `MidiWriter` | `mfwrite` and its helpers, one event per action | `Smf` |
| `MidiPath` | a song on its way through the server: loaded, copied into a part, written | `MidiReader`, `MidiWriter` |
| `SongData` | libsmf's functions as operators, from a song to a song | |
| `Song` | a program that calls them in any order | `SongData` |
| `SongFile` | the bytes libsmf writes and reads; a program that edits, saves and loads | `SongData` |
| `Smfsh` | libsmf's shell | `SongData` |
| `MCOrchestra`, `MCRemote`, `MCConsole`, `MCSplitter`, `MCMidiPath`, `MCSong`, `MCSongFile`, `MCSmfsh` | instances for TLC | |
| `Orchestra_proofs` | theorems about every session: types, mutex, wakeups, barrier | `Orchestra`, `TLAPS` |
| `Stream_proofs` | theorems about what is on its way between server and clients | `Orchestra_proofs` |
| `Concert_proofs` | theorems about a session in which nobody reconnects, and that it implements `Concert` | `Stream_proofs` |
| `Splitter_proofs` | theorems about `Splitter` | `Splitter`, `TLAPS` |
| `Console_proofs` | theorems about `Console` and `Player` | `Console`, `TLAPS` |
| `SongData_proofs` | lemmas: what libsmf's functions leave alone, what they keep of a song's order, of its position, of its tempo map and of its events' times, and where a seek lands | `SongData`, `TLAPS` |
| `Song_proofs` | theorems about `Song`: the order of the events, the assertions that can fail, the order of play, where a seek lands | `Song`, `SongData_proofs` |
| `Smfsh_proofs` | theorems about `Smfsh`: the tracks and the format, and the selection | `Smfsh`, `SongData_proofs` |

`Orchestra`, `Splitter` and `MidiPath` meet in `handle_play`: what `OpenOut`,
`FillOut` and `CreateFails` of `ServerThreads` do (a file of part i is written, or the server ends) is the whole of a
run of `Splitter` followed by that of `MidiWriter`. They are checked apart, because nothing
that happens inside them depends on another thread. `Remote` and `PlayClient` are the same
program twice: many clients with whole units, and one client with bytes. `Console` and
`ServerThreads` are the same thread twice: in `Console` a play with clients returns, waits for ever or ends the process, and so
may a worker thread at any moment (`WorkerEnds`, once a connection was `served`); when they do is what `ServerThreads` is about.

### How the state corresponds to the code

- `main` and `wpc[c]` say where the main thread and the worker of connection `c` are.
  An action is what a thread does between two points where another can interfere:
  a lock, an unlock, a wait, a `send`, a `recv`, an access to a shared variable or
  to a file. `accepting_clients`, `tid`, `clients`, `midi_ready`,
  `barrier_initialized` are the variables of `cmd_handlers.c`. `tid` is both the
  counter and, copied to `wtid[c]`, the worker's `my_id`.
- `owner` is the holder of `midi_ready_cond_mutex`; a worker in `"sleep"` is in
  `pthread_cond_wait`; `barrier_in` are the threads blocked in
  `pthread_barrier_wait` and `barrier_count` the count it was initialised with.
- `files` maps part numbers to contents. Contents are abstracted to the number of
  the play that wrote them, which stands for the song loaded and the number of
  parts at that time, or `Torn`. `OpenOut` truncates, `FillOut` completes: the writer never
  closes the file, but its last operation on every track is an `fseek`
  (`midifile.c:710`), which flushes, so that the bytes are there when `mfwrite` returns.
- `toClient[c]` is what the server has sent and the client has not read;
  `toServer[c]` the client's one-byte answer, whose value nobody looks at.
- `sock[c]` is the server's end of the connection, `alive[c]` the client process,
  `up` the server process, which is `"hung"` when quit blocks in
  `pthread_cond_destroy` or `pthread_barrier_destroy`.
- `sbuf`, `fbuff` are the client's variables; `playing` says its player was started with a file.

In `Splitter`, a track is its index in the song. `format`, `ntracks` and `nread` are what the
header announces and what the reader found: fewer tracks than announced leave NULL pointers.
`parts` grows by one part per round of the loop over the clients, `Sources(i)` are the
indices that round reads from `src->tracks`, and reading one beyond the array gives `Unknown`
or a crash. The splitter sees numbers of tracks from a 16-bit field, so that no C integer of it overflows.

In the MIDI modules a file is its bytes. `pos` is the reader's position, `Mf_toberead`,
`Mf_currtime` and `status` are the variables of `midifile.c`; `sysexcontinue` and the merging of
continued messages are left out, because `Mf_nomerge` is 0 and no caller sets it. A round of
the loop of `readtrack` with the callback it calls is one action, since nothing else runs.
`cur_track` is the `Mtrack` being built, with the absolute times and the deltas that `append_mevent`
computes. In the writer `out` is the file, `offset` and `Mf_numbyteswritten` are what patches
the length of a chunk afterwards, `laststatus` decides whether a status byte is left out. Texts
are data like any other. `strdup` of a message with a zero byte in it leaves
`Garbage` after that byte. `IoFault` says whether a read or a write may fail.

**The environment.** `Fault` chooses which failures can happen: `"client"` (a client process dies at
any moment), `"disk"` (files of `tmp/` cannot be written or read), `"midi"` (a file does
not parse, or is of format 0 and cannot be split), `"wakeup"` (spurious wakeups).
`Command` chooses what the operator does. Undefined behaviour is a choice: destroying a
condition variable in use returns or hangs; a worker whose argument `reconnect` has freed
(`server_thread.c:35`) goes on or takes the process down; `recvall` with nothing to
receive returns an uninitialised `n`, and so does `sendall` with nothing to send (`SendDataFails`). `Mfile_from_headers`
(`midi.c:14-23`) and `Mevent_copy` (`midi.c:48-54`) have no return statements, so that what their callers take for the new
song or event is undefined: `SplitCrashes` may happen at any part in `Splitter` and to any song in `MidiPath`, and
`CreateFails` stands for it in `ServerThreads`. Where a split goes on, in `Copied` and in the runs without failures (`start`,
`reconnect`, `second_play`), the build happens to return the pointer.

In `Remote`, `stream` is a sequence of pieces of bytes: a read returns some of the pieces that have come, up to
what was asked, so that what was sent by two calls may be read by one and the other way round. `split` is history: a unit
that the client reads with one call was delivered in two pieces. Then a tick or a size may be
read half, and its rest taken for commands; nothing more is promised (`Obeys`, `EverythingObeyed`).
Files may be cut anywhere. `calls` are the calls of `midi_player.c` with their arguments.

In `Console`, a line is a sequence of words and spaces, a word is its text, or the value of its digits.
`nwords` is the number of spaces plus one, and `args` the words there are: the rest of the array `parse_line` returns is
uninitialised, and `args[1]` is then any word or a crash. `called` is the handler that runs, with its
argument. `end` says how the process ended: by `quit`, for want of an address (`"setup"`) or a readable descriptor (`"select"`), by a
file that does not parse (`"parse"`), in a play with clients (`"play"`), by a worker (`"worker"`), or by a crash. `reconnect` is two steps, so that
`^C` may come between the list that is freed (`freed`) and the new one. Songs of two lengths and an int of 16 bits (`INT_MAX`) make
the product in `handle_seek` overflow or not. FluidSynth is external: `Players` are the fields of
`exp/fluid_midi.h` that the programs set or read, and `Advance` is a step of its thread.

In `SongData` a song is a record with the fields of `smf_t`, a track one with those of
`smf_track_t`, an event one with those of `smf_event_t`; `failed` says which assertion has ended the program.
A function of the library is an operator from the song before to the song after. What the
library documents not to keep is history in `Song` (`stale`): the position after an edit, the seconds when tempo
changes coincide (`smf.c:613`), the track numbers of the events of a track that was attached with them.
Seconds are whole microseconds, and both conversions round down. The code computes seconds in doubles and truncates pulses to an
int (`smf_tempo.c:222`), so that in both the seconds of a pulse may lead to the pulse before: those of pulse 31 do, at
the 120 pulses and 500000 microseconds that are the defaults (`smf.c:73`, `smf_tempo.c:77`), and therefore the runs of
`Song` use just these values. What the model says of them was compared with a computation in doubles: every
second that is *added* in the runs leads to the same pulse. They differ in one place: after a tempo
change at 30 the double of pulse 31 leads to 31, and the microsecond to 30. `SecondsFollowTempos` allows both. How far a time may be from the exact
one is `Rounding`, a microsecond for each entry of the tempo map, since each starts from the rounded seconds of the one before.
`SongFile` has the tolerance of the check after a save, two pulses and a hundredth of a second (`smf_save.c:562-563`): its
tempos differ by so much that a song whose tempo map is stale passes it in one division and not in another. A write that
fails (`WriteFails`) leaves the file as it was, empty, or cut off between two chunks. In `Smfsh` a selection is the tag of an event and whether that event
is in a track, detached, or freed: using a freed one is what must not happen.

## 3. Runs

| Run | Instance | Shows |
|---|---|---|
| `session` | 3 connections, 2 plays, all failures; load, play, quit | what holds in one session whatever fails: nobody, main included, leaves the barrier early, each file has one reader, and the session implements `Concert`'s safety |
| `start` | 3 connections, 1 play, no failure | the prompt returns, every connection is answered; the session implements `Concert` with its fairness, so that every client plays |
| `reconnect` | 3 connections, 2 plays, no failure; all commands and `^C` | what survives `reconnect`: a worker at the barrier means a client with its file |
| `second_play` | 1 connection, 2 plays | **violation** of `PlayReturns`: the workers have ended, and main waits for ever |
| `remote` | what the server sends (with a second file), and a session of the other commands; streams cut anywhere; the server may die | the client does what it is sent, once and in order, files cut in any way included; and it comes to do all of it |
| `console` | 27 lines with one, two or too many spaces, good and bad arguments; 2 songs; signals at any time | lines are dispatched as typed; a percentage is the right tick while the product is an int; the process ends other than by `quit` only in the cases `FailsOnlyWhere` names |
| `split` | songs of up to 9 tracks, complete or not, all formats, up to 8 clients | no track is lost or played twice, the parts are even, every part has the tempo map and something to play |
| `midi` | songs of up to 2 tracks and 3 common events (notes on two channels, a 1-byte message, a text), and of 1 track with 2 of any (also a pitch bend, a system exclusive and a passed-through message, a rest at the start); every file of each; I/O failures | every song is loaded in time and with its data; unless the split crashes, what is written for a song of common events is a file of that song, with the pitch bends and the rests at the start changed as section 4 says |
| `edit` | a song of up to 2 tracks and 3 events (notes, tempo changes, ends of track), edited by every function that does; at 120 pulses to the quarter note, with a tempo of 500000 and one of 250000 microseconds | the copies stay consistent, the tempo map kept up entry by entry tells the time the events do up to rounding, and an end of track stays last while seconds are those of a pulse |
| `play` | the same with playing, rewinding and seeking between the edits | nothing is played before something earlier, seeks land, and assertions fail only after the edits that are named |
| `file` | a program that edits, saves twice and loads; files of one and two tracks in every encoding, with an alien chunk, and broken ones; writes that fail, leaving any part of the file | exactly the songs that can be read back within the tolerance of the check are saved, loading keeps all events with their times, wherever the tempo changes are |
| `shell` | 2 tracks, 2 events, files of 0 to 2 tracks in either format, arguments that fit or not | no command uses an event that was freed; numbers find what is selected; a song of format 0 keeps to one track |

The type invariants are checked with the first invariant of each run: `TypeOK` is a conjunct of `Obeys`,
`FailsOnlyWhere`, `ReadInTime`, `SecondsFollowTempos`, `LoadedAlike` and `SelectionHolds`.
`MutexDiscipline` and `Splitter!TypeOK` are proved, for every instance, instead of checked on one.

**Bounds.** Three connections are what is needed for one worker to be late, one to be gone
and one to be turned away at the same time, or for two sessions of different sizes. Two plays
(`MaxPlays`) are what is needed for a file to be rewritten, for
`midi_ready` to be reset while it was set, and for a barrier to be used again. The runs of
safety properties use the symmetry of connections; the liveness runs do not.
Nine tracks and eight clients cover both ways of splitting with every remainder up to 7,
fewer, as many and more clients than tracks; the theorems cover the rest. Three MIDI events
are what is needed for a status byte that is left out after one that was not, and after a
meta event; the deltas 0, 128 and 16384 are written as one, two and three bytes, and 127
is the last of one byte. `MaxCalls` of `Remote` cuts off a client that repeats its last command for ever after
the server's end: six calls are more than a script has. In `Console`, two addresses are what is needed
for the first to be skipped, `MaxClients` = 1 tells a play with clients from one without; a hundred times 150 is an int
of 16 bits and a hundred times 400 is not. In `Song` and `Smfsh` two tracks are what is
needed to play from both and to renumber, three events for an insertion in the middle; the pulses 0, 30 and 31 and the seconds of the last two are a first place, one whose seconds lead back to it and one whose seconds do not; `MaxHand` is the number of events a
detached track may have. `MaxSaves` = 2 lets a song be saved, edited and saved over.
`CHECK_DEADLOCK FALSE`: the operator may stop typing and the processes may exit; a split, a transfer and a
library call end.

**Fairness.** `Orchestra!Fairness`: weak fairness of the main thread's steps, of the
acceptance of a pending connection, of each worker and of each client: the scheduler runs
every thread that can go on, and `select` reports a pending connection for as long as it
is not accepted. The operator, new connections and failures are not fair. The mutex needs no strong
fairness: without spurious wakeups, each thread takes it at most twice in a play.
`Remote!FairSpec`: weak fairness of the worker's sends and receives and of the client, which
run alone in their processes; that TCP delivers what was sent is part of what a read returns. The death of the server is not fair.

## 4. Disagreements with the documents

One has a run: after the first play, a second `play` blocks the main thread (`second_play`), though `PROPOSAL.md:135` has the operator load
another file. The models show the following as well, and the properties are stated so that
they say what does hold. Each can be seen by asking TLC for the stronger formula, which is named where it is not obvious.

- `reconnect` does not close the connections it forgets, though `shell.c:87` says "close all current clients and
  connect new ones": `\A c \in Workers \ clients : sock[c] = "closed"` is false in `reconnect`.
- After a play and a `reconnect`, `midi_ready` is still set (`cmd_handlers.c:95-101` does not reset it): a new worker sends a file of the
  play before while clients are still accepted, though `cmd_handlers.c:44` says "midi files are not
  generated until after all clients are connected".
- The barrier keeps the count of the first session (`cmd_handlers.c:153`), so that after a reconnect to more clients one may start before
  another has its file, also when every forgotten worker has finished: `PROPOSAL.md:2` has the computers play "together". And a
  worker that was forgotten before it got its file is still on its way to the barrier, where it counts as one of the
  new session. `StartTogether` is a property of `session`, and is false in `reconnect` for both reasons.
- A worker that `reconnect` forgot while it slept is woken by the next play and reads a file that a new client reads too:
  `PartsCovered`, which is about all workers, is a property of `session` only.
- The pulse of an end of track that is added at some seconds is rounded down (`smf_tempo.c:222`), so that at the seconds of
  the last event it may be put before it, though `smf.c:412` assumes that it is at the end, and `smf.c:517`
  says that adding one in the middle fails: `EotStaysLast` asks for seconds that are those of the pulse they lead to (`"seconds"` is not
  in `stale'`).
- A chunk that is no track costs the last one: `smf_load_from_memory` reads as many chunks as the header
  declares tracks (`smf_load.c:873`), though the warning says "ignoring this chunk" (`smf_load.c:688`). `LoadedAlike` asks for
  the tracks before it (`IsPrefix`).
- `quit` after a `reconnect` may hang, because forgotten threads sleep on the condition variable it destroys (`QuitNeverHangs`).
- A client that is turned away prints that its connection is confirmed: `confirm_connection`
  takes the end of the stream for a greeting (`socket_client.c:76`).
- In a format 2 song with as many clients as tracks, the first track is sent to nobody and one beyond the
  last is read (`midi_splitter.c:71`, against `midi_splitter.c:15-16`): `EveryTrackSent` is about format 1.
- The data bytes of a pitch bend are swapped when it is loaded (`midi_reader.c:193`): `AsRead` in `MidiPath`.
- A system exclusive message is written with its status byte twice (`midifile.c:264`): `PassedOn` leaves such songs out.
- The time before the first event of a track is lost (`midi.c:139`): `AsWritten` in `MidiPath`.
- A change of the window's size while `select` waits makes it fail, and the server ends (`shell.c:187`), though
  `shell.c:45` prepares for it.
- `setup_server` returns 1 when `getaddrinfo` fails (`socket.c:31`), and the main loop selects on standard output.
- A `load` of a file that cannot be read loses the song that was loaded.
- A second NFILE appends to the client's playlist, because `player_setup` is not called again (`client.c:111`). `loop`
  means one more time and not for ever (`fluid_midi.h:282`).
- `CLIENT_READY` (10) is never sent: the client answers 1, and the worker does not look at it.

## 5. Proofs

`Orchestra_proofs` proves, for any finite set of connections, any failures, any commands and
any number of plays:

- `TypeCorrect`: `Spec => []TypeOK`. `TypeOK` is almost inductive: `TypeInv` adds that while a
  file is being written its number is below the number of clients and the file exists.
- `MutexCorrect` and `WakeupCorrect`: `[]MutexDiscipline`, `[]NoLostWakeup`. The
  strengthening `SyncInv` is the mutex discipline and the fact that a sleeping worker means that
  `midi_ready` is unset or that the main thread is still between setting it and its
  broadcast; resetting it without the mutex is harmless because it only makes the first disjunct true.
- `BarrierCorrect`: `[]BarrierInitBeforeUse`. `BarrierInv` says that a worker past the
  condition variable, or `midi_ready` set with the mutex free, means an initialised barrier
  (the barrier is initialised inside the critical section that sets `midi_ready`), and that
  the threads in the barrier are exactly those whose program counter says so.

  `RosterInv`, proved there for later use, says that whoever is in the list has a worker and that the listed
  clients are numbered without a gap or a repetition, also after a reconnect (`Numbered`).

`Stream_proofs` proves, as generally, what holds of the bytes between the server and a client. `Protocol` is
the order of the units of a session (confirmation, command, size, data, command to play). `StreamInv` says of every
client that lives that the units on their way to it are those between the place in the protocol that its
worker has written up to (`Written`, from the worker's program counter) and the one the client has read up to
(`Consumed`, from the client's), and that an answer is on its way only when the client has its file and its worker
waits for it (`OnTrack`); or that nothing will come any more (`Ended`): the server has exited, the client was turned
away, or its worker failed while it waits for the rest of its file. A client without a worker has heard nothing.
It was model-checked on the instances of the runs `session` and `reconnect` first (so were the other invariants of this
section, on the instance of their run); every action preserves it, the failures included. From it:

- `InStepCorrect` (`[]InStep`): the head of the stream is the unit after `Consumed`.
- `DeliveryCorrect` (`[]BarrierMeansDelivered`): a worker at the barrier has read an answer, so that its client, if
  it lives, is past its file.
- `TurnedAwayCorrect` (`[]TurnedAwayIsSilent`): a client without a worker has heard nothing.

`Concert_proofs` proves, under the assumption that `"reconnect"` is not in `Command`, first what needs no stream:

- `ReleaseCorrect` (`[]ReleasedTogether`, main included), `RosterCorrect` (`RosterFrozen`) and
  `FileCorrect` (`FileStableWhileRead`). None is inductive. The strengthening `SessionInv` says that
  the list is exactly the connections that have a worker; that once the barrier is
  initialised nobody can join and its count is the length of the list and one for main; that
  `midi_ready` is unset while main writes files; and that, except while main itself is on its way
  to the barrier or in it, every worker is before the condition variable or past the barrier. So
  the arrival that completes the barrier finds the whole session in it (`FullMeansAll`, a counting
  argument over finite sets), and no worker reads a file while main is writing. `PlayersTogether` says that whoever is past the
  barrier was released with all the others, and `MainInv` the same of main: it is past its first play only when
  every worker of the session is past the barrier.
- `PartsCorrect` (`[]PartsCovered`): each file of a play has one reader among all workers, and no worker is let go to a file that was not
  made. `PartsInv` says that the files are numbered like the clients from the moment the first is opened, and that there is one
  for every worker when `midi_ready` is set; that a worker is one of the listed clients is `SessionInv`, and needs that
  nobody reconnects.
- `QuitCorrect`: `[]QuitNeverHangs`, if the operator does not press `^C` either: the handler of
  `^C` runs on top of any command.

and then, with what `Stream_proofs` says of the bytes on their way:

- `StartCorrect` (`[]StartTogether`). `FilesInv` says that the files of the server are those of
  the current play, complete except while main writes them; `ContentInv` that what a
  worker has measured, what is on its way to a client and what a client has stored is the whole
  file of the first play, the only one a worker sends; `PlayingInv` that the worker of a client that plays
  is done. A worker that is done was released, so that, with
  `ReleasedTogether`, every worker was, and with `BarrierMeansDelivered` every live client
  has stored its part.
- `ConcertCorrect`: `Spec => ConcertSafe`, the refinement. Every action of the session is shown to
  be an action of `Concert` under the mapping, or to leave its variables unchanged: `handle_socket` is a `Join`, the
  first play a `Close`, every arrival an `Arrive`, and the client's command to play a `Play`.

The assumption is needed: section 4 says what happens after a reconnect.

`Splitter_proofs` proves, for songs of any number of tracks and any number of clients:
`SplitTyped` (`[]TypeOK`), `NothingLost` (`[]EveryTrackSent`), `NothingTwice`
(`[]NoTrackTwice`), `SharedEvenly` (`[]EvenParts`) and `TempoMapFirst` (`[]InTime`). The inductive invariant `SplitInv` says that part i, once made, is `Sources(i)`
or the one read beyond the array, and that a split that is done has made all of its parts. What remains
is arithmetic: every t < n is i + d * k for i = t % k and d = t \div k, d is below the number that
`track_num_map` gives to i, and no other pair gives t. These facts of `\div` and `%` are lemmas.
The last two are about every part made so far: its length is the quotient or one more, and no number dealt is below that of the
first track or beyond the last.

`Console_proofs` proves, for any lines in which two words have a space between them, any songs
and any size of an int that the C standard allows:

- `FailuresCorrect` (`[]FailsOnlyWhere`): the process ends other than by `quit` only for the reasons named, each with the state it needs
  (a song that was to be loaded, a play with clients, a connection that was served). `ConsoleInv` adds what the variables of a line are while it
  is dispatched (`args` are its words, `nwords` its spaces and one) and while a handler runs (`called` is one of the
  commands, with its argument), and that a player that plays has something to play. The bound on `args`
  is about every line, however long: `WordsFit` maps each word but the first to the space
  before it. A player stays a player through `Advance`, whatever it is told meanwhile.
- `CommandsCorrect` (`CommandsAsTyped`): a line with fewer spaces than an argument needs has, by the same
  lemma, no argument.
- `SeekCorrect` (`SeeksWhereAsked`): `AsInt` is the identity below `INT_MAX` (`IntTyped`), and the
  quotient is then in the song, so that FluidSynth does not refuse it.

The words of a line are defined by their places (`WordAt`), for the provers cannot expand
`SelectSeq`; that there is an n-th word for every n up to the number of them (`Nth`) is a least-number argument.

`SongData_proofs` has one lemma per function of libsmf that says what the function leaves of a song. `Alike` is
the outline: which tracks there are, their numbers, the format. `Same` adds every event, but for its seconds: this is what
the functions that play, seek and keep the tempo map leave, those that loop over a song included. `Keeps` is what adding and
removing promise: if the events of every track were in order (`InOrder`: pulses, deltas and places) they
are, and if their copies of the track's number were right (`Owned`) they are. The lemma it rests on is
`SortInserts`: where `smf_track_add_event` sorts a track, one new event is out of place, and sorting by
ranks is then an insertion. The events before the place are those that come earlier, so that the number of events that
precede each is found by counting. The last lemmas are about what the library asserts. `Placed`: the position of
every track is on an event the track has. `Begun`: the first entry of the tempo map is at 0. `Steady` is what holds
at all times: the order, that the tempo map is a sequence, and that a track without events has no next one. Going
through a song (`smf_get_next_event` and its loops) needs `Placed` and keeps it; adding and removing keep `Begun`, but for
`smf_event_remove_from_track` on a tempo change at 0; and both are made anew by `smf_create_tempo_map_and_compute_seconds`.
`Placed` says besides that nothing past in one track is later than anything ahead in another (`Behind`).
`LengthReached` and `PlacedLast` say that `smf_event_is_last` takes that way for a tempo change before
the end of the song also when the event has pushed an end of track out.

Two parts are about time. `SeekLands`: a seek goes through the song from the start and stops at the first event
that is not before the place, so that, played in order, what is left is what is not before it. For seconds that needs the
events' times to follow their pulses, and this is what `Synced` is for: the map is `Linked` (every entry is
later than the one before it, and is at the second that the one before it leads to), every event is at the
second that the map tells (`InStep`), and every entry but the first is at a change in the song (`Known`). From `Linked`
follows that time grows with the pulses (`TimeGrows`), and that two maps that agree up to a place tell the same time there
(`SameTime`). Every function keeps `Synced` or says when it does not: an event that is added gets the time that the map tells;
a change appended at the end adds an entry that no other event feels; one that is popped must
be the only one at its place (`Alone`) and not the first entry; a change in the middle has everything made anew. `Known` keeps
the last entry from being beyond the end of the song, where the next change is appended. For all of this an event is its `Mark`, what it is and when; where it stands in its track does not matter.

A loop of libsmf is `Iterate`, a recursive function. What it computes for every song would need induction over data;
that each of its rounds leaves something alone needs only induction over the number of rounds, which a
least-number argument on a set gives (`Induction`, from `NatLessThanWellFounded`), and the existence of the function
the same.

`Song_proofs` proves, for any places, messages and bounds and any sequence of calls:

- `OrderCorrect` (`[]Consistent`): the events of every track are in order, each with the delta that leads to it and its place, and
  the events' copies of their track's number are right unless a track was removed or given back since (`stale`). `OrderInv` says
  that the song `Fits` and is `Orderly`, that it is `Owned` while the numbers are not stale, and that a track that
  was taken out and is in the program's hand is in order too: it comes back as it went. It has one step per
  function of the library.
- `FailuresCorrect` (`[]FailsOnlyWhenStale`): no assertion of the library fails but the three that are named. `FailInv` is
  `OrderInv` with `Steady`, `Begun` while the seconds are not stale, and `Placed` while the position is not: the property
  alone says nothing of a song in which nothing has failed yet.
- `PlaysCorrect` (`[]PlaysInOrder`): while the position is not stale, nothing that was played is later than anything that
  remains, in whatever tracks. This is `Placed` again, which every round of `smf_get_next_event` keeps
  because it takes the earliest of the next events (`smf_find_track_with_next_event`).
- `SeeksCorrect` (`[]SeeksLand`): a seek to a pulse or to an event lands there from any state, and one to seconds does while the
  seconds are not stale. `SyncInv` is `FailInv` with `Synced` while the seconds are not stale, and that the tempos of all
  events, those of the track in hand included, are numbers. What `Song` says makes the seconds stale is what the lemmas
  on `Synced` ask for: an event added at seconds that are no pulse keeps those seconds (`smf_track_add_event_seconds`), a change
  that is removed where there is another takes the entry of both with it, and a track that is attached
  brings the times it was detached with. (That two changes coincide is stale already when the second is added, for
  `SecondsFollowTempos`; `SeeksLand` would not need that.)

  `SongAssumption` says that places and seconds are natural numbers and that a division is not 0, as the assertions of
  `smf_track_add_event_pulses`, `smf_track_add_event_seconds` and `smf_set_ppqn` ask of the program; and that the first tempo
  is not 0 and the messages' tempos are not negative: `smf_tempo.c:77` starts with 500000, and a tempo of a
  message is three bytes (`smf_tempo.c:136`), which may be 0 and is then ignored.

`Smfsh_proofs` proves, for any songs in the files that are loaded, any messages, times and divisions, and any bounds:

- `OutlineCorrect` (`[]TracksFitFormat`). The inductive invariant `ShellInv` says that the song `Fits`, and that
  the selected track is one of its tracks or none. `Fits` adds to the property only the shape of the record:
  that the tracks, and the events of each, are sequences. Which events there are, and when, is left open,
  because the outline of a song does not depend on it. There is one step per command, with a lemma per function that
  changes the outline (`HeaderFits`, `AddTrackFits`, `RemoveTrackFits`, `TrackDeleteFits`, `LoadFits`...).

- `SelectionCorrect` (`[]SelectionHolds`, the type invariant included). The selected event is a pointer in the code and a tag here, so this
  is about tags, and about what nobody wrote a test for: an end of track that gives way to an added event is detached (`smf.c:430`), and not freed, while it
  may be the selected one, removing a track moves those behind it, and saving adds ends of track. `SelInv` says that
  the song is `Sound`, and that a selected event which is in a track has its tag among those of the selected one. `Sound` is `Fits`
  and `Steady` with three more parts. `Named`: every tag is in one place, and every event has one of the kinds. `Counted`: the division
  is not 0 and the tempos are numbers. `Mapped`: every entry of the tempo map has a tempo that is not 0, and the map, if it is not
  empty, begins at 0. (`Begun` cannot be asked for: deleting the tempo change at 0 as the last event takes the first
  entry away, and `smf_track_add_event_pulses` then fails its assertion, which ends the program.) `Mapped` is what makes a
  time in seconds a pulse that is not negative (`TimeTold`), so that an event that is added has a place in its track's order. Every function
  has a lemma that says which tags it leaves where: `Changed` for one track (`smf_event_removeSound`, `smf_track_add_eventSound`),
  `Was` for a track that moves (`RemoveTrackSound`), `Validated` for the ends that `smf_validate` adds, one round per
  track; that removing the event of another number leaves the selected one is `Distinct` (`EventRemoveSel`). New tags are the
  first that are free (`NthFree`); that there are as many as needed is a counting argument (`FreeTag`).

The first theorem also says why `smf_validate` of the model may leave out the refusal of `smf_save.c:508`: a song of format 0
with two tracks is never saved. `SmfshAssumption` says what may be in a file: sequences of tracks of messages with a number of
pulses, no more tracks than `MaxTracks`, a division that is not 0 (`smf_load.c:200`; `smfsh.c:173` asks the user for the same)
and no negative tempo (three bytes, `smf_tempo.c:136`). The first tempo and division are not 0 either (`smf_tempo.c:77`, `smf.c:73`). What the header of a file may
say (`Headers`) is what `parse_mthd_chunk` accepts.

Only model-checked: the
MIDI modules, `Remote`, the other properties of libsmf (`EotStaysLast`, which depends on what a division rounds to;
`SecondsFollowTempos`, which compares the map with a sum over all changes of a song; `SongFile`), and everything under fairness (`PlayReturns`,
`EveryoneAnswered`, `ConcertSpec`, `EverythingObeyed`), which this prover cannot reach. What the reader's and the
writer's folds over bytes compute for every input, and what the loops of libsmf compute on a song of any length, needs
induction over data, which it cannot do either.

## 6. Hazards without a property

Besides those that are listed with their properties: `reconnect` frees the argument of a thread that may not have read it
yet (`server_thread.c:35`, `WorkerCrash`); `confirm_connection` writes a byte before its buffer when `recv` returns 0
(`socket_client.c:82`); `track_num_map` allocates a byte for every int (`midi_splitter.c:125`) and `Mfile_from_headers` and
`Mevent_copy` have no return statements (`midi.c:14`, `midi.c:48`), all `SplitCrashes`; `strdup` cuts a message at a zero byte
(`midi.c:94`, `Garbage`); the path of `tmp/` is a byte too long for its buffer (`cmd_handlers.c:404`) and `errno` is assigned instead of compared
(`cmd_handlers.c:414`). In libsmf: a division of 32768 and more is taken for frames per second
(`smf_load.c:190`); a chunk that is cut short is believed (`smf_load.c:695`), so that `WriteFails` cuts files only between chunks; texts of 128 bytes and more
are misread (`smf_load.c:341`).

Other hazards are left open by the preconditions of the properties nearest to them: a tick or a size cut by TCP (`Obeys` ends
with `split`) and a client that spins at the end of a file cut short; a seek whose product overflows (`SeeksWhereAsked`);
which event is played after an edit (`PlaysInOrder`), and the seek to the seconds sought last (`SeeksLand`).

## 7. Plan

Done: the session and its proofs, the refinement of `Concert` included; the splitter and its proofs; the order of a song's events in libsmf, the assertions that can fail there, its order of play and where its seeks land, and its tracks and format and what is selected in libsmf's shell; the MIDI reader and writer; the prompt and the player;
the client on a stream of bytes; libsmf with its files and its shell. Left, in this order:

1. Theorems about the writer: `Mf_numbyteswritten` is the number of bytes since the chunk's header,
   so that the length patched in is the right one.
2. `Obeys` for streams of any length.

## 8. Not modelled

The other experiments under `src/exp` (trials of sockets, readline and FluidSynth, and copies of `midifile.c` of which
`server/midifile.c` is the one that is built), `src/main.c` (a first draft that no Makefile
builds), FluidSynth, readline and glib themselves, printing and the wording of messages, the functions nothing calls
(`player_clear_midi_files`, the tempo arithmetic and the unused writers of `midifile.c`, how `free_Mfile` frees a song), and the line editing
of libsmf's shell.
