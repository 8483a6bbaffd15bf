------------------------------- MODULE Player -------------------------------
(***************************************************************************)
(* The player that both programs keep: server/midi_player.c, of which      *)
(* client/midi_player.c is a copy, over the player of the FluidSynth       *)
(* library.  A player goes through its playlist in a thread of the         *)
(* library; the programs only start, stop and seek it.  FluidSynth is      *)
(* external: its operators say what the comments of the structures in      *)
(* exp/fluid_midi.h say, and what both programs rely on.                   *)
(***************************************************************************)
EXTENDS Integers, Sequences

CONSTANTS
    NoPlayer,   \* the NULL player
    Songs,      \* the MIDI files a player can be given
    Length,     \* Length[s]: the ticks of a song
    Beat        \* the ticks the player advances at a time

ASSUME PlayerAssumption ==
    /\ Length \in [Songs -> Nat]
    /\ Beat \in Nat \ {0}

Status == {"ready", "playing", "done"}

Players ==
    [ status   : Status,
      playlist : Seq(Songs),
      current  : Nat,     \* the place in the playlist, 0 before and after it
      loop     : Int,     \* times left to loop the playlist, -1 for ever
      total    : Nat,     \* the ticks of the song that is loaded
      tick     : Nat,
      seek     : Int ]    \* where to go next, -1 for nowhere

new_fluid_player ==
    [ status |-> "ready", playlist |-> << >>, current |-> 0, loop |-> 1,
      total |-> 0, tick |-> 0, seek |-> -1 ]

\* The settings, the synthesizer and the driver are kept; the player is not.
player_setup(player) == new_fluid_player

player_add(player, song) == [player EXCEPT !.playlist = Append(@, song)]

player_play(player) ==
    IF player.playlist = << >> THEN player ELSE [player EXCEPT !.status = "playing"]

player_pause(player) == [player EXCEPT !.status = "done"]

player_setloop(player, looping) == [player EXCEPT !.loop = looping]

\* FluidSynth refuses a tick outside the song, once it knows the song.
player_seek(player, tick) ==
    IF tick < 0 \/ (player.status # "ready" /\ tick > player.total)
    THEN player
    ELSE [player EXCEPT !.seek = tick]

player_restart(player) == player_seek(player, 0)

player_get_status(player) == IF player = NoPlayer THEN -1
    ELSE CASE player.status = "done" -> 2
           [] player.status = "playing" -> 1
           [] player.status = "ready" -> 0

player_get_total_ticks(player) == player.total

-----------------------------------------------------------------------------
(* The library's own thread.                                                *)

\* The song after the current one, the first again while there are loops
\* left, or 0: the playlist is over.
NextFile(player) ==
    IF player.current < Len(player.playlist) /\ player.current # 0
    THEN player.current + 1
    ELSE IF player.loop = 0 THEN 0 ELSE 1

LoadsNext(player) ==
    LET next == NextFile(player) IN
    IF next = 0
    THEN [player EXCEPT !.current = 0, !.status = "done"]
    ELSE [player EXCEPT
            !.current = next,
            !.loop = IF next = 1 /\ @ > 0 THEN @ - 1 ELSE @,
            !.total = Length[player.playlist[next]],
            !.tick = 0]

\* A step of a player that plays: the song that is due is loaded, a seek is
\* done, or time passes.
Advance(player) ==
    IF player.current = 0 \/ (player.tick >= player.total /\ player.seek < 0)
    THEN LoadsNext(player)
    ELSE IF player.seek >= 0
    THEN [player EXCEPT !.tick = player.seek, !.seek = -1]
    ELSE [player EXCEPT !.tick = IF @ + Beat > player.total THEN player.total ELSE @ + Beat]

\* "total_ticks == 0, which somehow means player ended": what the program has
\* seen of a player whose playlist is over.
Forgets(player) == [player EXCEPT !.total = 0, !.tick = 0]
=============================================================================
