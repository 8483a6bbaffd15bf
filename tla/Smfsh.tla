-------------------------------- MODULE Smfsh --------------------------------
(***************************************************************************)
(* libsmf's shell (smfsh.c): one song, a selected track and a selected     *)
(* event, which are pointers into it, and commands in any order, with      *)
(* arguments that fit or not.  The tag of an event says which one it is,   *)
(* wherever it moves.  What happens to bytes and files is SongFile.        *)
(***************************************************************************)
EXTENDS SongData


CONSTANTS
    Messages, Seconds,      \* what the user adds, and when, in microseconds
    Ppqns, Formats,         \* and sets
    Files,                  \* what may be in a file that is loaded: sequences of
                            \* tracks of << pulses, message >>
    MaxTracks, MaxEvents    \* bounds

ASSUME SmfshAssumption ==
    /\ Messages \subseteq [kind : Kind, val : Nat] /\ Seconds \subseteq Int
    /\ Files \subseteq Seq(Seq(Nat \X [kind : Kind, val : Nat]))
    /\ InitialTempo \in Nat \ {0} /\ InitialPpqn \in Nat \ {0} /\ Ppqns \subseteq Nat \ {0}
    /\ MaxTracks \in Nat \ {0} /\ MaxEvents \in Nat
    /\ \A file \in Files : Len(file) <= MaxTracks

VARIABLES
    smf,
    selected_track,     \* its place in the song, or NoTrack
    selected_event      \* which one it is, and whether that is in a "track",
                        \* "detached" (by an end of track that took its place) or
                        \* "freed"; or NoEvent

vars == << smf, selected_track, selected_event >>

NoTrack == 0
NoEvent == [tag |-> 0, is |-> "none"]

\* An argument that was left out, or is no number.
None == -9
Garbage == -8

Tags(s) == {EventAt(s, e).tag : e \in EventsIn(s)}

\* The nth of the tags that are not used; and that no event of the song has.
NthFree(used, n) ==
    LET free == 1 .. Cardinality(used) + n \ used
    IN  CHOOSE x \in free : Cardinality({y \in free : y <= x}) = n
Fresh(n) == NthFree(Tags(smf) \cup {selected_event.tag}, n)

Place_of(s, tag) == CHOOSE e \in EventsIn(s) : EventAt(s, e).tag = tag

\* The selection when the song has become s, and these events have been freed.
Follow(s, freed) ==
    IF selected_event.tag \in Tags(s) \/ selected_event.is \in {"none", "freed"} THEN selected_event
    ELSE [selected_event EXCEPT !.is = IF @ = "track" /\ selected_event.tag \in freed THEN "freed" ELSE "detached"]

Selects(s, track, event) == smf' = s /\ selected_track' = track /\ selected_event' = event

\* (Bounds.)
Room == Cardinality(EventsIn(smf)) < MaxEvents

Running == smf.failed = ""

-----------------------------------------------------------------------------
(* Which track and which event an argument means; -1 when it means none.    *)

parse_track_number(arg) ==
    CASE arg = None -> IF selected_track = NoTrack THEN -1 ELSE smf.tracks[selected_track].number
      [] arg \in DOMAIN smf.tracks -> arg
      [] OTHER -> -1

event_number ==
    CASE selected_event.is = "track" -> EventAt(smf, Place_of(smf, selected_event.tag)).number
      [] OTHER -> -1

\* An event that has been freed has no number any more.
parse_event_number(arg) ==
    IF selected_track = NoTrack THEN -1
    ELSE CASE arg = None -> IF selected_event = NoEvent THEN -1 ELSE event_number
           [] arg \in DOMAIN smf.tracks[selected_track].events -> arg
           [] OTHER -> -1

-----------------------------------------------------------------------------
(* The commands.                                                            *)

LoadEvent(s, tr, i) ==
    LET message == tr[i][2]
        ev == Event(message.kind, message.val, NthFree(Tags(s), 1))
    IN  smf_track_add_event_pulses(s, Len(s.tracks), ev, tr[i][1])

LoadTrack(s, file, t) ==
    LET tr == file[t]
        loaded[i \in 0 .. Len(tr)] ==
            IF i = 0 THEN smf_add_track(s, smf_track_new) ELSE LoadEvent(loaded[i - 1], tr, i)
    IN  loaded[Len(tr)]

smf_load(file, format, ppqn) ==
    LET header == [smf_new EXCEPT !.format = format, !.ppqn = ppqn]
        loaded[t \in 0 .. Len(file)] ==
            IF t = 0 THEN header ELSE LoadTrack(loaded[t - 1], file, t)
    IN  smf_rewind(loaded[Len(file)])

\* What a file may say of its format and its division, whatever tracks follow.
Headers == {0, 1} \X (Ppqns \cup {InitialPpqn})

\* The song is freed before its successor is loaded; when that fails, there is
\* an empty one.
cmd_load ==
    /\ Running
    /\ IF smf_delete(smf).failed # "" THEN Selects(smf_delete(smf), NoTrack, NoEvent)
       ELSE \/ \E file \in Files, h \in Headers :
                  Selects(smf_load(file, h[1], h[2]), IF file = << >> THEN NoTrack ELSE 1, NoEvent)
            \/ Selects(smf_new, NoTrack, NoEvent)

\* The file that was written is read again, and that is sure to succeed when the
\* end of a track is its last event, no message may need an escape, the division
\* fits, and every event has the seconds the file will give it, within what the
\* check allows (see SongFile).
Tolerance == 10000
ReadsBack(s) ==
    /\ InTime(s, Tolerance - Rounding(s))
    /\ s.ppqn < 32768
    /\ \A t \in DOMAIN s.tracks :
          \A i \in DOMAIN s.tracks[t].events :
             /\ s.tracks[t].events[i].kind # "note"
             /\ s.tracks[t].events[i].kind = "eot" => i = Len(s.tracks[t].events)

cmd_save ==
    /\ Running
    /\ \E valid \in {smf_validate(smf_rewind(smf), {}, [t \in DOMAIN smf.tracks |-> Fresh(t)])} :
         \E s \in {IF valid.ok THEN WrittenOut(valid.song) ELSE valid.song} :
            \/ Selects(s, selected_track, Follow(s, {}))
            \/ valid.ok /\ ~ReadsBack(s) /\ Selects(Abort(s, "identical"), selected_track, Follow(s, {}))

cmd_ppqn(n) == Running /\ n > 0 /\ Selects(smf_set_ppqn(smf, n), selected_track, selected_event)

\* 2 is accepted here, and then fails an assertion of the library (smf.c:648).
cmd_format(n) == Running /\ n \in 0 .. 2 /\ Selects(smf_set_format(smf, n), selected_track, selected_event)

cmd_track(arg) ==
    /\ Running /\ arg # None /\ parse_track_number(arg) # -1
    /\ Selects(smf, parse_track_number(arg), NoEvent)

cmd_trackadd ==
    /\ Running /\ Len(smf.tracks) < MaxTracks
    /\ Selects(smf_add_track(smf, smf_track_new), Len(smf.tracks) + 1, NoEvent)

\* A pointer stays with its track, whose place may be another one now.
cmd_trackrm_Event(arg) ==
    LET num == parse_track_number(arg)
        s == smf_track_delete(smf, num)
        moved == IF num < selected_track THEN selected_track - 1 ELSE selected_track
    IN  /\ Running /\ num # -1
        /\ IF selected_track # NoTrack /\ num = smf.tracks[selected_track].number
             THEN Selects(s, NoTrack, Follow(s, Tags(smf) \ Tags(s)))
             ELSE Selects(s, moved, Follow(s, Tags(smf) \ Tags(s)))
cmd_trackrm(arg) ==
    LET num == parse_track_number(arg)
        s == smf_track_delete(smf, num)
        moved == IF num < selected_track THEN selected_track - 1 ELSE selected_track
    IN  /\ Running /\ num # -1
        /\ IF selected_track # NoTrack /\ num = smf.tracks[selected_track].number
             THEN Selects(s, NoTrack, NoEvent)
             ELSE Selects(s, moved, Follow(s, Tags(smf) \ Tags(s)))

cmd_events == Running /\ selected_track # NoTrack /\ smf.tracks[selected_track].events # << >>
              /\ Selects(smf_rewind(smf), selected_track, selected_event)

cmd_event(arg) ==
    LET num == parse_event_number(arg)
    IN  /\ Running /\ arg # None /\ num # -1
        /\ Selects(smf, selected_track, [tag |-> smf.tracks[selected_track].events[num].tag, is |-> "track"])

\* The new event is selected.  A message that is not valid is not added, and
\* nothing is selected then; an escape (smf_load.c:325) and a message without
\* bytes (smf_load.c:749) end the program instead.
AddSelected(ev, x) ==
    LET s == smf_track_add_event_seconds(smf, selected_track, ev, x)
    IN  Selects(s, selected_track, [tag |-> ev.tag, is |-> IF s.failed = "" THEN "track" ELSE "detached"])

cmd_eventadd(m, x) ==
    /\ Running /\ Room /\ selected_track # NoTrack
    /\ \/ AddSelected(Event(m.kind, m.val, Fresh(1)), x)
       \/ Selects(smf, selected_track, NoEvent)
       \/ Selects(Abort(smf, "message"), selected_track, [tag |-> Fresh(1), is |-> "detached"])

\* A text of more than 127 characters is taken for one that is not valid.
cmd_text(x) ==
    /\ Running /\ Room /\ selected_track # NoTrack
    /\ \/ AddSelected(Event("note", 0, Fresh(1)), x)
       \/ Selects(Abort(smf, "text"), selected_track, [tag |-> Fresh(1), is |-> "detached"])

cmd_eventaddeot(x) ==
    /\ Running /\ Room /\ selected_track # NoTrack
    /\ \E s \in {smf_track_add_eot_seconds(smf, selected_track, Fresh(1), x)} :
            Selects(s, selected_track, Follow(s, {}))

\* The selection is given up if it is the event of that number.
cmd_eventrm(arg) ==
    LET num == parse_event_number(arg)
    IN  /\ Running /\ num # -1
        /\ \E s \in {smf_event_remove_from_track(smf, selected_track, num)} :
              Selects(s, selected_track,
                      IF num = event_number THEN NoEvent
                      ELSE Follow(s, {smf.tracks[selected_track].events[num].tag}))

\* The shell starts with a file, or with a song of one empty track.
Init ==
    /\ \/ smf = smf_add_track(smf_new, smf_track_new) /\ selected_track = 1
       \/ \E file \in Files, h \in Headers :
             /\ smf = smf_load(file, h[1], h[2])
             /\ selected_track = IF file = << >> THEN NoTrack ELSE 1
       \/ smf = smf_new /\ selected_track = NoTrack
    /\ selected_event = NoEvent

Args == {None, Garbage, 0} \cup 1 .. MaxEvents

Next ==
    \/ cmd_load \/ cmd_save
    \/ \E n \in Ppqns : cmd_ppqn(n)
    \/ \E n \in Formats : cmd_format(n)
    \/ cmd_trackadd \/ cmd_events
    \/ \E arg \in Args : cmd_track(arg) \/ cmd_trackrm(arg) \/ cmd_event(arg) \/ cmd_eventrm(arg)
    \/ \E x \in Seconds :
          \/ \E m \in Messages : cmd_eventadd(m, x)
          \/ cmd_text(x) \/ cmd_eventaddeot(x)

Spec == Init /\ [][Next]_vars

-----------------------------------------------------------------------------
(* Properties.                                                              *)

TypeOK ==
    /\ smf.failed \in {"", "tempo", "format", "text", "message", "identical"}
    /\ smf.ppqn \in Ppqns \cup {InitialPpqn} /\ Len(smf.tracks) <= MaxTracks
    /\ selected_track \in {NoTrack} \cup DOMAIN smf.tracks
    /\ selected_event.is \in {"none", "track", "detached", "freed"}
    /\ \A e \in EventsIn(smf) : EventAt(smf, e).kind \in Kind

\* However tracks and events are removed, by number, as the selected one or
\* because an end of track gives way, the selected event is never one that has
\* been freed, and while it is in a track, that is the selected track and the
\* event has there the number `rm' will look for (smfsh.c:418, smfsh.c:706).
SelectionHolds ==
    /\ TypeOK
    /\ selected_event.is # "freed"
    /\ selected_event.is = "track" =>
          \E i \in DOMAIN smf.tracks[selected_track].events :
              /\ smf.tracks[selected_track].events[i].tag = selected_event.tag
              /\ smf.tracks[selected_track].events[i].number = i

\* The numbers of the selected track and its place agree, so that `trackrm'
\* removes that track; and a song of format 0 has one track, as saving it asks
\* for (smf_save.c:508), after any sequence of `format', `trackadd', `trackrm'
\* and `load'.
TracksFitFormat ==
    /\ selected_track # NoTrack => smf.tracks[selected_track].number = selected_track
    /\ smf.failed = "" /\ smf.format = 0 => Len(smf.tracks) <= 1
=============================================================================
