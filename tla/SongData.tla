------------------------------ MODULE SongData ------------------------------
(***************************************************************************)
(* The song of libsmf (smf.c, smf_tempo.c): tracks of events, and the      *)
(* tempo map kept beside them.  Every function of the library that changes *)
(* a song is an operator here, from the song before to the song after.     *)
(*                                                                         *)
(* A song is a record of                                                   *)
(*   tracks    the tracks in order, each                                   *)
(*     events    its events in order, each with the message it holds (kind *)
(*               and val), its three times, the two numbers the library    *)
(*               stores in it, and a tag by which modules                      *)
(*               that use this one tell events apart                       *)
(*     next      next_event_number: which event is played next, -1 if none *)
(*     time      time_of_next_event, the copy of that event's pulses       *)
(*     number    track_number                                              *)
(*   tempos    the tempo map: from which pulse and second on, how long a   *)
(*             quarter note lasts (usec) and which time signature holds    *)
(*   format, ppqn                                                          *)
(*   seek      last_seek_position                                          *)
(*   failed    which assertion of the library has ended the program, or "" *)
(*                                                                         *)
(* Times are whole microseconds, and every conversion rounds down.  The    *)
(* code rounds too, doubles to 53 bits and pulses to whole ones            *)
(* (smf_tempo.c:205, :222), so that there as here the time of a pulse may  *)
(* come back as the pulse before it; that of 31 does, at the defaults.     *)
(* (Bound: a pulse is longer than a microsecond; where usec < ppqn more    *)
(* than one pulse would be lost here, and none in the code.)               *)
(***************************************************************************)
EXTENDS Integers, Sequences, FiniteSets, FiniteSetsExt, SequencesExt

CONSTANTS
    InitialTempo,   \* the 500000 microseconds of smf_tempo.c:77
    InitialPpqn     \* the 120 of smf.c:73


\* A message is a note, a change of the tempo or of the time signature, or the
\* end of the track; val is the new tempo or signature, and 0 when the bytes
\* are not a valid one.
Kind == {"note", "tempo", "sig", "eot"}

Abort(s, why) == IF s.failed = "" THEN [s EXCEPT !.failed = why] ELSE s

\* n steps of a loop whose body is Step.
Iterate(Step(_), s, n) ==
    LET after[k \in 0..n] == IF k = 0 THEN s ELSE Step(after[k - 1])
    IN  after[n]

EventsIn(s) == UNION {{t} \X DOMAIN s.tracks[t].events : t \in DOMAIN s.tracks}
EventAt(s, e) == s.tracks[e[1]].events[e[2]]

-----------------------------------------------------------------------------
(* The tempo map (smf_tempo.c).                                             *)

\* The tempos before a pulse, or before a second; at 0 only the first one.
BeforePulses(s, p) ==
    {i \in DOMAIN s.tempos : IF p = 0 THEN i = 1 ELSE s.tempos[i].pulses < p}
BeforeSeconds(s, x) ==
    {i \in DOMAIN s.tempos : IF x = 0 THEN i = 1 ELSE s.tempos[i].seconds < x}

smf_get_tempo_by_pulses(s, p) == s.tempos[Max(BeforePulses(s, p))]
smf_get_tempo_by_seconds(s, x) == s.tempos[Max(BeforeSeconds(s, x))]

SecondsSince(tempo, s, p) == tempo.seconds + ((p - tempo.pulses) * tempo.usec) \div s.ppqn
PulsesSince(tempo, s, x) == tempo.pulses + ((x - tempo.seconds) * s.ppqn) \div tempo.usec

seconds_from_pulses(s, p) == SecondsSince(smf_get_tempo_by_pulses(s, p), s, p)
pulses_from_seconds(s, x) == PulsesSince(smf_get_tempo_by_seconds(s, x), s, x)

\* The map with an entry at pulse p as its last: the one it has, if it starts
\* there, or a copy of it that starts later.
new_tempo(s, p) ==
    LET last == s.tempos[Len(s.tempos)]
    IN  IF s.tempos = << >>
          THEN [s EXCEPT !.tempos =
                  << [pulses |-> p, seconds |-> 0, usec |-> InitialTempo, sig |-> 0] >>]
        ELSE IF last.pulses = p THEN s
        ELSE [s EXCEPT !.tempos =
                Append(@, [last EXCEPT !.pulses = p,
                             !.seconds = IF p = 0 THEN 0 ELSE seconds_from_pulses(s, p)])]

LastTempo(s, ev) ==
    IF ev.kind = "tempo" THEN [s EXCEPT !.tempos[Len(s.tempos)].usec = ev.val]
                         ELSE [s EXCEPT !.tempos[Len(s.tempos)].sig = ev.val]
maybe_add_to_tempo_map(s, ev) ==
    IF ev.kind \in {"tempo", "sig"} /\ ev.val # 0 THEN LastTempo(new_tempo(s, ev.pulses), ev) ELSE s

remove_last_tempo_with_pulses_Kept(s, p) == s
remove_last_tempo_with_pulses(s, p) ==
    IF s.tempos = << >> \/ s.tempos[Len(s.tempos)].pulses # p THEN s
    ELSE [s EXCEPT !.tempos = Front(@)]

smf_init_tempo(s) == new_tempo([s EXCEPT !.tempos = << >>], 0)

-----------------------------------------------------------------------------
(* The position in the song.                                                *)

\* The track with the event to play next, by the copies of their times; of two
\* the first one.  0 at the end of the song.
smf_find_track_with_next_event(s) ==
    LET waiting == {t \in DOMAIN s.tracks : s.tracks[t].next # -1}
        earliest == {t \in waiting : \A u \in waiting : s.tracks[t].time <= s.tracks[u].time}
    IN  IF waiting = {} THEN 0 ELSE Min(earliest)

\* Whether the position is on an event the track does not have any more.
Astray(s) ==
    LET t == smf_find_track_with_next_event(s)
    IN  t # 0 /\ s.tracks[t].next > Len(s.tracks[t].events)

smf_peek_next_event(s) ==
    LET t == smf_find_track_with_next_event(s)
    IN  s.tracks[t].events[s.tracks[t].next]

\* One track goes on to its next event, or to its end.
smf_track_get_next_event_TimeKept(tr) ==
    [tr EXCEPT !.next = IF @ < Len(tr.events) THEN @ + 1 ELSE -1]
smf_track_get_next_event_Past(tr) ==
    [tr EXCEPT !.next = @ + 1,
               !.time = IF tr.next < Len(tr.events) THEN tr.events[tr.next + 1].pulses ELSE @]
smf_track_get_next_event(tr) ==
    IF tr.next < Len(tr.events)
      THEN [tr EXCEPT !.next = @ + 1, !.time = tr.events[tr.next + 1].pulses]
      ELSE [tr EXCEPT !.next = -1]

smf_get_next_event(s) ==
    LET t == smf_find_track_with_next_event(s)
    IN  IF t = 0 THEN s
        ELSE IF Astray(s) THEN Abort(s, "event")
        ELSE [s EXCEPT !.tracks[t] = smf_track_get_next_event(@), !.seek = -1]

FromStart(tr) == IF tr.events = << >> THEN [tr EXCEPT !.next = -1, !.time = 0]
                 ELSE [tr EXCEPT !.next = 1, !.time = tr.events[1].pulses]

smf_rewind(s) ==
    [s EXCEPT !.seek = 0, !.tracks = [t \in DOMAIN @ |-> FromStart(@[t])]]

\* Rewinds, and skips the events of a set until there is one that is not in it.
SkipFromStart(s, before) ==
    LET Step(r) == LET t == smf_find_track_with_next_event(r)
                   IN  IF t # 0 /\ (Astray(r) \/ << t, r.tracks[t].next >> \in before)
                         THEN smf_get_next_event(r) ELSE r
    IN  Iterate(Step, smf_rewind(s), Cardinality(EventsIn(s)) + 1)

smf_seek_to_event(s, e) ==
    [SkipFromStart(s, EventsIn(s) \ {e}) EXCEPT !.seek = EventAt(s, e).seconds]

smf_seek_to_pulses_Beyond(s, p) ==
    SkipFromStart(s, {e \in EventsIn(s) : EventAt(s, e).pulses <= p})
smf_seek_to_pulses(s, p) ==
    LET r == SkipFromStart(s, {e \in EventsIn(s) : EventAt(s, e).pulses < p})
    IN  IF r.failed # "" \/ smf_find_track_with_next_event(r) = 0 THEN r
        ELSE [r EXCEPT !.seek = smf_peek_next_event(r).seconds]

\* Nothing is done when the position is already there, or is said to be.
smf_seek_to_seconds(s, x) ==
    LET r == SkipFromStart(s, {e \in EventsIn(s) : EventAt(s, e).seconds < x})
    IN  IF s.seek = x THEN s
        ELSE IF smf_find_track_with_next_event(r) = 0 THEN r
        ELSE [r EXCEPT !.seek = x]

\* Plays the song from the start to its end, and sets the seconds of every
\* event from the tempo map as it grows.
Timed(s, t, i) ==
    [s EXCEPT !.tracks[t].events[i].seconds = seconds_from_pulses(s, s.tracks[t].events[i].pulses)]
PlayTimed(s) ==
    LET t == smf_find_track_with_next_event(s)
    IN  IF t = 0 THEN s
        ELSE Timed(maybe_add_to_tempo_map(smf_get_next_event(s), smf_peek_next_event(s)),
                   t, s.tracks[t].next)
smf_create_tempo_map_and_compute_seconds(s) ==
    Iterate(PlayTimed, smf_init_tempo(smf_rewind(s)), Cardinality(EventsIn(s)))

-----------------------------------------------------------------------------
(* The events of a track.                                                   *)

Event(kind, val, tag) ==
    [kind |-> kind, val |-> val, tag |-> tag, pulses |-> -1, delta |-> -1, seconds |-> -1,
     number |-> 0, track |-> -1]

last_event_pulses(tr) == IF tr.events = << >> THEN 0 ELSE Last(tr.events).pulses

smf_get_length_pulses(s) == Max({0} \cup {last_event_pulses(s.tracks[t]) : t \in DOMAIN s.tracks})
smf_get_length_seconds(s) ==
    Max({0} \cup {Last(s.tracks[t].events).seconds :
                    t \in {u \in DOMAIN s.tracks : s.tracks[u].events # << >>}})

smf_event_is_last_Reversed(s, ev) == smf_get_length_pulses(s) >= ev.pulses
smf_event_is_last(s, ev) == smf_get_length_pulses(s) <= ev.pulses
smf_event_is_tempo_change_or_time_signature(ev) == ev.kind \in {"tempo", "sig"}

\* Takes the event out of its track.  The tempo map loses its last entry or is
\* made again, as the event was the last of the song or not.
smf_event_remove_from_track(s, t, i) ==
    LET ev == s.tracks[t].events[i]
        after(j) == [s.tracks[t].events[j] EXCEPT
                        !.number = j - 1,
                        !.delta = IF j = i + 1 THEN @ + ev.delta ELSE @]
        rest == [j \in 1 .. Len(s.tracks[t].events) - 1 |->
                    IF j < i THEN s.tracks[t].events[j] ELSE after(j + 1)]
        Retimed(r) ==
            IF ~smf_event_is_tempo_change_or_time_signature(ev) THEN r
            ELSE IF smf_event_is_last(s, ev) THEN remove_last_tempo_with_pulses(r, ev.pulses)
            ELSE smf_create_tempo_map_and_compute_seconds(r)
    IN  Retimed([s EXCEPT !.tracks[t].events = rest,
                          !.tracks[t].next = IF rest = << >> THEN -1 ELSE @])

remove_eot_if_before_pulses(s, t, p) ==
    LET es == s.tracks[t].events
    IN  IF es # << >> /\ Last(es).kind = "eot" /\ Last(es).pulses <= p
          THEN smf_event_remove_from_track(s, t, Len(es)) ELSE s

\* events_array_compare_function: by pulses, then by the number they had.
Sorted(a, b) == a.pulses < b.pulses \/ (a.pulses = b.pulses /\ a.number <= b.number)

\* The events in that order; two that compare alike stay as they are.
Precedes(es, j, i) == IF j < i THEN Sorted(es[j], es[i]) ELSE ~Sorted(es[i], es[j])
g_ptr_array_sort(es) ==
    [k \in DOMAIN es |->
        es[CHOOSE i \in DOMAIN es : Cardinality({j \in DOMAIN es : Precedes(es, j, i)}) = k - 1]]

\* A new event has got to its place: it comes this long after the one before it,
\* and the one behind it comes that much sooner.  All are numbered anew.
Gap(sorted, at) == sorted[at].pulses - IF at = 1 THEN 0 ELSE sorted[at - 1].pulses
Numbered_DeltaKept(sorted, at) ==
    [k \in DOMAIN sorted |->
        [sorted[k] EXCEPT !.number = k, !.delta = IF k = at THEN Gap(sorted, at) ELSE @]]
Numbered(sorted, at) ==
    [k \in DOMAIN sorted |->
        [sorted[k] EXCEPT !.number = k,
            !.delta = IF k = at THEN Gap(sorted, at)
                      ELSE IF k = at + 1 THEN @ - Gap(sorted, at) ELSE @]]

\* The events with one more: appended, or appended and sorted to its place.
\* Until then its number is 0, or -1 if it was in a track before.
Place(es, ev) ==
    LET last == IF es = << >> THEN 0 ELSE Last(es).pulses
        sorted == g_ptr_array_sort(Append(es, ev))
    IN  IF last <= ev.pulses
          THEN Append(es, [ev EXCEPT !.delta = ev.pulses - last, !.number = Len(es) + 1])
        ELSE Numbered(sorted, CHOOSE k \in DOMAIN sorted : sorted[k].delta = -1)

smf_track_add_event(s, t, ev) ==
    LET Placed(tr) ==
            [tr EXCEPT !.events = Place(@, [ev EXCEPT !.track = tr.number]),
                       !.next = IF tr.events = << >> THEN 1 ELSE @]
        Retimed(r) ==
            IF ~smf_event_is_tempo_change_or_time_signature(ev) THEN r
            ELSE IF smf_event_is_last(r, ev) THEN maybe_add_to_tempo_map(r, ev)
            ELSE smf_create_tempo_map_and_compute_seconds(r)
    IN  Retimed([remove_eot_if_before_pulses(s, t, ev.pulses) EXCEPT !.tracks[t] = Placed(@)])

smf_track_add_event_pulses(s, t, ev, p) ==
    IF BeforePulses(s, p) = {} THEN Abort(s, "tempo")
    ELSE smf_track_add_event(s, t, [ev EXCEPT !.pulses = p, !.seconds = seconds_from_pulses(s, p)])

smf_track_add_event_delta_pulses(s, t, ev, d) ==
    smf_track_add_event_pulses(s, t, ev, last_event_pulses(s.tracks[t]) + d)

smf_track_add_event_seconds(s, t, ev, x) ==
    IF BeforeSeconds(s, x) = {} THEN Abort(s, "tempo")
    ELSE smf_track_add_event(s, t, [ev EXCEPT !.seconds = x, !.pulses = pulses_from_seconds(s, x)])

\* The end of a track is refused (the song is left alone) before its last event.
smf_track_add_eot_delta_pulses(s, t, tag, d) ==
    smf_track_add_event_delta_pulses(s, t, Event("eot", 0, tag), d)

smf_track_add_eot_pulses_Anywhere(s, t, tag, p) ==
    smf_track_add_event_pulses(s, t, Event("eot", 0, tag), p)
smf_track_add_eot_pulses(s, t, tag, p) ==
    IF s.tracks[t].events # << >> /\ Last(s.tracks[t].events).pulses > p THEN s
    ELSE smf_track_add_event_pulses(s, t, Event("eot", 0, tag), p)

smf_track_add_eot_seconds(s, t, tag, x) ==
    IF s.tracks[t].events # << >> /\ Last(s.tracks[t].events).seconds > x THEN s
    ELSE smf_track_add_event_seconds(s, t, Event("eot", 0, tag), x)

-----------------------------------------------------------------------------
(* The tracks and the header.                                               *)

smf_set_format(s, f) ==
    IF f \notin {0, 1} THEN Abort(s, "format")
    ELSE IF Len(s.tracks) > 1 /\ f = 0 THEN s
    ELSE [s EXCEPT !.format = f]

smf_set_ppqn(s, ppqn) == IF ppqn <= 0 THEN Abort(s, "ppqn") ELSE [s EXCEPT !.ppqn = ppqn]

smf_new ==
    LET blank == [tracks |-> << >>, tempos |-> << >>, format |-> 0, ppqn |-> InitialPpqn,
                  seek |-> 0, failed |-> ""]
    IN  smf_init_tempo(smf_set_format(smf_set_ppqn(blank, InitialPpqn), 0))

smf_track_new == [events |-> << >>, next |-> -1, time |-> 0, number |-> 0]

\* A song of more than one track has format 1.  The events of the track keep
\* the number of the track they were added to.
smf_add_track(s, tr) ==
    LET n == Len(s.tracks) + 1
        r == [s EXCEPT !.tracks = Append(@, [tr EXCEPT !.number = n])]
    IN  IF n > 1 THEN smf_set_format(r, 1) ELSE r

\* The tracks behind move up, and their events with them.
Renumber_Kept(tr, i) == tr
Renumber(tr, i) == [tr EXCEPT !.number = i,
                        !.events = [j \in DOMAIN @ |-> [@[j] EXCEPT !.track = i]]]
smf_track_remove_from_smf(s, t) ==
    [s EXCEPT !.tracks = [i \in 1 .. Len(@) - 1 |->
                            IF i < t THEN @[i] ELSE Renumber(@[i + 1], i)]]

\* The track loses its events, from the last to the first, then its place.
LosesLast(s, t) == smf_event_remove_from_track(s, t, Len(s.tracks[t].events))
smf_track_delete(s, t) ==
    LET Step(r) == LosesLast(r, t)
    IN  smf_track_remove_from_smf(Iterate(Step, s, Len(s.tracks[t].events)), t)

smf_delete(s) ==
    LET Step(r) == smf_track_delete(r, Len(r.tracks))
    IN  Iterate(Step, s, Len(s.tracks))

\* smf_validate: a track needs one end.  A missing one is added, a second one
\* (or an event that is bad) has the song refused, as has one without tracks.
Refused(es, bad) ==
    \/ \E i \in DOMAIN es : es[i] \in bad
    \/ Cardinality({i \in DOMAIN es : es[i].kind = "eot"}) > 1

Ended(es) == \E i \in DOMAIN es : es[i].kind = "eot"

NextValid(r, bad, tag) ==
    IF r.t > Len(r.song.tracks) \/ Refused(r.song.tracks[r.t].events, bad) THEN r
    ELSE [t |-> r.t + 1,
          song |-> IF Ended(r.song.tracks[r.t].events) THEN r.song
                   ELSE smf_track_add_eot_delta_pulses(r.song, r.t, tag[r.t], 0)]

smf_validate(s, bad, tag) ==
    LET n == Len(s.tracks)
        Step(r) == NextValid(r, bad, tag)
        Result(r) == [song |-> r.song, ok |-> n > 0 /\ r.t > n]
    IN  Result(Iterate(Step, [t |-> 1, song |-> s], n))

\* Saving goes through the events as playing does; nothing rewinds the song.
AtEnd(tr) == [tr EXCEPT !.next = -1, !.time = Last(tr.events).pulses]
WrittenOut(s) ==
    IF s.failed # "" THEN s ELSE [s EXCEPT !.tracks = [t \in DOMAIN @ |-> AtEnd(@[t])]]

-----------------------------------------------------------------------------
(* What time it is in a song, by its events alone.                          *)

\* How long a quarter note lasts at a pulse: the last change of the tempo
\* up to there in the order of play, and the time that has passed by then.
UsecAt(s, p) ==
    LET Changes == {e \in EventsIn(s) : /\ EventAt(s, e).kind = "tempo"
                                        /\ EventAt(s, e).val # 0
                                        /\ EventAt(s, e).pulses <= p}
        Later(d, e) == LET x == EventAt(s, d).pulses  y == EventAt(s, e).pulses
                       IN  \/ x > y
                           \/ x = y /\ d[1] > e[1]
                           \/ x = y /\ d[1] = e[1] /\ d[2] >= e[2]
    IN  IF Changes = {} THEN InitialTempo
        ELSE EventAt(s, CHOOSE d \in Changes : \A e \in Changes : Later(d, e)).val

\* The microseconds up to a pulse, times ppqn: nothing is rounded in them.
Elapsed(s, p) ==
    LET Points == {0, p} \cup {q \in {EventAt(s, e).pulses : e \in EventsIn(s)} : q < p}
        Since(q) == Max({r \in Points : r < q})
    IN  MapThenSumSet(LAMBDA q : (q - Since(q)) * UsecAt(s, Since(q)), Points \ {0})

\* How far some seconds are from those of a pulse.
Off(s, x, p) ==
    LET exact == Elapsed(s, p) \div s.ppqn
    IN  IF x < exact THEN exact - x ELSE x - exact

\* Each entry of the tempo map starts from the rounded seconds of the one before.
Rounding(s) == Len(s.tempos)

InTime(s, slack) == \A e \in EventsIn(s) : Off(s, EventAt(s, e).seconds, EventAt(s, e).pulses) <= slack
=============================================================================
