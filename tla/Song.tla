-------------------------------- MODULE Song --------------------------------
(***************************************************************************)
(* A program that uses libsmf: it makes a song, adds and removes tracks    *)
(* and events, and plays and seeks, in any order the functions' comments   *)
(* allow.  What it may ask for and what the library does are SongData; here *)
(* is what must be true of the song after any sequence of such calls.      *)
(***************************************************************************)
EXTENDS SongData

CONSTANTS
    MaxTracks, MaxEvents,   \* bounds: tracks and events of the song,
    MaxHand,                \* and events of a track that is detached
    Pulses, Seconds,        \* where the program puts events and seeks to;
                            \* a second is counted in microseconds
    Ppqns,                  \* the divisions it chooses from
    Messages,               \* the messages it adds: records of kind and val
    Calls                   \* which functions it uses: see Next

ASSUME SongAssumption ==
    /\ Pulses \subseteq Nat /\ Seconds \subseteq Nat
    /\ InitialPpqn \in Nat \ {0} /\ Ppqns \subseteq Nat \ {0}
    /\ InitialTempo \in Nat \ {0} /\ \A m \in Messages : m.val \in Nat

VARIABLES
    song,
    hand,       \* the track that belongs to no song: << it >>, or << >>
    stale       \* what the library has said it would not keep (see below)

vars == << song, hand, stale >>

(* History, for the properties only.                                        *)
(*   "position"  tracks or events have changed since the position was set;  *)
(*               nothing in smf.c moves next_event_number with an edit      *)
(*   "seconds"   the tempo map or the seconds may differ from what making   *)
(*               them anew would give: events coincide (smf.c:613), a track *)
(*               with tempo changes was attached or detached, the tempo at  *)
(*               0 was removed, or seconds were given that are not those of *)
(*               the pulse they were rounded to (smf_tempo.c:222)           *)
(*   "numbers"   a track with events was attached: they keep its old number *)
Stale == {"position", "seconds", "numbers"}

Init == song = smf_new /\ hand = << >> /\ stale = {}

Tempos(s) == {e \in EventsIn(s) : smf_event_is_tempo_change_or_time_signature(EventAt(s, e))}
TemposAt(s, p) == {e \in Tempos(s) : EventAt(s, e).pulses = p}

Put(s, now) == song.failed = "" /\ song' = s /\ stale' = now /\ UNCHANGED hand

\* An edit leaves the position and, if it is not `sound', the seconds behind;
\* one in the middle of a song's tempo changes makes both anew.
Edit(s, anew, sound) ==
    Put(s, IF anew /\ s.failed = "" THEN stale \ {"position", "seconds"}
           ELSE stale \cup {"position"} \cup (IF sound THEN {} ELSE {"seconds"}))

\* The event added by a function that does so: the map is made again if it
\* changes the tempo before the end, and is right if nothing coincides.
Added(s, m, p, sound) ==
    LET tempo == m.kind \in {"tempo", "sig"}
    IN  Edit(s, tempo /\ p < smf_get_length_pulses(song),
                sound /\ (tempo => TemposAt(song, p) = {}))

\* (Bounds: how many events there are; and once a track has come back with its
\* events, none is added and no track is detached again.)
Room == /\ MapThenSumSet(LAMBDA i : Len((song.tracks \o hand)[i].events), DOMAIN (song.tracks \o hand)) < MaxEvents
        /\ "numbers" \notin stale

AddPulses(t, m, p) ==
    /\ Room
    /\ Added(smf_track_add_event_pulses(song, t, Event(m.kind, m.val, 0), p), m, p, TRUE)

AddDelta(t, m, d) ==
    /\ Room /\ last_event_pulses(song.tracks[t]) + d \in Pulses
    /\ Added(smf_track_add_event_delta_pulses(song, t, Event(m.kind, m.val, 0), d), m,
             last_event_pulses(song.tracks[t]) + d, TRUE)

\* Which pulse some seconds are is up to the tempo map, if there is one.
PulseOf(x) == IF song.tempos = << >> THEN 0 ELSE pulses_from_seconds(song, x)
IsPulse(x) == song.tempos # << >> /\ seconds_from_pulses(song, PulseOf(x)) = x

AddSeconds(t, m, x) ==
    /\ Room /\ PulseOf(x) \in Pulses
    /\ Added(smf_track_add_event_seconds(song, t, Event(m.kind, m.val, 0), x), m, PulseOf(x), IsPulse(x))

AddEot(t) ==
    /\ Room
    /\ \/ \E d \in Pulses :
            /\ last_event_pulses(song.tracks[t]) + d \in Pulses
            /\ Edit(smf_track_add_eot_delta_pulses(song, t, 0, d), FALSE, TRUE)
       \/ \E p \in Pulses : Edit(smf_track_add_eot_pulses(song, t, 0, p), FALSE, TRUE)
       \/ \E x \in Seconds :
            /\ PulseOf(x) \in Pulses
            /\ Edit(smf_track_add_eot_seconds(song, t, 0, x), FALSE, IsPulse(x))

RemoveEvent(t, i) ==
    LET ev == song.tracks[t].events[i]
        tempo == << t, i >> \in Tempos(song)
    IN  Edit(smf_event_remove_from_track(song, t, i),
             tempo /\ ~smf_event_is_last(song, ev),
             tempo => ev.pulses > 0 /\ TemposAt(song, ev.pulses) = {<< t, i >>})

NewTrack == /\ song.failed = "" /\ Len(song.tracks \o hand) < MaxTracks /\ hand = << >>
            /\ hand' = << smf_track_new >>
            /\ UNCHANGED << song, stale >>

AddTrack ==
    /\ song.failed = "" /\ hand # << >>
    /\ song' = smf_add_track(song, hand[1]) /\ hand' = << >>
    /\ stale' = stale \cup IF hand[1].events = << >> THEN {} ELSE Stale

RemoveTrack(t) ==
    /\ song.failed = "" /\ hand = << >>
    /\ Len(song.tracks[t].events) <= MaxHand /\ "numbers" \notin stale
    /\ song' = smf_track_remove_from_smf(song, t)
    /\ hand' = << [song.tracks[t] EXCEPT !.number = -1] >>
    /\ stale' = stale \cup IF \E e \in Tempos(song) : e[1] = t THEN {"seconds"} ELSE {}

\* The events of a track without a song cannot be removed: smf.c:588 fails.
DeleteHand ==
    /\ song.failed = "" /\ hand # << >> /\ hand' = << >>
    /\ song' = IF hand[1].events = << >> THEN song ELSE Abort(song, "detached")
    /\ UNCHANGED stale

DeleteTrack(t) ==
    LET tempos == {e \in Tempos(song) : e[1] = t}
    IN  Edit(smf_track_delete(song, t), FALSE,
             \A e \in tempos : /\ EventAt(song, e).pulses > 0
                               /\ TemposAt(song, EventAt(song, e).pulses) = {e})

\* The song is freed and the program makes another.
DeleteSong == Put(IF smf_delete(song).failed = "" THEN smf_new ELSE smf_delete(song), {})

SetFormat(f) == Put(smf_set_format(song, f), stale)

\* "This is mandatory, you should call it right after smf_new" (smf.c:668).
SetPpqn(n) == EventsIn(song) = {} /\ Put(smf_set_ppqn(song, n), stale)

GetNextEvent == Put(smf_get_next_event(song), stale)
PeekNextEvent == Astray(song) /\ Put(Abort(song, "event"), stale)
Rewind == Put(smf_rewind(song), stale \ {"position"})
SeekToEvent(e) == Put(smf_seek_to_event(song, e), stale \ {"position"})
SeekToPulses(p) == Put(smf_seek_to_pulses(song, p), stale \ {"position"})
SeekToSeconds(x) ==
    Put(smf_seek_to_seconds(song, x), IF song.seek = x THEN stale ELSE stale \ {"position"})

Add == \E t \in DOMAIN song.tracks, m \in Messages, p \in Pulses : AddPulses(t, m, p)
AddOther ==
    \E t \in DOMAIN song.tracks :
      \/ AddEot(t)
      \/ \E m \in Messages : \/ \E d \in Pulses : AddDelta(t, m, d)
                             \/ \E x \in Seconds : AddSeconds(t, m, x)
RemoveAny == \E e \in EventsIn(song) : RemoveEvent(e[1], e[2])
Detach == (\E t \in DOMAIN song.tracks : RemoveTrack(t)) \/ DeleteHand
Delete == (\E t \in DOMAIN song.tracks : DeleteTrack(t)) \/ DeleteSong
Header == (\E f \in {0, 1} : SetFormat(f)) \/ (\E n \in Ppqns : SetPpqn(n))
Play == GetNextEvent \/ PeekNextEvent \/ Rewind
Seek == \/ \E e \in EventsIn(song) : SeekToEvent(e)
        \/ \E p \in Pulses : SeekToPulses(p)
        \/ \E x \in Seconds : SeekToSeconds(x)

Next ==
    \/ NewTrack \/ AddTrack
    \/ Add \/ RemoveAny
    \/ "edit" \in Calls /\ (AddOther \/ Detach \/ Delete \/ Header)
    \/ "play" \in Calls /\ (Play \/ Seek)

Spec == Init /\ [][Next]_vars

-----------------------------------------------------------------------------
(* Properties.                                                              *)

TypeOK ==
    /\ song.failed \in {"", "tempo", "event", "detached"}
    /\ song.format \in {0, 1} /\ song.ppqn \in Ppqns \cup {InitialPpqn} /\ song.seek \in Int
    /\ \A i \in DOMAIN song.tempos : song.tempos[i].usec > 0 /\ song.tempos[i].pulses >= 0
    /\ \A tr \in Range(song.tracks \o hand) :
          /\ tr.next \in {-1} \cup 1 .. MaxEvents /\ tr.time \in Pulses \cup {0}
          /\ \A i \in DOMAIN tr.events : tr.events[i].kind \in Kind
    /\ Len(song.tracks) <= MaxTracks /\ Len(hand) <= 1 /\ stale \subseteq Stale

\* However events were appended, inserted and removed, also by the end of a
\* track that gives way, the events of a track are in the order of their
\* pulses, each delta is the time since the event before it, and each number
\* is its place (smf.c:441, smf.c:581).
TracksInOrder ==
    \A tr \in Range(song.tracks \o hand) :
      \A i \in DOMAIN tr.events :
        LET before == IF i = 1 THEN 0 ELSE tr.events[i - 1].pulses
        IN  /\ tr.events[i].number = i
            /\ tr.events[i].delta = tr.events[i].pulses - before
            /\ tr.events[i].delta >= 0

\* The copies of a track's number are right while other tracks come and go
\* (smf.c:178), unless the track was attached with events in it.
TracksNumbered ==
    \A t \in DOMAIN song.tracks :
      /\ song.tracks[t].number = t
      /\ "numbers" \notin stale =>
            \A i \in DOMAIN song.tracks[t].events : song.tracks[t].events[i].track = t

\* What every function of the library finds and leaves: the order of the
\* events, and the copies of the numbers.
Consistent == TracksInOrder /\ TracksNumbered

\* The tempo map, kept up entry by entry while events are appended, updated in
\* place and popped (smf_tempo.c:50, :173), tells the same time as the song's
\* tempo changes do, but for what is lost in rounding, and so does every event;
\* and the seconds of a pulse lead back to it or to the one before.
SecondsFollowTempos ==
    /\ TypeOK
    /\ "seconds" \notin stale /\ song.failed = "" =>
      /\ InTime(song, Rounding(song))
      /\ \A p \in Pulses :
            /\ Off(song, seconds_from_pulses(song, p), p) <= Rounding(song)
            /\ pulses_from_seconds(song, seconds_from_pulses(song, p)) \in {p, p - 1}
      /\ Off(song, smf_get_length_seconds(song), smf_get_length_pulses(song)) <= Rounding(song)

\* What is still to be played.
Remaining(s) == {e \in EventsIn(s) : s.tracks[e[1]].next # -1 /\ e[2] >= s.tracks[e[1]].next}

\* Since the position was set, nothing is played before something earlier,
\* from whatever track: the copies of the times are those of the next events,
\* and everything played comes before everything that is not (smf.c:807).
PlaysInOrder ==
    "position" \notin stale =>
      /\ ~Astray(song)
      /\ \A d \in EventsIn(song) \ Remaining(song), e \in Remaining(song) :
            EventAt(song, d).pulses <= EventAt(song, e).pulses

\* Wherever the song stands, after a seek what remains is what is at the place
\* or after it, and after a seek to an event that event is next (smf.c:934,
\* :966, :1009).  A seek to the seconds that were sought last is left out.
SeeksLand ==
    song.failed = "" =>
      /\ \A p \in Pulses : Remaining(smf_seek_to_pulses(song, p)) =
                            {e \in EventsIn(song) : EventAt(song, e).pulses >= p}
      /\ \A x \in Seconds \ {song.seek} : "seconds" \notin stale =>
            Remaining(smf_seek_to_seconds(song, x)) =
              {e \in EventsIn(song) : EventAt(song, e).seconds >= x}
      /\ \A e \in EventsIn(song) :
            LET s == smf_seek_to_event(song, e)
            IN  smf_find_track_with_next_event(s) = e[1] /\ s.tracks[e[1]].next = e[2]

\* "If there is an EOT event, it will be at the end of the track" (smf.c:412):
\* it stays there through inserts, removals and ends that give way, while the
\* seconds that are given are those of the pulse they lead to.
EotsLast(s) ==
    \A tr \in Range(s) : \A i \in DOMAIN tr.events : tr.events[i].kind = "eot" => i = Len(tr.events)
EotStaysLast ==
    [][EotsLast(song.tracks \o hand) /\ "seconds" \notin stale'
          => EotsLast(song'.tracks \o hand')]_vars

\* No assertion of the library fails, but when the song is played after an
\* edit without a rewind, when the tempo map has lost its entry at 0, and when
\* a track is deleted that still has events and no song.
FailsOnlyWhenStale ==
    \/ song.failed \in {"", "detached"}
    \/ song.failed = "event" /\ "position" \in stale
    \/ song.failed = "tempo" /\ "seconds" \in stale
=============================================================================
