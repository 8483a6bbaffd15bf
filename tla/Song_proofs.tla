---------------------------- MODULE Song_proofs ----------------------------
(***************************************************************************)
(* That the events of every track stay in order, with their deltas and     *)
(* numbers, and the tracks with theirs, in whatever order a program calls  *)
(* the functions of the library; which assertions of the library can fail  *)
(* then; and that the song is played in order, and a seek lands where it   *)
(* should.                                                                 *)
(***************************************************************************)
EXTENDS Song, SongData_proofs

OrderInv ==
    /\ Fits(song) /\ Orderly(song)
    /\ "numbers" \notin stale => Owned(song)
    /\ hand = << >> \/ \E tr : hand = << tr >> /\ Tracklike(tr) /\ InOrder(tr.events)

LEMMA EmptyInOrder ==
    InOrder(<< >>) /\ \A n : OwnedBy(<< >>, n)
<1>1. DOMAIN << >> = {}
  OBVIOUS
<1> QED
  BY <1>1, NewTrack_Empty DEF InOrder, OwnedBy

LEMMA NoTracks ==
    ASSUME NEW s, Fits(s), Len(s.tracks) = 0
    PROVE  Orderly(s) /\ Owned(s)
<1>1. DOMAIN s.tracks = {}
  BY SequenceFacts DEF Fits, Songlike
<1> QED
  BY <1>1 DEF Fits, Orderly, Owned

LEMMA OrderInit == Init => OrderInv
BY NewFits, NoTracks DEF Init, OrderInv

\* Most calls keep the outline that fits, and what there is in it.
LEMMA KeptStep ==
    ASSUME OrderInv, NEW s, NEW now, Put(s, now), Fits(s), Keeps(s, song),
           "numbers" \in stale => "numbers" \in now
    PROVE  OrderInv'
BY DEF OrderInv, Put, Keeps

LEMMA EditStep ==
    ASSUME OrderInv, NEW s, NEW anew, NEW sound, Edit(s, anew, sound), Fits(s), Keeps(s, song)
    PROVE  OrderInv'
BY KeptStep DEF Edit

LEMMA AlikeEdit ==
    ASSUME OrderInv, NEW s, Alike(s, song)
    PROVE  Fits(s)
BY FitsKept DEF OrderInv

LEMMA PlacesOfTracks ==
    ASSUME OrderInv
    PROVE  /\ Songlike(song) /\ Len(song.tracks) \in Nat /\ DOMAIN song.tracks = 1 .. Len(song.tracks)
           /\ \A e \in EventsIn(song) : /\ e[1] \in DOMAIN song.tracks
                                        /\ e[2] \in DOMAIN song.tracks[e[1]].events
BY SequenceFacts DEF OrderInv, Fits, Songlike, EventsIn

LEMMA AddStep ==
    ASSUME OrderInv, Add
    PROVE  OrderInv'
<1>1. PICK t \in DOMAIN song.tracks, m \in Messages, p \in Pulses : AddPulses(t, m, p)
  BY DEF Add
<1> DEFINE s == smf_track_add_event_pulses(song, t, Event(m.kind, m.val, 0), p)
<1>2. Alike(s, song) /\ Keeps(s, song)
  BY PlacesOfTracks, AddedOutline, AddedKeeps, SongAssumption
<1>3. \E anew, sound : Edit(s, anew, sound)
  BY <1>1 DEF AddPulses, Added
<1> QED
  BY <1>2, <1>3, AlikeEdit, EditStep

\* The pulse that the seconds are, if the tempo map can tell.
LEMMA PulseTyped ==
    ASSUME NEW x, PulseOf(x) \in Pulses
    PROVE  BeforeSeconds(song, x) = {} \/ pulses_from_seconds(song, x) \in Nat
<1>1. CASE song.tempos = << >>
  BY <1>1 DEF BeforeSeconds
<1>2. CASE song.tempos # << >>
  BY <1>2, SongAssumption DEF PulseOf
<1> QED
  BY <1>1, <1>2

LEMMA AddOtherStep ==
    ASSUME OrderInv, AddOther
    PROVE  OrderInv'
<1>1. PICK t \in DOMAIN song.tracks :
         \/ AddEot(t)
         \/ \E m \in Messages : \/ \E d \in Pulses : AddDelta(t, m, d)
                                \/ \E x \in Seconds : AddSeconds(t, m, x)
  BY DEF AddOther
<1>2. Songlike(song)
  BY PlacesOfTracks
<1>3. CASE AddEot(t)
  <2>1. \E s, anew, sound : Edit(s, anew, sound) /\ Alike(s, song) /\ Keeps(s, song)
    <3>1. CASE \E d \in Pulses :
                  /\ last_event_pulses(song.tracks[t]) + d \in Pulses
                  /\ Edit(smf_track_add_eot_delta_pulses(song, t, 0, d), FALSE, TRUE)
      BY <1>2, <3>1, AddedOutline, EotKeeps, SongAssumption
    <3>2. CASE \E p \in Pulses : Edit(smf_track_add_eot_pulses(song, t, 0, p), FALSE, TRUE)
      <4>1. \A p : Alike(smf_track_add_eot_pulses(song, t, 0, p), song)
        BY <1>2, AddedOutline, AlikeReflexive DEF smf_track_add_eot_pulses
      <4> QED
        BY <1>2, <3>2, <4>1, EotKeeps, SongAssumption
    <3>3. CASE \E x \in Seconds :
                  /\ PulseOf(x) \in Pulses
                  /\ Edit(smf_track_add_eot_seconds(song, t, 0, x), FALSE, IsPulse(x))
      BY <1>2, <3>3, PulseTyped, AddedOutline, EotKeeps
    <3> QED
      BY <1>3, <3>1, <3>2, <3>3 DEF AddEot
  <2> QED
    BY <2>1, AlikeEdit, EditStep
<1>4. CASE \E m \in Messages, d \in Pulses : AddDelta(t, m, d)
  <2>1. PICK m \in Messages, d \in Pulses : AddDelta(t, m, d)
    BY <1>4
  <2> DEFINE s == smf_track_add_event_delta_pulses(song, t, Event(m.kind, m.val, 0), d)
  <2>2. last_event_pulses(song.tracks[t]) + d \in Nat
    BY <2>1, SongAssumption DEF AddDelta
  <2>3. Alike(s, song) /\ Keeps(s, song)
    BY <1>2, <2>2, AddedOutline, AddedKeeps DEF smf_track_add_event_delta_pulses
  <2>4. \E anew, sound : Edit(s, anew, sound)
    BY <2>1 DEF AddDelta, Added
  <2> QED
    BY <2>3, <2>4, AlikeEdit, EditStep
<1>5. CASE \E m \in Messages, x \in Seconds : AddSeconds(t, m, x)
  <2>1. PICK m \in Messages, x \in Seconds : AddSeconds(t, m, x)
    BY <1>5
  <2> DEFINE s == smf_track_add_event_seconds(song, t, Event(m.kind, m.val, 0), x)
  <2>2. Alike(s, song) /\ Keeps(s, song)
    BY <1>2, <2>1, PulseTyped, AddedOutline, AddedKeeps DEF AddSeconds
  <2>3. \E anew, sound : Edit(s, anew, sound)
    BY <2>1 DEF AddSeconds, Added
  <2> QED
    BY <2>2, <2>3, AlikeEdit, EditStep
<1> QED
  BY <1>1, <1>3, <1>4, <1>5

LEMMA RemoveStep ==
    ASSUME OrderInv, RemoveAny
    PROVE  OrderInv'
<1>1. PICK e \in EventsIn(song) : RemoveEvent(e[1], e[2])
  BY DEF RemoveAny
<1> DEFINE s == smf_event_remove_from_track(song, e[1], e[2])
<1>2. Alike(s, song) /\ Keeps(s, song)
  BY PlacesOfTracks, smf_event_removeOutline, smf_event_removeKeeps
<1>3. \E anew, sound : Edit(s, anew, sound)
  BY <1>1 DEF RemoveEvent
<1> QED
  BY <1>2, <1>3, AlikeEdit, EditStep

LEMMA NewTrackStep ==
    ASSUME OrderInv, NewTrack
    PROVE  OrderInv'
BY NewTrack_Empty, EmptyInOrder DEF OrderInv, NewTrack

LEMMA AddTrackStep ==
    ASSUME OrderInv, AddTrack
    PROVE  OrderInv'
<1>1. PICK tr : hand = << tr >> /\ Tracklike(tr) /\ InOrder(tr.events)
  BY DEF OrderInv, AddTrack
<1> DEFINE n == Len(song.tracks) + 1
           new == [tr EXCEPT !.number = n]
<1>2. /\ song' = smf_add_track(song, tr) /\ hand' = << >>
      /\ stale' = stale \cup IF tr.events = << >> THEN {} ELSE Stale
  BY <1>1 DEF AddTrack
<1>3. n \in Nat /\ n >= 1 /\ n - 1 = Len(song.tracks) /\ DOMAIN song.tracks = 1 .. n - 1
  BY PlacesOfTracks
<1>4. Fits(song') /\ song'.tracks = Append(song.tracks, new) /\ IsSequence(song.tracks)
  BY <1>1, <1>2, AddTrackFits DEF OrderInv, Fits, Songlike
<1>5. new.events = tr.events /\ new.number = n
  BY <1>1 DEF Tracklike, TrackFields
<1> HIDE DEF new, n
<1>6. /\ DOMAIN song'.tracks = 1 .. n /\ (\A i \in 1 .. n - 1 : song'.tracks[i] = song.tracks[i])
      /\ song'.tracks[n] = new
  <2>1. (n - 1) + 1 = n
    BY <1>3
  <2> QED
    BY <1>3, <1>4, <2>1, AppendedSequence, SequenceFacts
<1>7. Orderly(song')
  <2>1. \A i \in 1 .. n : i \in 1 .. n - 1 \/ i = n
    BY <1>3
  <2>2. InOrder(new.events) /\ \A i \in 1 .. n - 1 : InOrder(song.tracks[i].events)
    BY <1>1, <1>3, <1>5 DEF Orderly, OrderInv
  <2> QED
    BY <1>4, <1>6, <2>1, <2>2 DEF Orderly, Fits
<1>8. "numbers" \notin stale' => Owned(song')
  <2> SUFFICES ASSUME "numbers" \notin stale' PROVE Owned(song')
    OBVIOUS
  <2>1. "numbers" \notin stale /\ tr.events = << >>
    BY <1>2 DEF Stale
  <2>2. OwnedBy(tr.events, n)
    BY <2>1, EmptyInOrder
  <2>3. \A i \in 1 .. n : i \in 1 .. n - 1 \/ i = n
    BY <1>3
  <2>4. \A i \in 1 .. n - 1 : OwnedBy(song.tracks[i].events, song.tracks[i].number)
    BY <1>3, <2>1 DEF Owned, OrderInv
  <2> QED
    BY <1>5, <1>6, <2>1, <2>2, <2>3, <2>4 DEF Owned
<1> QED
  BY <1>2, <1>4, <1>7, <1>8 DEF OrderInv

LEMMA DetachStep ==
    ASSUME OrderInv, Detach
    PROVE  OrderInv'
<1>1. CASE \E t \in DOMAIN song.tracks : RemoveTrack(t)
  <2>1. PICK t \in DOMAIN song.tracks : RemoveTrack(t)
    BY <1>1
  <2> DEFINE tr == [song.tracks[t] EXCEPT !.number = -1]
  <2>2. /\ song' = smf_track_remove_from_smf(song, t) /\ hand' = << tr >>
        /\ "numbers" \in stale => "numbers" \in stale'
    BY <2>1 DEF RemoveTrack
  <2>3. Fits(song') /\ Keeps(song', song)
    BY <2>2, RemoveTrackFits, RemoveTrackKeeps DEF OrderInv
  <2>4. Tracklike(tr) /\ tr.events = song.tracks[t].events
    BY PlacesOfTracks DEF Songlike, Tracklike, TrackFields
  <2>5. InOrder(tr.events)
    BY <2>4 DEF OrderInv, Orderly
  <2> HIDE DEF tr
  <2> QED
    BY <2>2, <2>3, <2>4, <2>5 DEF OrderInv, Keeps
<1>2. CASE DeleteHand
  <2>1. Same(song', song) /\ hand' = << >> /\ stale' = stale
    BY <1>2, PlacesOfTracks, AbortSame, SameReflexive DEF DeleteHand
  <2>2. Fits(song') /\ Keeps(song', song)
    BY <2>1, SameAlike, AlikeEdit, SameKeeps
  <2> QED
    BY <2>1, <2>2 DEF OrderInv, Keeps
<1> QED
  BY <1>1, <1>2 DEF Detach

LEMMA DeleteStep ==
    ASSUME OrderInv, Delete
    PROVE  OrderInv'
<1>1. CASE \E t \in DOMAIN song.tracks : DeleteTrack(t)
  <2>1. PICK t \in DOMAIN song.tracks : DeleteTrack(t)
    BY <1>1
  <2>2. Fits(smf_track_delete(song, t)) /\ Keeps(smf_track_delete(song, t), song)
    BY TrackDeleteFits, TrackDeleteKeeps DEF OrderInv
  <2>3. \E anew, sound : Edit(smf_track_delete(song, t), anew, sound)
    BY <2>1 DEF DeleteTrack
  <2> QED
    BY <2>2, <2>3, EditStep
<1>2. CASE DeleteSong
  <2>1. Fits(song') /\ Len(song'.tracks) = 0 /\ hand' = hand
    BY <1>2, DeleteFits, NewFits DEF DeleteSong, Put, OrderInv
  <2> QED
    BY <2>1, NoTracks DEF OrderInv
<1> QED
  BY <1>1, <1>2 DEF Delete

LEMMA HeaderStep ==
    ASSUME OrderInv, Header
    PROVE  OrderInv'
<1>1. PICK s : Put(s, stale) /\ \E v : s \in {smf_set_format(song, v), smf_set_ppqn(song, v)}
  BY DEF Header, SetFormat, SetPpqn
<1>2. Fits(s) /\ Keeps(s, song)
  BY <1>1, PlacesOfTracks, HeaderFits, HeaderKeeps DEF OrderInv
<1> QED
  BY <1>1, <1>2, KeptStep

LEMMA PlayStep ==
    ASSUME OrderInv, Play \/ Seek
    PROVE  OrderInv'
<1>1. Songlike(song)
  BY PlacesOfTracks
<1>2. PICK s, now : Put(s, now) /\ Same(s, song) /\ ("numbers" \in stale => "numbers" \in now)
  <2>1. CASE GetNextEvent
    BY <1>1, <2>1, smf_get_next_eventSame DEF GetNextEvent
  <2>2. CASE PeekNextEvent
    BY <1>1, <2>2, AbortSame DEF PeekNextEvent
  <2>3. CASE Rewind
    BY <1>1, <2>3, smf_rewindSame DEF Rewind
  <2>4. CASE \E e \in EventsIn(song) : SeekToEvent(e)
    BY <1>1, <2>4, SeekSame DEF SeekToEvent
  <2>5. CASE \E p \in Pulses : SeekToPulses(p)
    BY <1>1, <2>5, SeekSame DEF SeekToPulses
  <2>6. CASE \E x \in Seconds : SeekToSeconds(x)
    BY <1>1, <2>6, SeekSame DEF SeekToSeconds
  <2> QED
    BY <2>1, <2>2, <2>3, <2>4, <2>5, <2>6 DEF Play, Seek
<1>3. Fits(s) /\ Keeps(s, song)
  BY <1>2, SameAlike, AlikeEdit, SameKeeps
<1> QED
  BY <1>2, <1>3, KeptStep

LEMMA OrderStep ==
    OrderInv /\ [Next]_vars => OrderInv'
<1> SUFFICES ASSUME OrderInv, [Next]_vars PROVE OrderInv'
  OBVIOUS
<1>1. CASE UNCHANGED vars
  BY <1>1 DEF vars, OrderInv
<1>2. CASE Next
  BY <1>2, AddStep, AddOtherStep, RemoveStep, NewTrackStep, AddTrackStep, DetachStep, DeleteStep,
     HeaderStep, PlayStep DEF Next
<1> QED
  BY <1>1, <1>2

LEMMA OrderInvariant == Spec => []OrderInv
BY OrderInit, OrderStep, PTL DEF Spec

LEMMA OrderMeans ==
    ASSUME OrderInv
    PROVE  Consistent
<1>1. /\ Songlike(song) /\ Len(song.tracks) \in Nat /\ DOMAIN song.tracks = 1 .. Len(song.tracks)
  BY PlacesOfTracks
<1>2. ASSUME NEW tr \in Range(song.tracks \o hand)
      PROVE  InOrder(tr.events)
  <2> DEFINE m == Len(song.tracks)
             S == {song.tracks[i] : i \in 1 .. m}
  <2>1. song.tracks = [i \in 1 .. m |-> song.tracks[i]]
    BY <1>1, SequenceFacts DEF Songlike
  <2>2. song.tracks \in Seq(S)
    BY <1>1, <2>1
  <2>3. CASE hand = << >>
    <3>1. song.tracks \o hand = song.tracks
      BY <2>2, <2>3
    <3>2. PICK i \in DOMAIN song.tracks : tr = song.tracks[i]
      BY <1>2, <3>1 DEF Range
    <3> QED
      BY <3>2 DEF OrderInv, Orderly
  <2>4. CASE hand # << >>
    <3>1. PICK h : hand = << h >> /\ InOrder(h.events)
      BY <2>4 DEF OrderInv
    <3> DEFINE all == song.tracks \o << h >>
    <3>2. /\ DOMAIN all = 1 .. m + 1 /\ (\A i \in 1 .. m : all[i] = song.tracks[i])
          /\ all[m + 1] = h
      BY <1>1, <2>2
    <3>3. PICK i \in DOMAIN all : tr = all[i]
      BY <1>2, <3>1 DEF Range
    <3> HIDE DEF all, m
    <3>4. i \in 1 .. m \/ i = m + 1
      BY <1>1, <3>2, <3>3 DEF m
    <3> QED
      BY <1>1, <3>1, <3>2, <3>3, <3>4 DEF OrderInv, Orderly, m
  <2> QED
    BY <2>3, <2>4
<1>3. TracksInOrder
  <2>1. ASSUME NEW tr \in Range(song.tracks \o hand), NEW i \in DOMAIN tr.events
        PROVE  LET before == IF i = 1 THEN 0 ELSE tr.events[i - 1].pulses
               IN  /\ tr.events[i].number = i
                   /\ tr.events[i].delta = tr.events[i].pulses - before
                   /\ tr.events[i].delta >= 0
    BY <1>2 DEF InOrder, Before
  <2> QED
    BY <2>1 DEF TracksInOrder
<1>4. TracksNumbered
  BY DEF TracksNumbered, OrderInv, Fits, Owned, OwnedBy
<1> QED
  BY <1>3, <1>4 DEF Consistent

\* Whatever functions of the library a program calls, in whatever order, the
\* events of every track, the detached one included, are in the order of their
\* pulses; each delta is the time since the event before, each number is the
\* event's place, and the number of the track that an event keeps is its own
\* track's unless that was attached with events in it (smf.c:178, :441, :581).
THEOREM OrderCorrect == Spec => []Consistent
<1>1. OrderInv => Consistent
  BY OrderMeans
<1> QED
  BY <1>1, OrderInvariant, PTL

-----------------------------------------------------------------------------
(* Which assertions of the library fail, and in what order it plays.        *)

FailInv ==
    /\ OrderInv /\ Steady(song)
    /\ hand # << >> => Ready(hand[1])
    /\ song.failed = "" /\ "seconds" \notin stale => Begun(song)
    /\ "position" \notin stale => Placed(song)
    /\ FailsOnlyWhenStale

LEMMA FailInit == Init => FailInv
<1> SUFFICES ASSUME Init PROVE FailInv
  OBVIOUS
<1>1. OrderInv
  BY OrderInit
<1>2. song = smf_new /\ hand = << >> /\ stale = {}
  BY DEF Init
<1>3. Steady(song) /\ Placed(song) /\ Begun(song) /\ song.failed = ""
  BY <1>2, NewSteady, SongAssumption
<1> QED
  BY <1>1, <1>2, <1>3 DEF FailInv, FailsOnlyWhenStale

\* A call that leaves the track in hand alone.
LEMMA PutFails ==
    ASSUME FailInv, OrderInv', NEW s, NEW now, Put(s, now), Steady(s),
           \/ s.failed = ""
           \/ s.failed = "event" /\ "position" \in now
           \/ s.failed = "tempo" /\ "seconds" \in now,
           s.failed = "" /\ "seconds" \notin now => Begun(s),
           "position" \notin now => Placed(s)
    PROVE  FailInv'
BY DEF FailInv, Put, FailsOnlyWhenStale

LEMMA EditFails ==
    ASSUME FailInv, OrderInv', NEW s, NEW anew \in BOOLEAN, NEW sound \in BOOLEAN, Edit(s, anew, sound),
           Steady(s), s.failed = "" \/ (s.failed = "tempo" /\ ~Begun(song)),
           sound /\ Begun(song) => Begun(s),
           anew /\ s.failed = "" => Placed(s) /\ Begun(s)
    PROVE  FailInv'
<1> DEFINE now == IF anew /\ s.failed = "" THEN stale \ {"position", "seconds"}
                  ELSE stale \cup {"position"} \cup (IF sound THEN {} ELSE {"seconds"})
<1>1. Put(s, now) /\ song.failed = ""
  BY DEF Edit, Put
<1>2. "seconds" \notin stale => Begun(song)
  BY <1>1 DEF FailInv
<1>3. CASE anew /\ s.failed = ""
  BY <1>1, <1>3, PutFails
<1>4. CASE ~(anew /\ s.failed = "")
  <2>1. "position" \in now /\ (sound \/ "seconds" \in now) /\ ("seconds" \in stale => "seconds" \in now)
    BY <1>4
  <2> HIDE DEF now
  <2> QED
    BY <1>1, <1>2, <2>1, PutFails
<1> QED
  BY <1>3, <1>4

\* The first part of what an edit needs, for the functions that add an event.
LEMMA EditedFails ==
    ASSUME FailInv, OrderInv', NEW s, NEW anew \in BOOLEAN, NEW sound \in BOOLEAN, Edit(s, anew, sound),
           Edited(s, song), anew /\ s.failed = "" => Placed(s) /\ Begun(s)
    PROVE  FailInv'
<1>1. song.failed = ""
  BY DEF Edit, Put
<1> QED
  BY <1>1, EditFails DEF Edited

\* An event added: p is where, if there is a tempo map.
LEMMA AddedFails ==
    ASSUME FailInv, OrderInv', NEW s, NEW m, NEW p, NEW sound \in BOOLEAN, Added(s, m, p, sound),
           Edited(s, song),
           m.kind \in {"tempo", "sig"} /\ p < smf_get_length_pulses(song) /\ s.failed = ""
              => Placed(s) /\ Begun(s)
    PROVE  FailInv'
<1> DEFINE anew == m.kind \in {"tempo", "sig"} /\ p < smf_get_length_pulses(song)
           right == sound /\ (m.kind \in {"tempo", "sig"} => TemposAt(song, p) = {})
<1>1. Edit(s, anew, right)
  BY DEF Added
<1>2. anew \in BOOLEAN /\ right \in BOOLEAN
  OBVIOUS
<1>3. anew /\ s.failed = "" => Placed(s) /\ Begun(s)
  OBVIOUS
<1> HIDE DEF anew, right
<1> QED
  BY <1>1, <1>2, <1>3, EditedFails

LEMMA AddFails ==
    ASSUME FailInv, OrderInv', Add
    PROVE  FailInv'
<1>1. PICK t \in DOMAIN song.tracks, m \in Messages, p \in Pulses : AddPulses(t, m, p)
  BY DEF Add
<1> DEFINE s == smf_track_add_event_pulses(song, t, Event(m.kind, m.val, 0), p)
<1>2. Added(s, m, p, TRUE) /\ song.failed = "" /\ p \in Nat /\ Steady(song)
  BY <1>1, SongAssumption DEF AddPulses, Added, Edit, Put, FailInv
<1>3. /\ Edited(s, song)
      /\ m.kind \in {"tempo", "sig"} /\ p < smf_get_length_pulses(song) /\ s.failed = ""
            => Placed(s) /\ Begun(s)
  BY <1>2, AddedEdited
<1> HIDE DEF s
<1> QED
  BY <1>2, <1>3, AddedFails

LEMMA AddOtherFails ==
    ASSUME FailInv, OrderInv', AddOther
    PROVE  FailInv'
<1>1. PICK t \in DOMAIN song.tracks :
         \/ AddEot(t)
         \/ \E m \in Messages : \/ \E d \in Pulses : AddDelta(t, m, d)
                                \/ \E x \in Seconds : AddSeconds(t, m, x)
  BY DEF AddOther
<1>2. song.failed = "" /\ Steady(song)
  BY <1>1 DEF AddEot, AddDelta, AddSeconds, Added, Edit, Put, FailInv
<1>3. CASE AddEot(t)
  <2>1. \E s, sound : sound \in BOOLEAN /\ Edit(s, FALSE, sound) /\ Edited(s, song)
    <3>1. CASE \E d \in Pulses :
                  /\ last_event_pulses(song.tracks[t]) + d \in Pulses
                  /\ Edit(smf_track_add_eot_delta_pulses(song, t, 0, d), FALSE, TRUE)
      BY <1>2, <3>1, EotEdited, SongAssumption
    <3>2. CASE \E p \in Pulses : Edit(smf_track_add_eot_pulses(song, t, 0, p), FALSE, TRUE)
      BY <1>2, <3>2, EotEdited, SongAssumption
    <3>3. CASE \E x \in Seconds :
                  /\ PulseOf(x) \in Pulses
                  /\ Edit(smf_track_add_eot_seconds(song, t, 0, x), FALSE, IsPulse(x))
      <4>1. PICK x \in Seconds : /\ PulseOf(x) \in Pulses
                                 /\ Edit(smf_track_add_eot_seconds(song, t, 0, x), FALSE, IsPulse(x))
        BY <3>3
      <4>2. x \in Nat /\ IsPulse(x) \in BOOLEAN
        BY SongAssumption DEF IsPulse
      <4> QED
        BY <1>2, <4>1, <4>2, PulseTyped, EotEdited
    <3> QED
      BY <1>3, <3>1, <3>2, <3>3 DEF AddEot
  <2> QED
    BY <2>1, EditedFails
<1>4. CASE \E m \in Messages, d \in Pulses : AddDelta(t, m, d)
  <2>1. PICK m \in Messages, d \in Pulses : AddDelta(t, m, d)
    BY <1>4
  <2> DEFINE p == last_event_pulses(song.tracks[t]) + d
             s == smf_track_add_event_pulses(song, t, Event(m.kind, m.val, 0), p)
  <2>2. p \in Nat /\ Added(s, m, p, TRUE)
    BY <2>1, SongAssumption DEF AddDelta, smf_track_add_event_delta_pulses
  <2> HIDE DEF p
  <2>3. /\ Edited(s, song)
        /\ m.kind \in {"tempo", "sig"} /\ p < smf_get_length_pulses(song) /\ s.failed = ""
              => Placed(s) /\ Begun(s)
    BY <1>2, <2>2, AddedEdited
  <2> HIDE DEF s
  <2> QED
    BY <2>2, <2>3, AddedFails
<1>5. CASE \E m \in Messages, x \in Seconds : AddSeconds(t, m, x)
  <2>1. PICK m \in Messages, x \in Seconds : AddSeconds(t, m, x)
    BY <1>5
  <2> DEFINE p == pulses_from_seconds(song, x)
             s == smf_track_add_event_seconds(song, t, Event(m.kind, m.val, 0), x)
  <2>2. /\ PulseOf(x) \in Pulses /\ Added(s, m, PulseOf(x), IsPulse(x))
        /\ x \in Nat /\ IsPulse(x) \in BOOLEAN
    BY <2>1, SongAssumption DEF AddSeconds, IsPulse
  <2>3. /\ Edited(s, song)
        /\ m.kind \in {"tempo", "sig"} /\ p < smf_get_length_pulses(song) /\ s.failed = ""
              => Placed(s) /\ Begun(s)
    BY <1>2, <2>2, PulseTyped, AddedEdited
  <2>4. song.tempos # << >> => PulseOf(x) = p
    BY DEF PulseOf
  <2>5. song.tempos = << >> => s.failed # ""
    <3>1. song.tempos = << >> => BeforeSeconds(song, x) = {}
      BY DEF BeforeSeconds
    <3> QED
      BY <1>2, <3>1, AbortPlain DEF smf_track_add_event_seconds, Steady, Orderly
  <2> HIDE DEF s, p
  <2> QED
    BY <2>2, <2>3, <2>4, <2>5, AddedFails
<1> QED
  BY <1>1, <1>3, <1>4, <1>5

LEMMA RemoveFails ==
    ASSUME FailInv, OrderInv', RemoveAny
    PROVE  FailInv'
<1>1. PICK e \in EventsIn(song) : RemoveEvent(e[1], e[2])
  BY DEF RemoveAny
<1> DEFINE t == e[1]
           i == e[2]
           ev == song.tracks[t].events[i]
           tempo == smf_event_is_tempo_change_or_time_signature(ev)
           s == smf_event_remove_from_track(song, t, i)
           anew == tempo /\ ~smf_event_is_last(song, ev)
           sound == tempo => ev.pulses > 0 /\ TemposAt(song, ev.pulses) = {<< t, i >>}
<1>2. t \in DOMAIN song.tracks /\ i \in DOMAIN song.tracks[t].events /\ << t, i >> \in EventsIn(song)
  BY DEF EventsIn
<1>3. << t, i >> \in Tempos(song) <=> tempo
  BY <1>2 DEF Tempos, EventAt
<1>4. Edit(s, anew, sound) /\ song.failed = "" /\ Steady(song)
  BY <1>1, <1>3 DEF RemoveEvent, Edit, Put, FailInv
<1>5. /\ Steady(s) /\ s.failed = ""
      /\ Begun(song) /\ (tempo => ev.pulses # 0) => Begun(s)
      /\ tempo /\ ~smf_event_is_last(song, ev) => Placed(s) /\ Begun(s)
  BY <1>2, <1>4, smf_event_removeSteady
<1>6. sound => (tempo => ev.pulses # 0)
  OBVIOUS
<1>7. anew \in BOOLEAN /\ sound \in BOOLEAN /\ (anew => Placed(s) /\ Begun(s))
  BY <1>5
<1> HIDE DEF s, anew, sound
<1> QED
  BY <1>4, <1>5, <1>6, <1>7, EditFails

LEMMA AddTrackFails ==
    ASSUME FailInv, OrderInv', AddTrack
    PROVE  FailInv'
<1>1. PICK tr : hand = << tr >> /\ Tracklike(tr) /\ Ready(tr)
  <2>1. PICK tr : hand = << tr >> /\ Tracklike(tr)
    BY DEF OrderInv, AddTrack, FailInv
  <2>2. hand # << >> /\ hand[1] = tr
    BY <2>1
  <2>3. Ready(tr)
    BY <2>2 DEF FailInv
  <2> QED
    BY <2>1, <2>3
<1>2. /\ song' = smf_add_track(song, tr) /\ hand' = << >> /\ song.failed = ""
      /\ stale' = stale \cup IF tr.events = << >> THEN {} ELSE Stale
  BY <1>1 DEF AddTrack
<1>3. Orderly(smf_add_track(song, tr))
  BY <1>2 DEF OrderInv
<1>4. /\ Steady(song') /\ song'.failed = song.failed /\ (Begun(song) <=> Begun(song'))
      /\ Placed(song) /\ tr.events = << >> => Placed(song')
  BY <1>1, <1>2, <1>3, AddTrackSteady DEF FailInv, OrderInv
<1> QED
  BY <1>2, <1>4 DEF FailInv, FailsOnlyWhenStale, Stale

LEMMA DetachFails ==
    ASSUME FailInv, OrderInv', Detach
    PROVE  FailInv'
<1>1. CASE \E t \in DOMAIN song.tracks : RemoveTrack(t)
  <2>1. PICK t \in DOMAIN song.tracks : RemoveTrack(t)
    BY <1>1
  <2> DEFINE tr == [song.tracks[t] EXCEPT !.number = -1]
  <2>2. /\ song' = smf_track_remove_from_smf(song, t) /\ hand' = << tr >> /\ song.failed = ""
        /\ \E more : stale' = stale \cup more
    BY <2>1 DEF RemoveTrack
  <2>3. /\ Steady(song') /\ song'.failed = song.failed /\ (Begun(song) <=> Begun(song'))
        /\ Placed(song) => Placed(song')
    BY <2>2, RemoveTrackSteady DEF FailInv, OrderInv
  <2>4. Ready(tr)
    <3>1. tr.events = song.tracks[t].events /\ tr.next = song.tracks[t].next /\ tr.time = song.tracks[t].time
      BY DEF FailInv, Steady, Orderly, Songlike, Tracklike, TrackFields
    <3> QED
      BY <3>1 DEF FailInv, Steady, Ready
  <2> HIDE DEF tr
  <2>5. hand'[1] = tr
    BY <2>2
  <2> QED
    BY <2>2, <2>3, <2>4, <2>5 DEF FailInv, FailsOnlyWhenStale
<1>2. CASE DeleteHand
  <2>1. /\ song.failed = "" /\ hand' = << >> /\ stale' = stale
        /\ song' = song \/ song' = Abort(song, "detached")
    BY <1>2 DEF DeleteHand
  <2>2. CASE song' = song
    BY <2>1, <2>2 DEF FailInv, FailsOnlyWhenStale
  <2>3. CASE song' = Abort(song, "detached")
    <3>1. Steady(song') /\ song'.failed = "detached" /\ song'.tracks = song.tracks
      BY <2>1, <2>3, AbortSteady, AbortPlain DEF FailInv, Steady, Orderly
    <3>2. Placed(song) => Placed(song')
      BY <3>1 DEF Placed
    <3> QED
      BY <2>1, <3>1, <3>2 DEF FailInv, FailsOnlyWhenStale
  <2> QED
    BY <2>1, <2>2, <2>3
<1> QED
  BY <1>1, <1>2 DEF Detach

LEMMA DeleteFails ==
    ASSUME FailInv, OrderInv', Delete
    PROVE  FailInv'
<1>1. CASE \E t \in DOMAIN song.tracks : DeleteTrack(t)
  <2>1. PICK t \in DOMAIN song.tracks : DeleteTrack(t)
    BY <1>1
  <2> DEFINE es == song.tracks[t].events
             s == smf_track_delete(song, t)
             sound == \A e \in {d \in Tempos(song) : d[1] = t} :
                         /\ EventAt(song, e).pulses > 0
                         /\ TemposAt(song, EventAt(song, e).pulses) = {e}
  <2>2. Edit(s, FALSE, sound) /\ song.failed = "" /\ sound \in BOOLEAN
    BY <2>1 DEF DeleteTrack, Edit, Put
  <2>3. /\ Steady(s) /\ s.failed = song.failed
        /\ LateTempos(es) /\ Begun(song) => Begun(s)
    BY TrackDeleteSteady DEF FailInv, OrderInv
  <2>4. sound => LateTempos(es)
    <3> SUFFICES ASSUME sound, NEW i \in DOMAIN es, smf_event_is_tempo_change_or_time_signature(es[i])
                 PROVE  es[i].pulses # 0
      BY DEF LateTempos
    <3>1. << t, i >> \in EventsIn(song) /\ EventAt(song, << t, i >>) = es[i]
      BY DEF EventsIn, EventAt
    <3>2. << t, i >> \in {d \in Tempos(song) : d[1] = t}
      BY <3>1 DEF Tempos
    <3>3. es[i].pulses > 0
      BY <3>1, <3>2
    <3> QED
      BY <3>3
  <2> HIDE DEF s, sound
  <2> QED
    BY <2>2, <2>3, <2>4, EditFails
<1>2. CASE DeleteSong
  <2>1. song.failed = ""
    BY <1>2 DEF DeleteSong, Put
  <2>2. smf_delete(song).failed = ""
    BY <2>1, DeleteSteady DEF FailInv, OrderInv
  <2>3. Put(smf_new, {})
    BY <1>2, <2>2 DEF DeleteSong
  <2> QED
    BY <2>3, NewSteady, SongAssumption, PutFails
<1> QED
  BY <1>1, <1>2 DEF Delete

LEMMA HeaderFails ==
    ASSUME FailInv, OrderInv', Header
    PROVE  FailInv'
<1>1. PICK s : /\ Put(s, stale)
               /\ \/ \E f \in {0, 1} : s = smf_set_format(song, f)
                  \/ \E n \in Ppqns : s = smf_set_ppqn(song, n)
  BY DEF Header, SetFormat, SetPpqn
<1>2. /\ Steady(s) /\ s.failed = song.failed /\ (Begun(song) <=> Begun(s))
      /\ Placed(song) => Placed(s)
  BY <1>1, HeaderSteady, SongAssumption DEF FailInv
<1>3. song.failed = ""
  BY <1>1 DEF Put
<1> QED
  BY <1>1, <1>2, <1>3, PutFails DEF FailInv

LEMMA PlayFails ==
    ASSUME FailInv, OrderInv', Play
    PROVE  FailInv'
<1>1. Steady(song)
  BY DEF FailInv
<1>2. CASE GetNextEvent
  <2> DEFINE s == smf_get_next_event(song)
  <2>1. Put(s, stale) /\ song.failed = ""
    BY <1>2 DEF GetNextEvent, Put
  <2>2. /\ Steady(s) /\ (Begun(song) <=> Begun(s)) /\ (Placed(song) => Placed(s))
        /\ s.failed = "" \/ (s.failed = "event" /\ ~Placed(song))
    BY <1>1, <2>1, smf_get_next_eventSteady
  <2>3. /\ "seconds" \notin stale => Begun(song)
        /\ "position" \notin stale => Placed(song)
    BY <2>1 DEF FailInv
  <2> HIDE DEF s
  <2> QED
    BY <2>1, <2>2, <2>3, PutFails
<1>3. CASE PeekNextEvent
  <2> DEFINE s == Abort(song, "event")
  <2>1. Put(s, stale) /\ song.failed = "" /\ Astray(song)
    BY <1>3 DEF PeekNextEvent, Put
  <2>2. ~Placed(song)
    BY <1>1, <2>1, NeverAstray DEF Astray
  <2>3. Steady(s) /\ s.failed = "event"
    BY <1>1, <2>1, AbortSteady, AbortPlain DEF Steady, Orderly
  <2>4. "position" \in stale
    BY <2>1, <2>2 DEF FailInv
  <2> HIDE DEF s
  <2> QED
    BY <2>1, <2>3, <2>4, PutFails
<1>4. CASE Rewind
  <2> DEFINE s == smf_rewind(song)
  <2>1. Put(s, stale \ {"position"}) /\ song.failed = ""
    BY <1>4 DEF Rewind, Put
  <2>2. /\ Steady(s) /\ Placed(s) /\ s.failed = "" /\ (Begun(song) => Begun(s))
    BY <1>1, <2>1, smf_rewindSteady DEF Begun
  <2>3. "seconds" \notin stale => Begun(song)
    BY <2>1 DEF FailInv
  <2> HIDE DEF s
  <2> QED
    BY <2>1, <2>2, <2>3, PutFails
<1> QED
  BY <1>2, <1>3, <1>4 DEF Play

LEMMA SeekFails ==
    ASSUME FailInv, OrderInv', Seek
    PROVE  FailInv'
<1>1. CASE \E x \in Seconds : song.seek = x /\ SeekToSeconds(x)
  <2>1. Put(song, stale)
    BY <1>1 DEF SeekToSeconds, smf_seek_to_seconds
  <2>2. song.failed = ""
    BY <2>1 DEF Put
  <2> QED
    BY <2>1, <2>2, PutFails DEF FailInv
<1>2. CASE \E s : /\ Put(s, stale \ {"position"})
                  /\ \/ \E e : s = smf_seek_to_event(song, e)
                     \/ \E p : s = smf_seek_to_pulses(song, p)
                     \/ \E x : song.seek # x /\ s = smf_seek_to_seconds(song, x)
  <2>1. PICK s : /\ Put(s, stale \ {"position"})
                 /\ \/ \E e : s = smf_seek_to_event(song, e)
                    \/ \E p : s = smf_seek_to_pulses(song, p)
                    \/ \E x : song.seek # x /\ s = smf_seek_to_seconds(song, x)
    BY <1>2
  <2>2. song.failed = "" /\ Steady(song)
    BY <2>1 DEF Put, FailInv
  <2>3. Steady(s) /\ Placed(s) /\ s.failed = "" /\ (Begun(song) => Begun(s))
    BY <2>1, <2>2, SeekSteady
  <2>4. "seconds" \notin stale => Begun(song)
    BY <2>2 DEF FailInv
  <2> QED
    BY <2>1, <2>3, <2>4, PutFails
<1> QED
  BY <1>1, <1>2 DEF Seek, SeekToEvent, SeekToPulses, SeekToSeconds

LEMMA FailStep ==
    FailInv /\ [Next]_vars => FailInv'
<1> SUFFICES ASSUME FailInv, [Next]_vars PROVE FailInv'
  OBVIOUS
<1>1. OrderInv'
  BY OrderStep DEF FailInv
<1>2. CASE UNCHANGED vars
  BY <1>1, <1>2 DEF vars, FailInv, FailsOnlyWhenStale
<1>3. CASE NewTrack
  <2>1. song' = song /\ stale' = stale /\ hand' = << smf_track_new >>
    BY <1>3 DEF NewTrack
  <2>2. hand'[1] = smf_track_new
    BY <2>1
  <2>3. Ready(smf_track_new)
    BY DEF Ready, smf_track_new
  <2> HIDE DEF smf_track_new
  <2> QED
    BY <1>1, <2>1, <2>2, <2>3 DEF FailInv, FailsOnlyWhenStale
<1>4. CASE Next /\ ~NewTrack
  BY <1>1, <1>4, AddFails, AddOtherFails, RemoveFails, AddTrackFails, DetachFails, DeleteFails,
     HeaderFails, PlayFails, SeekFails DEF Next
<1> QED
  BY <1>2, <1>3, <1>4

LEMMA FailInvariant == Spec => []FailInv
BY FailInit, FailStep, PTL DEF Spec

\* Whatever functions a program calls, in whatever order, no assertion of the
\* library fails but three: an event the position is on may be gone when the
\* song is played after an edit without a rewind (smf.c:705), a time cannot be
\* told once the tempo map has lost its entry for the start (smf_tempo.c:203),
\* and a track that has events but no song cannot be deleted (smf.c:588).
THEOREM FailuresCorrect == Spec => []FailsOnlyWhenStale
<1>1. FailInv => FailsOnlyWhenStale
  BY DEF FailInv
<1> QED
  BY <1>1, FailInvariant, PTL

\* What a position in its place means for the events that remain.
LEMMA PlacedMeans ==
    ASSUME FailInv
    PROVE  PlaysInOrder
<1> SUFFICES ASSUME "position" \notin stale
             PROVE  /\ ~Astray(song)
                    /\ \A d \in EventsIn(song) \ Remaining(song), e \in Remaining(song) :
                          EventAt(song, d).pulses <= EventAt(song, e).pulses
  BY DEF PlaysInOrder
<1>1. Steady(song) /\ Placed(song)
  BY DEF FailInv
<1>2. ~Astray(song)
  BY <1>1, NeverAstray DEF Astray
<1>3. ASSUME NEW d \in EventsIn(song) \ Remaining(song), NEW e \in Remaining(song)
      PROVE  EventAt(song, d).pulses <= EventAt(song, e).pulses
  <2>1. /\ d[1] \in DOMAIN song.tracks /\ d[2] \in DOMAIN song.tracks[d[1]].events
        /\ e[1] \in DOMAIN song.tracks /\ e[2] \in DOMAIN song.tracks[e[1]].events
        /\ e \in EventsIn(song)
    BY DEF EventsIn, Remaining
  <2>2. /\ \A t \in DOMAIN song.tracks :
              DOMAIN song.tracks[t].events \subseteq Nat /\ song.tracks[t].next \in Int
    BY <1>1, SequenceFacts DEF Steady, Ready, Orderly, InOrder
  <2>3. Past(song.tracks[d[1]], d[2]) /\ ~Past(song.tracks[e[1]], e[2])
    BY <2>1, <2>2 DEF Remaining, Past
  <2> QED
    BY <1>1, <2>1, <2>3 DEF Placed, Behind, EventAt
<1> QED
  BY <1>2, <1>3

\* As long as the position is not left behind by an edit, the library plays
\* the events of all the tracks in the order of their pulses: nothing that was
\* played is later than anything that remains, and the event the position is on
\* is one that there is (smf.c:807, smf.c:835).
THEOREM PlaysCorrect == Spec => []PlaysInOrder
<1>1. FailInv => PlaysInOrder
  BY PlacedMeans
<1> QED
  BY <1>1, FailInvariant, PTL

-----------------------------------------------------------------------------
(* Where a seek lands.  To seek to a time is to seek to a pulse only while *)
(* the tempo map and the times that the events keep are in step, and that  *)
(* is the part of the invariant that `stale' is there to follow.           *)

SyncInv ==
    /\ FailInv /\ Counted(song)
    /\ hand # << >> => TempoValues(hand[1].events)
    /\ song.failed = "" /\ "seconds" \notin stale => Synced(song)

LEMMA SyncInit == Init => SyncInv
<1> SUFFICES ASSUME Init PROVE SyncInv
  OBVIOUS
<1>1. song = smf_new /\ hand = << >>
  BY DEF Init
<1>2. Counted(song) /\ Synced(song)
  BY <1>1, NewSynced, SongAssumption
<1> QED
  BY <1>1, <1>2, FailInit DEF SyncInv

LEMMA PutSyncs ==
    ASSUME SyncInv, FailInv', NEW s, NEW now, Put(s, now), Counted(s),
           s.failed = "" /\ "seconds" \notin now => Synced(s)
    PROVE  SyncInv'
BY DEF SyncInv, Put

LEMMA EditSyncs ==
    ASSUME SyncInv, FailInv', NEW s, NEW anew \in BOOLEAN, NEW sound \in BOOLEAN, Edit(s, anew, sound),
           Counted(s), sound /\ Synced(song) => Synced(s), anew /\ s.failed = "" => Synced(s)
    PROVE  SyncInv'
<1> DEFINE now == IF anew /\ s.failed = "" THEN stale \ {"position", "seconds"}
                  ELSE stale \cup {"position"} \cup (IF sound THEN {} ELSE {"seconds"})
<1>1. Put(s, now) /\ song.failed = ""
  BY DEF Edit, Put
<1>2. CASE anew /\ s.failed = ""
  BY <1>1, <1>2, PutSyncs
<1>3. CASE ~(anew /\ s.failed = "")
  <2>1. (sound \/ "seconds" \in now) /\ ("seconds" \in stale => "seconds" \in now)
    BY <1>3
  <2> HIDE DEF now
  <2>2. "seconds" \notin now => Synced(s)
    BY <1>1, <2>1 DEF SyncInv
  <2> QED
    BY <1>1, <2>2, PutSyncs
<1> QED
  BY <1>2, <1>3

LEMMA AddedSyncs ==
    ASSUME SyncInv, FailInv', NEW s, NEW m, NEW p, NEW sound \in BOOLEAN, Added(s, m, p, sound),
           Counted(s), sound /\ Synced(song) => Synced(s),
           m.kind \in {"tempo", "sig"} /\ p < smf_get_length_pulses(song) /\ s.failed = "" => Synced(s)
    PROVE  SyncInv'
<1> DEFINE anew == m.kind \in {"tempo", "sig"} /\ p < smf_get_length_pulses(song)
           right == sound /\ (m.kind \in {"tempo", "sig"} => TemposAt(song, p) = {})
<1>1. Edit(s, anew, right)
  BY DEF Added
<1>2. anew \in BOOLEAN /\ right \in BOOLEAN /\ (right => sound)
  OBVIOUS
<1>3. anew /\ s.failed = "" => Synced(s)
  OBVIOUS
<1> HIDE DEF anew, right
<1> QED
  BY <1>1, <1>2, <1>3, EditSyncs

LEMMA AddSyncs ==
    ASSUME SyncInv, FailInv', Add
    PROVE  SyncInv'
<1>1. PICK t \in DOMAIN song.tracks, m \in Messages, p \in Pulses : AddPulses(t, m, p)
  BY DEF Add
<1> DEFINE s == smf_track_add_event_pulses(song, t, Event(m.kind, m.val, 0), p)
<1>2. /\ Added(s, m, p, TRUE) /\ song.failed = "" /\ p \in Nat /\ Steady(song) /\ Counted(song)
      /\ m.val \in Nat
  BY <1>1, SongAssumption DEF AddPulses, Added, Edit, Put, SyncInv, FailInv
<1>3. /\ Counted(s) /\ (Synced(song) => Synced(s))
      /\ m.kind \in {"tempo", "sig"} /\ p < smf_get_length_pulses(song) /\ s.failed = "" => Synced(s)
  BY <1>2, AddedSynced, SongAssumption
<1> HIDE DEF s
<1> QED
  BY <1>2, <1>3, AddedSyncs

LEMMA AddOtherSyncs ==
    ASSUME SyncInv, FailInv', AddOther
    PROVE  SyncInv'
<1>1. PICK t \in DOMAIN song.tracks :
         \/ AddEot(t)
         \/ \E m \in Messages : \/ \E d \in Pulses : AddDelta(t, m, d)
                                \/ \E x \in Seconds : AddSeconds(t, m, x)
  BY DEF AddOther
<1>2. song.failed = "" /\ Steady(song) /\ Counted(song)
  BY <1>1 DEF AddEot, AddDelta, AddSeconds, Added, Edit, Put, SyncInv, FailInv
<1>3. CASE AddEot(t)
  <2>1. \E s, sound : /\ sound \in BOOLEAN /\ Edit(s, FALSE, sound)
                      /\ Counted(s) /\ (sound /\ Synced(song) => Synced(s))
    <3>1. CASE \E d \in Pulses :
                  /\ last_event_pulses(song.tracks[t]) + d \in Pulses
                  /\ Edit(smf_track_add_eot_delta_pulses(song, t, 0, d), FALSE, TRUE)
      BY <1>2, <3>1, EotSynced, SongAssumption
    <3>2. CASE \E p \in Pulses : Edit(smf_track_add_eot_pulses(song, t, 0, p), FALSE, TRUE)
      BY <1>2, <3>2, EotSynced, SongAssumption
    <3>3. CASE \E x \in Seconds :
                  /\ PulseOf(x) \in Pulses
                  /\ Edit(smf_track_add_eot_seconds(song, t, 0, x), FALSE, IsPulse(x))
      <4>1. PICK x \in Seconds : /\ PulseOf(x) \in Pulses
                                 /\ Edit(smf_track_add_eot_seconds(song, t, 0, x), FALSE, IsPulse(x))
        BY <3>3
      <4>2. /\ x \in Nat /\ IsPulse(x) \in BOOLEAN
            /\ IsPulse(x) => seconds_from_pulses(song, pulses_from_seconds(song, x)) = x
        BY SongAssumption DEF IsPulse, PulseOf
      <4>3. BeforeSeconds(song, x) = {} \/ pulses_from_seconds(song, x) \in Nat
        BY <4>1, PulseTyped
      <4> QED
        BY <1>2, <4>1, <4>2, <4>3, EotSynced, SongAssumption
    <3> QED
      BY <1>3, <3>1, <3>2, <3>3 DEF AddEot
  <2> QED
    BY <2>1, EditSyncs
<1>4. CASE \E m \in Messages, d \in Pulses : AddDelta(t, m, d)
  <2>1. PICK m \in Messages, d \in Pulses : AddDelta(t, m, d)
    BY <1>4
  <2> DEFINE p == last_event_pulses(song.tracks[t]) + d
             s == smf_track_add_event_pulses(song, t, Event(m.kind, m.val, 0), p)
  <2>2. p \in Nat /\ Added(s, m, p, TRUE) /\ m.val \in Nat
    BY <2>1, SongAssumption DEF AddDelta, smf_track_add_event_delta_pulses
  <2> HIDE DEF p
  <2>3. /\ Counted(s) /\ (Synced(song) => Synced(s))
        /\ m.kind \in {"tempo", "sig"} /\ p < smf_get_length_pulses(song) /\ s.failed = "" => Synced(s)
    BY <1>2, <2>2, AddedSynced, SongAssumption
  <2> HIDE DEF s
  <2> QED
    BY <2>2, <2>3, AddedSyncs
<1>5. CASE \E m \in Messages, x \in Seconds : AddSeconds(t, m, x)
  <2>1. PICK m \in Messages, x \in Seconds : AddSeconds(t, m, x)
    BY <1>5
  <2> DEFINE p == pulses_from_seconds(song, x)
             s == smf_track_add_event_seconds(song, t, Event(m.kind, m.val, 0), x)
  <2>2. /\ PulseOf(x) \in Pulses /\ Added(s, m, PulseOf(x), IsPulse(x))
        /\ x \in Nat /\ IsPulse(x) \in BOOLEAN /\ m.val \in Nat
        /\ IsPulse(x) => seconds_from_pulses(song, p) = x
    BY <2>1, SongAssumption DEF AddSeconds, IsPulse, PulseOf
  <2>3. BeforeSeconds(song, x) = {} \/ p \in Nat
    BY <2>2, PulseTyped
  <2>4. /\ Counted(s) /\ (Synced(song) /\ seconds_from_pulses(song, p) = x => Synced(s))
        /\ m.kind \in {"tempo", "sig"} /\ p < smf_get_length_pulses(song) /\ s.failed = "" => Synced(s)
    BY <1>2, <2>2, <2>3, AddedSynced, SongAssumption
  <2>5. song.tempos # << >> => PulseOf(x) = p
    BY DEF PulseOf
  <2>6. song.tempos = << >> => s.failed # ""
    <3>1. song.tempos = << >> => BeforeSeconds(song, x) = {}
      BY DEF BeforeSeconds
    <3> QED
      BY <1>2, <3>1, AbortPlain DEF smf_track_add_event_seconds, Steady, Orderly
  <2> HIDE DEF s, p
  <2> QED
    BY <2>2, <2>4, <2>5, <2>6, AddedSyncs
<1> QED
  BY <1>1, <1>3, <1>4, <1>5

\* The changes of the tempo that the shape of an action asks about.
LEMMA TempoAlone ==
    ASSUME NEW e \in Tempos(song), TemposAt(song, EventAt(song, e).pulses) = {e}
    PROVE  Alone(song, e[1], e[2])
<1>1. e = << e[1], e[2] >> /\ EventAt(song, e) = song.tracks[e[1]].events[e[2]]
  BY DEF Tempos, EventsIn, EventAt
<1>2. ASSUME NEW d \in EventsIn(song), smf_event_is_tempo_change_or_time_signature(EventAt(song, d)),
             EventAt(song, d).pulses = EventAt(song, e).pulses
      PROVE  d = e
  BY <1>2 DEF Tempos, TemposAt
<1> QED
  BY <1>1, <1>2 DEF Alone

LEMMA RemoveSyncs ==
    ASSUME SyncInv, FailInv', RemoveAny
    PROVE  SyncInv'
<1>1. PICK e \in EventsIn(song) : RemoveEvent(e[1], e[2])
  BY DEF RemoveAny
<1> DEFINE t == e[1]
           i == e[2]
           ev == song.tracks[t].events[i]
           tempo == smf_event_is_tempo_change_or_time_signature(ev)
           s == smf_event_remove_from_track(song, t, i)
           anew == tempo /\ ~smf_event_is_last(song, ev)
           sound == tempo => ev.pulses > 0 /\ TemposAt(song, ev.pulses) = {e}
<1>2. /\ t \in DOMAIN song.tracks /\ i \in DOMAIN song.tracks[t].events /\ e = << t, i >>
      /\ EventAt(song, e) = ev
  BY DEF EventsIn, EventAt
<1>3. e \in Tempos(song) <=> tempo
  BY <1>2 DEF Tempos
<1>4. Edit(s, anew, sound) /\ song.failed = "" /\ Steady(song) /\ Counted(song)
  BY <1>1, <1>2, <1>3 DEF RemoveEvent, Edit, Put, SyncInv, FailInv
<1>5. sound => (tempo => ev.pulses > 0 /\ Alone(song, t, i))
  BY <1>2, <1>3, TempoAlone
<1>6. /\ Counted(s)
      /\ Synced(song) /\ (tempo => ev.pulses > 0 /\ Alone(song, t, i)) => Synced(s)
      /\ anew => Synced(s)
  BY <1>2, <1>4, smf_event_removeSynced, SongAssumption
<1>7. anew \in BOOLEAN /\ sound \in BOOLEAN
  OBVIOUS
<1>8. sound /\ Synced(song) => Synced(s)
  BY <1>5, <1>6
<1> HIDE DEF s, anew, sound
<1> QED
  BY <1>4, <1>6, <1>7, <1>8, EditSyncs

LEMMA AddTrackSyncs ==
    ASSUME SyncInv, FailInv', AddTrack
    PROVE  SyncInv'
<1>1. PICK tr : hand = << tr >> /\ Tracklike(tr)
  BY DEF SyncInv, FailInv, OrderInv, AddTrack
<1>2. hand # << >> /\ hand[1] = tr
  BY <1>1
<1>3. /\ song' = smf_add_track(song, tr) /\ hand' = << >> /\ song.failed = ""
      /\ stale' = stale \cup IF tr.events = << >> THEN {} ELSE Stale
  BY <1>2 DEF AddTrack
<1>4. TempoValues(tr.events) /\ Fits(song) /\ Counted(song)
  BY <1>2 DEF SyncInv, FailInv, OrderInv
<1>5. Counted(song') /\ (Synced(song) /\ tr.events = << >> => Synced(song'))
  BY <1>1, <1>3, <1>4, AddTrackSynced
<1>6. "seconds" \notin stale' => tr.events = << >> /\ Synced(song)
  BY <1>3 DEF SyncInv, Stale
<1> QED
  BY <1>3, <1>5, <1>6 DEF SyncInv

LEMMA DetachSyncs ==
    ASSUME SyncInv, FailInv', Detach
    PROVE  SyncInv'
<1>1. Fits(song) /\ Steady(song) /\ Counted(song)
  BY DEF SyncInv, FailInv, OrderInv
<1>2. CASE \E t \in DOMAIN song.tracks : RemoveTrack(t)
  <2>1. PICK t \in DOMAIN song.tracks : RemoveTrack(t)
    BY <1>2
  <2> DEFINE tr == [song.tracks[t] EXCEPT !.number = -1]
             tempos == \E e \in Tempos(song) : e[1] = t
  <2>2. /\ song' = smf_track_remove_from_smf(song, t) /\ hand' = << tr >> /\ song.failed = ""
        /\ stale' = stale \cup IF tempos THEN {"seconds"} ELSE {}
    BY <2>1 DEF RemoveTrack
  <2>3. /\ Counted(song')
        /\ /\ Synced(song)
           /\ \A e \in EventsIn(song) :
                 smf_event_is_tempo_change_or_time_signature(EventAt(song, e)) => e[1] # t
           => Synced(song')
    BY <1>1, <2>2, RemoveTrackSynced
  <2>4. "seconds" \notin stale' => Synced(song) /\ ~tempos
    BY <2>2 DEF SyncInv
  <2>5. ~tempos => \A e \in EventsIn(song) :
                      smf_event_is_tempo_change_or_time_signature(EventAt(song, e)) => e[1] # t
    BY DEF Tempos
  <2>6. TempoValues(tr.events)
    <3>1. tr.events = song.tracks[t].events
      BY <1>1 DEF Fits, Songlike, Tracklike, TrackFields
    <3> QED
      BY <1>1, <3>1, TracksValued DEF Counted
  <2> HIDE DEF tr, tempos
  <2>7. hand'[1] = tr
    BY <2>2
  <2> QED
    BY <2>3, <2>4, <2>5, <2>6, <2>7 DEF SyncInv
<1>3. CASE DeleteHand
  <2>1. /\ song.failed = "" /\ hand' = << >> /\ stale' = stale
        /\ song' = song \/ song' = Abort(song, "detached")
    BY <1>3 DEF DeleteHand
  <2>2. Unmoved(song', song)
    BY <1>1, <2>1, PositionUnmoved DEF Fits
  <2> QED
    BY <2>1, <2>2, UnmovedMarks DEF SyncInv
<1> QED
  BY <1>2, <1>3 DEF Detach

LEMMA DeleteSyncs ==
    ASSUME SyncInv, FailInv', Delete
    PROVE  SyncInv'
<1>1. Fits(song) /\ Steady(song) /\ Counted(song)
  BY DEF SyncInv, FailInv, OrderInv
<1>2. CASE \E t \in DOMAIN song.tracks : DeleteTrack(t)
  <2>1. PICK t \in DOMAIN song.tracks : DeleteTrack(t)
    BY <1>2
  <2> DEFINE s == smf_track_delete(song, t)
             sound == \A e \in {d \in Tempos(song) : d[1] = t} :
                         /\ EventAt(song, e).pulses > 0
                         /\ TemposAt(song, EventAt(song, e).pulses) = {e}
  <2>2. Edit(s, FALSE, sound) /\ sound \in BOOLEAN
    BY <2>1 DEF DeleteTrack
  <2>3. sound => AllAlone(song, t)
    <3> SUFFICES ASSUME sound, NEW i \in DOMAIN song.tracks[t].events,
                        smf_event_is_tempo_change_or_time_signature(song.tracks[t].events[i])
                 PROVE  song.tracks[t].events[i].pulses > 0 /\ Alone(song, t, i)
      BY DEF AllAlone
    <3> DEFINE e == << t, i >>
    <3>1. e \in EventsIn(song) /\ EventAt(song, e) = song.tracks[t].events[i] /\ e[1] = t /\ e[2] = i
      BY DEF EventsIn, EventAt
    <3>2. e \in {d \in Tempos(song) : d[1] = t}
      BY <3>1 DEF Tempos
    <3>3. EventAt(song, e).pulses > 0 /\ TemposAt(song, EventAt(song, e).pulses) = {e}
      BY <3>2
    <3>4. Alone(song, e[1], e[2])
      BY <3>2, <3>3, TempoAlone
    <3> QED
      BY <3>1, <3>3, <3>4
  <2>4. Counted(s) /\ (AllAlone(song, t) /\ Synced(song) => Synced(s))
    BY <1>1, TrackDeleteSynced, SongAssumption
  <2> HIDE DEF s, sound
  <2> QED
    BY <2>2, <2>3, <2>4, EditSyncs
<1>3. CASE DeleteSong
  <2>1. song.failed = ""
    BY <1>3 DEF DeleteSong, Put
  <2>2. smf_delete(song).failed = ""
    BY <1>1, <2>1, DeleteSteady
  <2>3. Put(smf_new, {})
    BY <1>3, <2>2 DEF DeleteSong
  <2> QED
    BY <2>3, NewSynced, SongAssumption, PutSyncs
<1> QED
  BY <1>2, <1>3 DEF Delete

LEMMA HeaderSyncs ==
    ASSUME SyncInv, FailInv', Header
    PROVE  SyncInv'
<1>1. PICK s : /\ Put(s, stale)
               /\ \/ \E f \in {0, 1} : s = smf_set_format(song, f)
                  \/ EventsIn(song) = {} /\ \E n \in Ppqns : s = smf_set_ppqn(song, n)
  BY DEF Header, SetFormat, SetPpqn
<1>2. Steady(song) /\ Counted(song) /\ song.failed = ""
  BY <1>1 DEF SyncInv, FailInv, Put
<1>3. Counted(s) /\ (Synced(song) => Synced(s))
  BY <1>1, <1>2, HeaderSynced, SongAssumption
<1> QED
  BY <1>1, <1>2, <1>3, PutSyncs DEF SyncInv

\* Playing and seeking change neither the events nor the tempo map.
LEMMA UnmovedSyncs ==
    ASSUME SyncInv, FailInv', NEW s, NEW now, Put(s, now), Unmoved(s, song),
           "seconds" \in stale => "seconds" \in now
    PROVE  SyncInv'
<1>1. song.failed = ""
  BY DEF Put
<1>2. Counted(s) /\ (Synced(song) => Synced(s))
  BY UnmovedMarks DEF SyncInv
<1> QED
  BY <1>1, <1>2, PutSyncs DEF SyncInv

LEMMA PlaySyncs ==
    ASSUME SyncInv, FailInv', Play
    PROVE  SyncInv'
<1>1. Songlike(song)
  BY DEF SyncInv, FailInv, OrderInv, Fits
<1>2. CASE GetNextEvent
  BY <1>1, <1>2, PositionUnmoved, UnmovedSyncs DEF GetNextEvent
<1>3. CASE PeekNextEvent
  BY <1>1, <1>3, PositionUnmoved, UnmovedSyncs DEF PeekNextEvent
<1>4. CASE Rewind
  <2>1. Put(smf_rewind(song), stale \ {"position"})
    BY <1>4 DEF Rewind
  <2> QED
    BY <1>1, <2>1, PositionUnmoved, UnmovedSyncs
<1> QED
  BY <1>2, <1>3, <1>4 DEF Play

LEMMA SeekSyncs ==
    ASSUME SyncInv, FailInv', Seek
    PROVE  SyncInv'
<1>1. PICK s, now : /\ Put(s, now) /\ ("seconds" \in stale => "seconds" \in now)
                    /\ \/ \E e : s = smf_seek_to_event(song, e)
                       \/ \E p : s = smf_seek_to_pulses(song, p)
                       \/ \E x : s = smf_seek_to_seconds(song, x)
  <2>1. CASE \E e \in EventsIn(song) : SeekToEvent(e)
    <3>1. PICK e : Put(smf_seek_to_event(song, e), stale \ {"position"})
      BY <2>1 DEF SeekToEvent
    <3>2. "seconds" \in stale => "seconds" \in stale \ {"position"}
      OBVIOUS
    <3> QED
      BY <3>1, <3>2
  <2>2. CASE \E p \in Pulses : SeekToPulses(p)
    <3>1. PICK p : Put(smf_seek_to_pulses(song, p), stale \ {"position"})
      BY <2>2 DEF SeekToPulses
    <3>2. "seconds" \in stale => "seconds" \in stale \ {"position"}
      OBVIOUS
    <3> QED
      BY <3>1, <3>2
  <2>3. CASE \E x \in Seconds : SeekToSeconds(x)
    <3>1. PICK x : Put(smf_seek_to_seconds(song, x), IF song.seek = x THEN stale ELSE stale \ {"position"})
      BY <2>3 DEF SeekToSeconds
    <3>2. "seconds" \in stale => "seconds" \in (IF song.seek = x THEN stale ELSE stale \ {"position"})
      OBVIOUS
    <3> QED
      BY <3>1, <3>2
  <2> QED
    BY <2>1, <2>2, <2>3 DEF Seek
<1>2. Unmoved(s, song)
  BY <1>1, SeekUnmoved DEF SyncInv, FailInv, OrderInv, Fits
<1> QED
  BY <1>1, <1>2, UnmovedSyncs

LEMMA SyncStep ==
    SyncInv /\ [Next]_vars => SyncInv'
<1> SUFFICES ASSUME SyncInv, [Next]_vars PROVE SyncInv'
  OBVIOUS
<1>1. FailInv'
  BY FailStep DEF SyncInv
<1>2. CASE UNCHANGED vars
  BY <1>1, <1>2 DEF vars, SyncInv
<1>3. CASE NewTrack
  <2>1. song' = song /\ stale' = stale /\ hand' = << smf_track_new >>
    BY <1>3 DEF NewTrack
  <2>2. hand'[1] = smf_track_new
    BY <2>1
  <2>3. TempoValues(smf_track_new.events)
    BY DEF TempoValues, smf_track_new
  <2> HIDE DEF smf_track_new
  <2> QED
    BY <1>1, <2>1, <2>2, <2>3 DEF SyncInv
<1>4. CASE Next /\ ~NewTrack
  BY <1>1, <1>4, AddSyncs, AddOtherSyncs, RemoveSyncs, AddTrackSyncs, DetachSyncs, DeleteSyncs,
     HeaderSyncs, PlaySyncs, SeekSyncs DEF Next
<1> QED
  BY <1>2, <1>3, <1>4

LEMMA SyncInvariant == Spec => []SyncInv
BY SyncInit, SyncStep, PTL DEF Spec

\* In a steady song what is left after a seek is what a program sees remaining.
LEMMA LeftRemains ==
    ASSUME NEW s, Steady(s)
    PROVE  Remaining(s) = Left(s)
<1>1. \A e \in EventsIn(s) : e[1] \in DOMAIN s.tracks /\ e[2] \in DOMAIN s.tracks[e[1]].events
  BY EventsAre
<1>2. \A t \in DOMAIN s.tracks : DOMAIN s.tracks[t].events \subseteq Nat /\ s.tracks[t].next \in Int
  BY SequenceFacts DEF Steady, Ready, Orderly, InOrder
<1>3. \A e \in EventsIn(s) :
         (s.tracks[e[1]].next # -1 /\ e[2] >= s.tracks[e[1]].next) <=> ~Past(s.tracks[e[1]], e[2])
  BY <1>1, <1>2 DEF Past
<1> QED
  BY <1>3 DEF Remaining, Left

\* The times that the events keep follow their pulses, if they are in step.
LEMMA TimesGrow ==
    ASSUME NEW s, Steady(s), Linked(s), InStep(s), NEW d \in EventsIn(s), NEW e \in EventsIn(s)
    PROVE  /\ EventAt(s, d).seconds \in Int
           /\ EventAt(s, d).pulses <= EventAt(s, e).pulses
                 => EventAt(s, d).seconds <= EventAt(s, e).seconds
<1>1. EventAt(s, d).pulses \in Nat /\ EventAt(s, e).pulses \in Nat
  BY EventsAre
<1>2. /\ EventAt(s, d).seconds = seconds_from_pulses(s, EventAt(s, d).pulses)
      /\ EventAt(s, e).seconds = seconds_from_pulses(s, EventAt(s, e).pulses)
  BY MarksAre
<1>3. \A p \in Nat : seconds_from_pulses(s, p) \in Nat
  BY TimeGrows
<1>4. \A p, q \in Nat : p <= q => seconds_from_pulses(s, p) <= seconds_from_pulses(s, q)
  BY TimeGrows
<1>5. EventAt(s, d).seconds \in Nat
  BY <1>1, <1>2, <1>3
<1> QED
  BY <1>1, <1>2, <1>4, <1>5

LEMMA SyncMeans ==
    ASSUME SyncInv
    PROVE  SeeksLand
<1> SUFFICES ASSUME song.failed = ""
             PROVE  /\ \A p \in Pulses : Remaining(smf_seek_to_pulses(song, p)) =
                                          {e \in EventsIn(song) : EventAt(song, e).pulses >= p}
                    /\ \A x \in Seconds \ {song.seek} : "seconds" \notin stale =>
                          Remaining(smf_seek_to_seconds(song, x)) =
                            {e \in EventsIn(song) : EventAt(song, e).seconds >= x}
                    /\ \A e \in EventsIn(song) :
                          LET s == smf_seek_to_event(song, e)
                          IN  smf_find_track_with_next_event(s) = e[1] /\ s.tracks[e[1]].next = e[2]
  BY DEF SeeksLand
<1>1. Steady(song)
  BY DEF SyncInv, FailInv
<1>2. ASSUME NEW p \in Pulses
      PROVE  Remaining(smf_seek_to_pulses(song, p)) =
               {e \in EventsIn(song) : EventAt(song, e).pulses >= p}
  <2>1. Steady(smf_seek_to_pulses(song, p))
    BY <1>1, SeekSteady
  <2>2. Remaining(smf_seek_to_pulses(song, p)) = Left(smf_seek_to_pulses(song, p))
    BY <2>1, LeftRemains
  <2> QED
    BY <1>1, <2>2, SeekLands, SongAssumption
<1>3. ASSUME NEW x \in Seconds \ {song.seek}, "seconds" \notin stale
      PROVE  Remaining(smf_seek_to_seconds(song, x)) =
               {e \in EventsIn(song) : EventAt(song, e).seconds >= x}
  <2>1. Linked(song) /\ InStep(song)
    BY <1>3 DEF SyncInv, Synced
  <2>2. ASSUME NEW d \in EventsIn(song), NEW e \in EventsIn(song)
        PROVE  /\ EventAt(song, d).seconds \in Int
               /\ EventAt(song, d).pulses <= EventAt(song, e).pulses
                     => EventAt(song, d).seconds <= EventAt(song, e).seconds
    BY <1>1, <2>1, TimesGrow
  <2>3. Steady(smf_seek_to_seconds(song, x))
    BY <1>1, SeekSteady
  <2>4. Remaining(smf_seek_to_seconds(song, x)) = Left(smf_seek_to_seconds(song, x))
    BY <2>3, LeftRemains
  <2>5. x \in Nat /\ song.seek # x
    BY SongAssumption
  <2> QED
    BY <1>1, <2>2, <2>4, <2>5, SeekLands
<1> QED
  BY <1>1, <1>2, <1>3, SeekLands

\* After any sequence of calls, a seek to a pulse leaves to be played just the
\* events at that pulse and after it, and a seek to an event has that event
\* next, of whatever track; so it is with a seek to a time, as long as the
\* tempo map and the events' times have been kept in step, as they are by every
\* call but those the library does not claim it for: changes of the tempo that
\* coincide, or that go with a track (smf.c:934, :966, :1009; smf_tempo.c:50, :173).
THEOREM SeeksCorrect == Spec => []SeeksLand
<1>1. SyncInv => SeeksLand
  BY SyncMeans
<1> QED
  BY <1>1, SyncInvariant, PTL
=============================================================================
