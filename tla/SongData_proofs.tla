--------------------------- MODULE SongData_proofs ---------------------------
(***************************************************************************)
(* What the functions of libsmf leave alone.  Those that play, seek and    *)
(* keep the tempo map leave every event as it is, but for its seconds;     *)
(* those that add and remove events leave the outline of the song: which   *)
(* tracks there are, their numbers and the format.  Then come those that   *)
(* change the outline, what adding and removing does to the events, and    *)
(* what every function does to the position and to the tempo map's first   *)
(* entry, on which the library's assertions depend.  The last two parts    *)
(* are about time: where a seek lands, and that the tempo map and the      *)
(* seconds that the events keep stay in step.                              *)
(***************************************************************************)
EXTENDS SongData, FiniteSetTheorems, FunctionTheorems, SequenceTheorems,
        WellFoundedInduction, TLAPS

SongFields == {"tracks", "tempos", "format", "ppqn", "seek", "failed"}
TrackFields == {"events", "next", "time", "number"}

IsSequence(f) == \E n \in Nat : f = [i \in 1 .. n |-> f[i]]

Tracklike(tr) == TrackFields \subseteq DOMAIN tr /\ IsSequence(tr.events)

Songlike(s) ==
    /\ SongFields \subseteq DOMAIN s
    /\ IsSequence(s.tracks)
    /\ \A i \in DOMAIN s.tracks : Tracklike(s.tracks[i])

\* r is a song with the outline that s has.
Alike(r, s) ==
    /\ Songlike(r)
    /\ r.format = s.format
    /\ DOMAIN r.tracks = DOMAIN s.tracks
    /\ \A i \in DOMAIN s.tracks : r.tracks[i].number = s.tracks[i].number

\* Two events, or sequences of events, that differ in seconds only; and two
\* songs of the same outline with such tracks.
SameEvent(f, e) == f = e \/ \E x : f = [e EXCEPT !.seconds = x]
SameEvents(fs, es) == DOMAIN fs = DOMAIN es /\ \A i \in DOMAIN es : SameEvent(fs[i], es[i])
Same(r, s) ==
    /\ Alike(r, s)
    /\ \A t \in DOMAIN s.tracks : SameEvents(r.tracks[t].events, s.tracks[t].events)

\* What the outline of a song is to be.
Fits(s) ==
    /\ Songlike(s)
    /\ \A i \in DOMAIN s.tracks : s.tracks[i].number = i
    /\ s.format = 0 => Len(s.tracks) <= 1

-----------------------------------------------------------------------------
(* Sequences, and induction.                                                *)

LEMMA SequenceFacts ==
    ASSUME NEW f, IsSequence(f)
    PROVE  Len(f) \in Nat /\ DOMAIN f = 1 .. Len(f) /\ f = [i \in 1 .. Len(f) |-> f[i]]
<1>1. PICK n \in Nat : f = [i \in 1 .. n |-> f[i]]
  BY DEF IsSequence
<1>2. f \in Seq({f[i] : i \in 1 .. n})
  BY <1>1
<1> QED
  BY <1>1, <1>2

LEMMA MadeSequence ==
    ASSUME NEW n \in Nat, NEW f, f = [i \in 1 .. n |-> f[i]]
    PROVE  IsSequence(f) /\ Len(f) = n /\ DOMAIN f = 1 .. n
<1>1. IsSequence(f)
  BY DEF IsSequence
<1>2. f \in Seq({f[i] : i \in 1 .. n})
  OBVIOUS
<1> QED
  BY <1>1, <1>2

LEMMA LeastNumber ==
    ASSUME NEW S \in SUBSET Nat, S # {}
    PROVE  \E m \in S : \A k \in S : m <= k
<1> DEFINE R == OpToRel(<, Nat)
<1>1. IsWellFoundedOn(R, Nat)
  BY NatLessThanWellFounded
<1>2. \A a, b \in Nat : a < b => << a, b >> \in R
  BY DEF OpToRel
<1> HIDE DEF R
<1>3. PICK m \in S : \A k \in S : ~(<< k, m >> \in R)
  BY <1>1, WFMin
<1>4. \A k \in S : ~(k < m) /\ k \in Nat /\ m \in Nat
  BY <1>2, <1>3
<1> QED
  BY <1>4

LEMMA Induction ==
    ASSUME NEW n \in Nat, NEW S \in SUBSET (0 .. n), 0 \in S,
           \A k \in S : k < n => k + 1 \in S
    PROVE  S = 0 .. n
<1> SUFFICES ASSUME (0 .. n) \ S # {} PROVE FALSE
  OBVIOUS
<1>1. PICK m \in (0 .. n) \ S : \A k \in (0 .. n) \ S : m <= k
  <2>1. (0 .. n) \ S \in SUBSET Nat
    OBVIOUS
  <2> QED
    BY <2>1, LeastNumber
<1>2. m # 0 /\ m - 1 \in 0 .. n /\ m - 1 < n
  BY <1>1
<1>3. m - 1 \in S
  BY <1>1, <1>2
<1>4. (m - 1) + 1 = m
  BY <1>1
<1> QED
  BY <1>2, <1>3, <1>4, <1>1

-----------------------------------------------------------------------------
(* Songs of the same outline.                                               *)

LEMMA AlikeReflexive ==
    ASSUME NEW s, Songlike(s)
    PROVE  Alike(s, s)
BY DEF Alike

LEMMA AlikeSonglike ==
    ASSUME NEW s, NEW r, Alike(r, s)
    PROVE  Songlike(r)
BY DEF Alike

LEMMA AlikeTransitive ==
    ASSUME NEW s, NEW r, NEW q, Alike(r, s), Alike(q, r)
    PROVE  Alike(q, s)
BY DEF Alike

LEMMA SameAlike ==
    ASSUME NEW s, NEW r, Same(r, s)
    PROVE  Alike(r, s) /\ Songlike(r)
BY DEF Same, Alike

LEMMA SameReflexive ==
    ASSUME NEW s, Songlike(s)
    PROVE  Same(s, s)
BY AlikeReflexive DEF Same, SameEvents, SameEvent

LEMMA SameSonglike ==
    ASSUME NEW s, NEW r, Same(r, s)
    PROVE  Songlike(r)
BY DEF Same, Alike

LEMMA SameTransitive ==
    ASSUME NEW s, NEW r, NEW q, Same(r, s), Same(q, r)
    PROVE  Same(q, s)
<1>1. Alike(q, s) /\ DOMAIN r.tracks = DOMAIN s.tracks
  BY AlikeTransitive DEF Same, Alike
<1>2. ASSUME NEW e, NEW f, NEW g, SameEvent(f, e), SameEvent(g, f)
      PROVE  SameEvent(g, e)
  <2>1. \A x, y : [[e EXCEPT !.seconds = x] EXCEPT !.seconds = y] = [e EXCEPT !.seconds = y]
    OBVIOUS
  <2> QED
    BY <1>2, <2>1 DEF SameEvent
<1>3. \A t \in DOMAIN s.tracks : SameEvents(q.tracks[t].events, s.tracks[t].events)
  BY <1>1, <1>2 DEF Same, SameEvents
<1> QED
  BY <1>1, <1>3 DEF Same

LEMMA OtherFields ==
    ASSUME NEW s, Songlike(s), NEW v
    PROVE  /\ Same([s EXCEPT !.tempos = v], s)
           /\ Same([s EXCEPT !.ppqn = v], s)
           /\ Same([s EXCEPT !.seek = v], s)
           /\ Same([s EXCEPT !.failed = v], s)
<1>1. ASSUME NEW r, Alike(r, s), r.tracks = s.tracks
      PROVE  Same(r, s)
  BY <1>1 DEF Same, SameEvents, SameEvent
<1>2. /\ Alike([s EXCEPT !.tempos = v], s)
      /\ Alike([s EXCEPT !.ppqn = v], s)
      /\ Alike([s EXCEPT !.seek = v], s)
      /\ Alike([s EXCEPT !.failed = v], s)
  BY DEF Alike, Songlike, SongFields
<1>3. /\ [s EXCEPT !.tempos = v].tracks = s.tracks
      /\ [s EXCEPT !.ppqn = v].tracks = s.tracks
      /\ [s EXCEPT !.seek = v].tracks = s.tracks
      /\ [s EXCEPT !.failed = v].tracks = s.tracks
  BY DEF Songlike, SongFields
<1> QED
  BY <1>1, <1>2, <1>3

\* Another sequence of as many tracks, with their numbers.
LEMMA OtherTracks ==
    ASSUME NEW s, Songlike(s), NEW tracks, IsSequence(tracks), DOMAIN tracks = DOMAIN s.tracks,
           \A i \in DOMAIN s.tracks :
              Tracklike(tracks[i]) /\ tracks[i].number = s.tracks[i].number
    PROVE  Alike([s EXCEPT !.tracks = tracks], s)
<1> DEFINE r == [s EXCEPT !.tracks = tracks]
<1>1. r.tracks = tracks /\ DOMAIN r = DOMAIN s /\ r.format = s.format
  BY DEF Songlike, SongFields
<1> HIDE DEF r
<1>2. Alike(r, s)
  BY <1>1 DEF Alike, Songlike
<1> QED
  BY <1>2 DEF r

LEMMA SameTracks ==
    ASSUME NEW s, Songlike(s), NEW tracks, IsSequence(tracks), DOMAIN tracks = DOMAIN s.tracks,
           \A i \in DOMAIN s.tracks :
              /\ Tracklike(tracks[i]) /\ tracks[i].number = s.tracks[i].number
              /\ SameEvents(tracks[i].events, s.tracks[i].events)
    PROVE  Same([s EXCEPT !.tracks = tracks], s)
<1>1. Alike([s EXCEPT !.tracks = tracks], s)
  BY OtherTracks
<1>2. [s EXCEPT !.tracks = tracks].tracks = tracks
  BY DEF Songlike, SongFields
<1> QED
  BY <1>1, <1>2 DEF Same

\* One of them has become another one.
LEMMA OtherTrack ==
    ASSUME NEW s, Songlike(s), NEW t, NEW tr,
           t \in DOMAIN s.tracks => Tracklike(tr) /\ tr.number = s.tracks[t].number
    PROVE  Alike([s EXCEPT !.tracks[t] = tr], s)
<1> DEFINE tracks == [s.tracks EXCEPT ![t] = tr]
<1>1. IsSequence(tracks) /\ DOMAIN tracks = DOMAIN s.tracks
  <2>1. PICK n \in Nat : s.tracks = [i \in 1 .. n |-> s.tracks[i]]
    BY DEF Songlike, IsSequence
  <2>2. tracks = [i \in 1 .. n |-> tracks[i]]
    BY <2>1
  <2> QED
    BY <2>1, <2>2, MadeSequence
<1>2. \A i \in DOMAIN s.tracks :
         Tracklike(tracks[i]) /\ tracks[i].number = s.tracks[i].number
  BY DEF Songlike
<1>3. [s EXCEPT !.tracks[t] = tr] = [s EXCEPT !.tracks = tracks]
  OBVIOUS
<1> HIDE DEF tracks
<1> QED
  BY <1>1, <1>2, <1>3, OtherTracks

LEMMA SameTrack ==
    ASSUME NEW s, Songlike(s), NEW t, NEW tr,
           t \in DOMAIN s.tracks => /\ Tracklike(tr) /\ tr.number = s.tracks[t].number
                                    /\ SameEvents(tr.events, s.tracks[t].events)
    PROVE  Same([s EXCEPT !.tracks[t] = tr], s)
<1> DEFINE r == [s EXCEPT !.tracks[t] = tr]
<1>1. Alike(r, s)
  BY OtherTrack
<1>2. r.tracks = [s.tracks EXCEPT ![t] = tr]
  BY DEF Songlike, SongFields
<1> HIDE DEF r
<1>3. \A i \in DOMAIN s.tracks : SameEvents(r.tracks[i].events, s.tracks[i].events)
  <2> TAKE i \in DOMAIN s.tracks
  <2>1. r.tracks[i] = IF i = t THEN tr ELSE s.tracks[i]
    BY <1>2
  <2>2. CASE i = t
    BY <2>1, <2>2
  <2>3. CASE i # t
    BY <2>1, <2>3 DEF SameEvents, SameEvent
  <2> QED
    BY <2>2, <2>3
<1>4. Same(r, s)
  BY <1>1, <1>3 DEF Same
<1> QED
  BY <1>4 DEF r

\* What may become of a track.
LEMMA OtherTrackFields ==
    ASSUME NEW tr, Tracklike(tr)
    PROVE  /\ \A v : LET r == [tr EXCEPT !.next = v] IN Tracklike(r) /\ r.number = tr.number
           /\ \A n, x : LET r == [[tr EXCEPT !.next = n] EXCEPT !.time = x]
                        IN  Tracklike(r) /\ r.number = tr.number
           /\ \A v : LET r == [tr EXCEPT !.events = v]
                     IN  IsSequence(v) => Tracklike(r) /\ r.number = tr.number
           /\ \A v : LET r == [tr EXCEPT !.number = v] IN Tracklike(r) /\ r.number = v
BY DEF Tracklike, TrackFields

LEMMA OtherNext ==
    ASSUME NEW s, Songlike(s), NEW t, NEW v
    PROVE  Same([s EXCEPT !.tracks[t].next = v], s)
<1> DEFINE tr == [s.tracks[t] EXCEPT !.next = v]
<1>1. t \in DOMAIN s.tracks => Tracklike(tr) /\ tr.number = s.tracks[t].number
  BY OtherTrackFields DEF Songlike
<1>2. t \in DOMAIN s.tracks => tr.events = s.tracks[t].events
  BY DEF Songlike, Tracklike, TrackFields
<1>3. [s EXCEPT !.tracks[t].next = v] = [s EXCEPT !.tracks[t] = tr]
  OBVIOUS
<1> HIDE DEF tr
<1> QED
  BY <1>1, <1>2, <1>3, SameTrack DEF SameEvents, SameEvent

LEMMA OtherEvents ==
    ASSUME NEW s, Songlike(s), NEW t, NEW v, t \in DOMAIN s.tracks => IsSequence(v)
    PROVE  Alike([s EXCEPT !.tracks[t].events = v], s)
<1> DEFINE tr == [s.tracks[t] EXCEPT !.events = v]
<1>1. t \in DOMAIN s.tracks => Tracklike(tr) /\ tr.number = s.tracks[t].number
  BY OtherTrackFields DEF Songlike
<1>2. [s EXCEPT !.tracks[t].events = v] = [s EXCEPT !.tracks[t] = tr]
  OBVIOUS
<1> HIDE DEF tr
<1> QED
  BY <1>1, <1>2, OtherTrack

LEMMA OtherSeconds ==
    ASSUME NEW s, Songlike(s), NEW t, NEW i, NEW v
    PROVE  Same([s EXCEPT !.tracks[t].events[i].seconds = v], s)
<1> DEFINE es == [s.tracks[t].events EXCEPT ![i].seconds = v]
<1>1. t \in DOMAIN s.tracks => IsSequence(es)
  <2> SUFFICES ASSUME t \in DOMAIN s.tracks PROVE IsSequence(es)
    OBVIOUS
  <2>1. PICK n \in Nat : s.tracks[t].events = [k \in 1 .. n |-> s.tracks[t].events[k]]
    BY DEF Songlike, Tracklike, IsSequence
  <2>2. es = [k \in 1 .. n |-> es[k]]
    BY <2>1
  <2> QED
    BY <2>1, <2>2, MadeSequence
<1> DEFINE tr == [s.tracks[t] EXCEPT !.events = es]
<1>2. [s EXCEPT !.tracks[t].events[i].seconds = v] = [s EXCEPT !.tracks[t] = tr]
  OBVIOUS
<1>3. SameEvents(es, s.tracks[t].events)
  <2> DEFINE e(k) == s.tracks[t].events[k]
  <2>1. DOMAIN es = DOMAIN s.tracks[t].events
    OBVIOUS
  <2>2. \A k \in DOMAIN es : es[k] = IF k = i THEN [e(k) EXCEPT !.seconds = v] ELSE e(k)
    OBVIOUS
  <2> HIDE DEF es
  <2> QED
    BY <2>1, <2>2 DEF SameEvents, SameEvent
<1> HIDE DEF es
<1>4. t \in DOMAIN s.tracks => /\ Tracklike(tr) /\ tr.number = s.tracks[t].number
                               /\ tr.events = es
  BY <1>1, OtherTrackFields DEF Songlike, Tracklike, TrackFields
<1> HIDE DEF tr
<1> QED
  BY <1>2, <1>3, <1>4, SameTrack

-----------------------------------------------------------------------------
(* The tempo map and the position.                                          *)

LEMMA AbortSame ==
    ASSUME NEW s, Songlike(s), NEW why
    PROVE  Same(Abort(s, why), s)
BY OtherFields, SameReflexive DEF Abort

LEMMA new_tempoSame ==
    ASSUME NEW s, Songlike(s), NEW p
    PROVE  Same(new_tempo(s, p), s)
BY OtherFields, SameReflexive DEF new_tempo

LEMMA TempoMapSame ==
    ASSUME NEW s, Songlike(s)
    PROVE  /\ \A ev : Same(maybe_add_to_tempo_map(s, ev), s)
           /\ \A p : Same(remove_last_tempo_with_pulses(s, p), s)
           /\ Same(smf_init_tempo(s), s)
<1>1. ASSUME NEW r, Songlike(r), NEW ev PROVE Same(LastTempo(r, ev), r)
  BY <1>1, OtherFields DEF LastTempo
<1>2. ASSUME NEW ev PROVE Same(maybe_add_to_tempo_map(s, ev), s)
  <2>1. Same(new_tempo(s, ev.pulses), s)
    BY new_tempoSame
  <2>2. Same(LastTempo(new_tempo(s, ev.pulses), ev), new_tempo(s, ev.pulses))
    BY <1>1, <2>1, SameSonglike
  <2>3. Same(LastTempo(new_tempo(s, ev.pulses), ev), s)
    BY <2>1, <2>2, SameTransitive
  <2> QED
    BY <2>3, SameReflexive DEF maybe_add_to_tempo_map
<1>3. ASSUME NEW p PROVE Same(remove_last_tempo_with_pulses(s, p), s)
  BY OtherFields, SameReflexive DEF remove_last_tempo_with_pulses
<1>4. Same(smf_init_tempo(s), s)
  <2> DEFINE r == [s EXCEPT !.tempos = << >>]
  <2>1. Same(r, s)
    BY OtherFields
  <2>2. Same(new_tempo(r, 0), r)
    BY <2>1, new_tempoSame, SameSonglike
  <2> QED
    BY <2>1, <2>2, SameTransitive DEF smf_init_tempo
<1> QED
  BY <1>2, <1>3, <1>4

LEMMA smf_track_get_next_eventOutline ==
    ASSUME NEW tr, Tracklike(tr)
    PROVE  /\ Tracklike(smf_track_get_next_event(tr))
           /\ smf_track_get_next_event(tr).number = tr.number
           /\ smf_track_get_next_event(tr).events = tr.events
BY DEF smf_track_get_next_event, Tracklike, TrackFields

LEMMA smf_get_next_eventSame ==
    ASSUME NEW s, Songlike(s)
    PROVE  Same(smf_get_next_event(s), s)
<1> DEFINE t == smf_find_track_with_next_event(s)
           tr == smf_track_get_next_event(s.tracks[t])
           r == [s EXCEPT !.tracks[t] = tr]
<1>1. t \in DOMAIN s.tracks => /\ Tracklike(tr) /\ tr.number = s.tracks[t].number
                               /\ SameEvents(tr.events, s.tracks[t].events)
  BY smf_track_get_next_eventOutline DEF Songlike, SameEvents, SameEvent
<1>2. Same(r, s)
  <2> HIDE DEF t, tr
  <2> QED
    BY <1>1, SameTrack
<1>3. Same([r EXCEPT !.seek = -1], s)
  <2>1. Same([r EXCEPT !.seek = -1], r)
    <3> HIDE DEF r
    <3> QED
      BY <1>2, SameSonglike, OtherFields
  <2> QED
    BY <1>2, <2>1, SameTransitive
<1>4. [s EXCEPT !.tracks[t] = smf_track_get_next_event(@), !.seek = -1] = [r EXCEPT !.seek = -1]
  OBVIOUS
<1> HIDE DEF t, tr, r
<1> QED
  BY <1>3, <1>4, AbortSame, SameReflexive DEF smf_get_next_event, t

LEMMA smf_rewindSame ==
    ASSUME NEW s, Songlike(s)
    PROVE  Same(smf_rewind(s), s)
<1> DEFINE tracks == [t \in DOMAIN s.tracks |-> FromStart(s.tracks[t])]
           r == [s EXCEPT !.seek = 0]
<1>1. Same(r, s) /\ r.tracks = s.tracks
  BY OtherFields DEF Songlike, SongFields
<1>2. IsSequence(tracks)
  BY SequenceFacts, MadeSequence DEF Songlike
<1>3. ASSUME NEW tr, Tracklike(tr)
      PROVE  /\ Tracklike(FromStart(tr)) /\ FromStart(tr).number = tr.number
             /\ FromStart(tr).events = tr.events
  <2>1. \A n, x : LET u == [[tr EXCEPT !.next = n] EXCEPT !.time = x]
                  IN  Tracklike(u) /\ u.number = tr.number /\ u.events = tr.events
    BY <1>3, OtherTrackFields DEF Tracklike, TrackFields
  <2>2. \A n, x : [tr EXCEPT !.next = n, !.time = x] = [[tr EXCEPT !.next = n] EXCEPT !.time = x]
    OBVIOUS
  <2> QED
    BY <2>1, <2>2 DEF FromStart
<1>4. \A i \in DOMAIN s.tracks :
         /\ Tracklike(tracks[i]) /\ tracks[i].number = s.tracks[i].number
         /\ SameEvents(tracks[i].events, s.tracks[i].events)
  BY <1>3 DEF Songlike, SameEvents, SameEvent
<1>5. Same([r EXCEPT !.tracks = tracks], r)
  <2> HIDE DEF tracks, r
  <2>1. DOMAIN tracks = DOMAIN r.tracks
    BY <1>1 DEF tracks
  <2> QED
    BY <1>1, <1>2, <1>4, <2>1, SameTracks, SameSonglike
<1>6. smf_rewind(s) = [r EXCEPT !.tracks = tracks]
  BY DEF smf_rewind
<1> HIDE DEF r, tracks
<1> QED
  BY <1>1, <1>5, <1>6, SameTransitive

LEMMA PlayTimedSame ==
    ASSUME NEW s, Songlike(s)
    PROVE  Same(PlayTimed(s), s)
<1> DEFINE t == smf_find_track_with_next_event(s)
           q == smf_get_next_event(s)
           r == maybe_add_to_tempo_map(q, smf_peek_next_event(s))
           i == s.tracks[t].next
           v == seconds_from_pulses(r, r.tracks[t].events[i].pulses)
<1>1. Same(q, s) /\ Songlike(q)
  BY smf_get_next_eventSame, SameSonglike
<1>2. Same(r, q) /\ Songlike(r)
  <2> HIDE DEF q
  <2> QED
    BY <1>1, TempoMapSame, SameSonglike
<1>3. Same([r EXCEPT !.tracks[t].events[i].seconds = v], r)
  <2> HIDE DEF r, t, i, v
  <2> QED
    BY <1>2, OtherSeconds
<1>4. PlayTimed(s) = IF t = 0 THEN s ELSE [r EXCEPT !.tracks[t].events[i].seconds = v]
  BY DEF PlayTimed, Timed
<1> HIDE DEF r, q, t, i, v
<1> QED
  BY <1>1, <1>2, <1>3, <1>4, SameTransitive, SameReflexive

\* The first n steps of the loop, one after another.
Timing(g, first, n) ==
    g = [k \in 0 .. n |-> IF k = 0 THEN first ELSE PlayTimed(g[k - 1])]

LEMMA PlayTimedIterated ==
    ASSUME NEW first, NEW n \in Nat
    PROVE  \E g : Timing(g, first, n)
<1> DEFINE Built(m) == \E g : Timing(g, first, m)
           S == {m \in 0 .. n : Built(m)}
<1>1. Built(0)
  <2> DEFINE g == [k \in 0 .. 0 |-> first]
  <2>1. Timing(g, first, 0)
    BY DEF Timing
  <2> HIDE DEF g
  <2> QED
    BY <2>1
<1>2. ASSUME NEW m \in 0 .. n, Built(m)
      PROVE  Built(m + 1)
  <2>1. PICK g : Timing(g, first, m)
    BY <1>2
  <2> DEFINE f == [k \in 0 .. m + 1 |-> IF k = m + 1 THEN PlayTimed(g[m]) ELSE g[k]]
  <2>2. Timing(f, first, m + 1)
    BY <2>1 DEF Timing
  <2> HIDE DEF f
  <2> QED
    BY <2>2
<1> HIDE DEF Built
<1>3. 0 \in S /\ \A m \in S : m < n => m + 1 \in S
  BY <1>1, <1>2
<1>4. S = 0 .. n
  <2>1. S \in SUBSET (0 .. n)
    OBVIOUS
  <2> HIDE DEF S
  <2> QED
    BY <1>3, <2>1, Induction
<1> QED
  BY <1>4 DEF Built

LEMMA FinitelyManyPlaces ==
    ASSUME NEW f, IsSequence(f)
    PROVE  IsFiniteSet(DOMAIN f)
<1>1. Len(f) \in Nat /\ DOMAIN f = 1 .. Len(f)
  BY SequenceFacts
<1> DEFINE n == Len(f)
<1> HIDE DEF n
<1>2. n \in Int => IsFiniteSet(1 .. n)
  BY FS_Interval
<1> QED
  BY <1>1, <1>2 DEF n

LEMMA FinitelyManyEvents ==
    ASSUME NEW s, Songlike(s)
    PROVE  IsFiniteSet(EventsIn(s)) /\ Cardinality(EventsIn(s)) \in Nat
<1> DEFINE Of(t) == {t} \X DOMAIN s.tracks[t].events
           All == {Of(t) : t \in DOMAIN s.tracks}
<1>1. \A t \in DOMAIN s.tracks : IsFiniteSet(Of(t))
  <2> TAKE t \in DOMAIN s.tracks
  <2>1. IsFiniteSet(DOMAIN s.tracks[t].events)
    BY FinitelyManyPlaces DEF Songlike, Tracklike
  <2> QED
    BY <2>1, FS_Singleton, FS_Product
<1>2. IsFiniteSet(DOMAIN s.tracks)
  BY FinitelyManyPlaces DEF Songlike
<1>3. IsFiniteSet(All)
  <2> DEFINE f == [t \in DOMAIN s.tracks |-> Of(t)]
  <2>1. f \in Surjection(DOMAIN s.tracks, All)
    BY DEF Surjection
  <2> HIDE DEF f, All
  <2> QED
    BY <1>2, <2>1, FS_Surjection
<1>4. IsFiniteSet(UNION All)
  <2>1. \A T \in All : IsFiniteSet(T)
    BY <1>1
  <2> HIDE DEF All
  <2> QED
    BY <1>3, <2>1, FS_UNION
<1> QED
  BY <1>4, FS_CardinalityType DEF EventsIn

LEMMA smf_create_tempo_mapSame ==
    ASSUME NEW s, Songlike(s)
    PROVE  Same(smf_create_tempo_map_and_compute_seconds(s), s)
<1> DEFINE first == smf_init_tempo(smf_rewind(s))
           n == Cardinality(EventsIn(s))
           h == CHOOSE g : Timing(g, first, n)
           S == {k \in 0 .. n : Same(h[k], s)}
<1>1. n \in Nat
  BY FinitelyManyEvents
<1>2. Same(first, s)
  BY smf_rewindSame, TempoMapSame, SameSonglike, SameTransitive
<1>3. smf_create_tempo_map_and_compute_seconds(s) = h[n]
  BY DEF smf_create_tempo_map_and_compute_seconds, Iterate, Timing
<1> HIDE DEF n, first
<1>4. h = [k \in 0 .. n |-> IF k = 0 THEN first ELSE PlayTimed(h[k - 1])]
  <2>1. Timing(h, first, n)
    BY <1>1, PlayTimedIterated
  <2> HIDE DEF h
  <2> QED
    BY <2>1 DEF Timing
<1> HIDE DEF h
<1>5. \A k \in S : k < n => k + 1 \in S
  BY <1>1, <1>4, PlayTimedSame, SameSonglike, SameTransitive
<1>6. 0 \in S
  BY <1>1, <1>2, <1>4
<1>7. S = 0 .. n
  <2> HIDE DEF S
  <2>1. S \in SUBSET (0 .. n)
    BY DEF S
  <2> QED
    BY <1>1, <1>5, <1>6, <2>1, Induction
<1> QED
  BY <1>1, <1>3, <1>7

-----------------------------------------------------------------------------
(* The events of a track.                                                   *)

LEMMA smf_event_removeOutline ==
    ASSUME NEW s, Songlike(s), NEW t, NEW i
    PROVE  Alike(smf_event_remove_from_track(s, t, i), s)
<1> DEFINE ev == s.tracks[t].events[i]
           n == Len(s.tracks[t].events)
           after(j) == [s.tracks[t].events[j] EXCEPT
                           !.number = j - 1,
                           !.delta = IF j = i + 1 THEN @ + ev.delta ELSE @]
           rest == [j \in 1 .. n - 1 |-> IF j < i THEN s.tracks[t].events[j] ELSE after(j + 1)]
           r == [s EXCEPT !.tracks[t].events = rest]
           next == IF rest = << >> THEN -1 ELSE s.tracks[t].next
           q == [r EXCEPT !.tracks[t].next = next]
<1>1. t \in DOMAIN s.tracks => IsSequence(rest)
  <2> SUFFICES ASSUME t \in DOMAIN s.tracks PROVE IsSequence(rest)
    OBVIOUS
  <2>1. n \in Nat
    BY SequenceFacts DEF Songlike, Tracklike
  <2> HIDE DEF n, after
  <2>2. CASE n = 0
    <3>1. rest = [j \in 1 .. 0 |-> rest[j]]
      BY <2>2
    <3> QED
      BY <3>1, MadeSequence
  <2>3. CASE n # 0
    <3>1. n - 1 \in Nat /\ rest = [j \in 1 .. n - 1 |-> rest[j]]
      BY <2>1, <2>3
    <3> QED
      BY <3>1, MadeSequence
  <2> QED
    BY <2>2, <2>3
<1>2. Alike(r, s) /\ Songlike(r)
  <2> HIDE DEF rest
  <2> QED
    BY <1>1, OtherEvents, AlikeSonglike
<1>3. Alike(q, r) /\ Songlike(q)
  <2> HIDE DEF r, next
  <2> QED
    BY <1>2, OtherNext, SameAlike
<1>4. [s EXCEPT !.tracks[t].events = rest,
                !.tracks[t].next = IF rest = << >> THEN -1 ELSE @] = q
  <2> HIDE DEF rest
  <2> QED
    OBVIOUS
<1>5. smf_event_remove_from_track(s, t, i)
         = IF ~smf_event_is_tempo_change_or_time_signature(ev) THEN q
           ELSE IF smf_event_is_last(s, ev) THEN remove_last_tempo_with_pulses(q, ev.pulses)
           ELSE smf_create_tempo_map_and_compute_seconds(q)
  BY <1>4 DEF smf_event_remove_from_track
<1> HIDE DEF q, r, ev
<1>6. Alike(smf_event_remove_from_track(s, t, i), q)
  BY <1>3, <1>5, TempoMapSame, smf_create_tempo_mapSame, SameAlike, AlikeReflexive
<1> QED
  BY <1>2, <1>3, <1>6, AlikeTransitive

LEMMA remove_eotOutline ==
    ASSUME NEW s, Songlike(s), NEW t, NEW p
    PROVE  Alike(remove_eot_if_before_pulses(s, t, p), s)
BY smf_event_removeOutline, AlikeReflexive DEF remove_eot_if_before_pulses

LEMMA AppendedSequence ==
    ASSUME NEW f, IsSequence(f), NEW x
    PROVE  /\ IsSequence(Append(f, x)) /\ Len(Append(f, x)) = Len(f) + 1
           /\ \A i \in 1 .. Len(f) : Append(f, x)[i] = f[i]
           /\ Append(f, x)[Len(f) + 1] = x
<1>1. PICK n \in Nat : f = [i \in 1 .. n |-> f[i]]
  BY DEF IsSequence
<1>2. f \in Seq({f[i] : i \in 1 .. n} \cup {x}) /\ Len(f) = n
  BY <1>1
<1> DEFINE S == {f[i] : i \in 1 .. n} \cup {x}
           g == Append(f, x)
<1>3. g \in Seq(S) /\ Len(g) = n + 1
  BY <1>2
<1>4. \A i \in 1 .. n : g[i] = f[i]
  BY <1>2
<1>5. g[n + 1] = x
  BY <1>2
<1>6. g = [i \in 1 .. n + 1 |-> g[i]]
  <2> HIDE DEF g, S
  <2> QED
    BY <1>3
<1> HIDE DEF g
<1>7. IsSequence(g)
  BY <1>6, MadeSequence
<1> QED
  BY <1>2, <1>3, <1>4, <1>5, <1>7 DEF g

LEMMA PlacedSequence ==
    ASSUME NEW es, IsSequence(es), NEW ev
    PROVE  IsSequence(Place(es, ev))
<1> DEFINE all == Append(es, ev)
           sorted == g_ptr_array_sort(all)
           at == CHOOSE k \in DOMAIN sorted : sorted[k].delta = -1
           numbered == Numbered(sorted, at)
           last == IF es = << >> THEN 0 ELSE Last(es).pulses
<1>1. PICK n \in Nat : DOMAIN all = 1 .. n
  BY AppendedSequence, SequenceFacts
<1>2. DOMAIN sorted = 1 .. n
  <2> HIDE DEF all
  <2> QED
    BY <1>1 DEF g_ptr_array_sort
<1>3. IsSequence(numbered)
  <2> HIDE DEF sorted, at
  <2>1. numbered = [k \in 1 .. n |-> numbered[k]]
    BY <1>2 DEF Numbered
  <2> QED
    BY <2>1, MadeSequence
<1>4. Place(es, ev) = IF last <= ev.pulses
                        THEN Append(es, [ev EXCEPT !.delta = ev.pulses - last, !.number = Len(es) + 1])
                        ELSE numbered
  BY DEF Place
<1> HIDE DEF numbered, last
<1> QED
  BY <1>3, <1>4, AppendedSequence

LEMMA smf_track_add_eventOutline ==
    ASSUME NEW s, Songlike(s), NEW t, NEW ev
    PROVE  Alike(smf_track_add_event(s, t, ev), s)
<1> DEFINE r == remove_eot_if_before_pulses(s, t, ev.pulses)
           tr == r.tracks[t]
           es == Place(tr.events, [ev EXCEPT !.track = tr.number])
           with == [tr EXCEPT !.events = es]
           next == IF tr.events = << >> THEN 1 ELSE tr.next
           placed == [with EXCEPT !.next = next]
           q == [r EXCEPT !.tracks[t] = placed]
<1>1. Alike(r, s) /\ Songlike(r)
  BY remove_eotOutline, AlikeSonglike
<1> HIDE DEF r
<1>2. t \in DOMAIN r.tracks => Tracklike(placed) /\ placed.number = tr.number
  <2> SUFFICES ASSUME t \in DOMAIN r.tracks
               PROVE  Tracklike(placed) /\ placed.number = tr.number
    OBVIOUS
  <2>1. Tracklike(tr)
    BY <1>1 DEF Songlike
  <2> HIDE DEF tr
  <2>2. IsSequence(es)
    BY <2>1, PlacedSequence DEF Tracklike
  <2> HIDE DEF es, next
  <2> QED
    BY <2>1, <2>2 DEF Tracklike, TrackFields
<1>3. Alike(q, r) /\ Songlike(q)
  <2> HIDE DEF placed
  <2> QED
    BY <1>1, <1>2, OtherTrack, AlikeSonglike
<1>4. [tr EXCEPT !.events = Place(@, [ev EXCEPT !.track = tr.number]),
                 !.next = IF tr.events = << >> THEN 1 ELSE @] = placed
  OBVIOUS
<1>5. smf_track_add_event(s, t, ev)
         = IF ~smf_event_is_tempo_change_or_time_signature(ev) THEN q
           ELSE IF smf_event_is_last(q, ev) THEN maybe_add_to_tempo_map(q, ev)
           ELSE smf_create_tempo_map_and_compute_seconds(q)
  BY <1>4 DEF smf_track_add_event, r
<1> HIDE DEF q
<1>6. Alike(smf_track_add_event(s, t, ev), q)
  BY <1>3, <1>5, TempoMapSame, smf_create_tempo_mapSame, SameAlike, AlikeReflexive
<1> QED
  BY <1>1, <1>3, <1>6, AlikeTransitive

LEMMA AddedOutline ==
    ASSUME NEW s, Songlike(s), NEW t
    PROVE  /\ \A ev, p : Alike(smf_track_add_event_pulses(s, t, ev, p), s)
           /\ \A ev, x : Alike(smf_track_add_event_seconds(s, t, ev, x), s)
           /\ \A tag, x : Alike(smf_track_add_eot_seconds(s, t, tag, x), s)
           /\ \A tag, d : Alike(smf_track_add_eot_delta_pulses(s, t, tag, d), s)
<1>1. \A ev, p : Alike(smf_track_add_event_pulses(s, t, ev, p), s)
  BY smf_track_add_eventOutline, AbortSame, SameAlike DEF smf_track_add_event_pulses
<1>2. \A ev, x : Alike(smf_track_add_event_seconds(s, t, ev, x), s)
  BY smf_track_add_eventOutline, AbortSame, SameAlike DEF smf_track_add_event_seconds
<1>3. \A tag, x : Alike(smf_track_add_eot_seconds(s, t, tag, x), s)
  BY <1>2, AlikeReflexive DEF smf_track_add_eot_seconds
<1>4. \A tag, d : Alike(smf_track_add_eot_delta_pulses(s, t, tag, d), s)
  BY <1>1 DEF smf_track_add_eot_delta_pulses, smf_track_add_event_delta_pulses
<1> QED
  BY <1>1, <1>2, <1>3, <1>4

LEMMA WrittenOutSame ==
    ASSUME NEW s, Songlike(s)
    PROVE  Same(WrittenOut(s), s)
<1> DEFINE tracks == [t \in DOMAIN s.tracks |-> AtEnd(s.tracks[t])]
<1>1. IsSequence(tracks)
  BY SequenceFacts, MadeSequence DEF Songlike
<1>2. ASSUME NEW tr, Tracklike(tr)
      PROVE  Tracklike(AtEnd(tr)) /\ AtEnd(tr).number = tr.number /\ AtEnd(tr).events = tr.events
  <2> DEFINE x == Last(tr.events).pulses
  <2>1. AtEnd(tr) = [tr EXCEPT !.next = -1, !.time = x]
    BY DEF AtEnd
  <2> HIDE DEF x
  <2> QED
    BY <1>2, <2>1 DEF Tracklike, TrackFields
<1>3. \A i \in DOMAIN s.tracks :
         /\ Tracklike(tracks[i]) /\ tracks[i].number = s.tracks[i].number
         /\ SameEvents(tracks[i].events, s.tracks[i].events)
  BY <1>2 DEF Songlike, SameEvents, SameEvent
<1>4. Same([s EXCEPT !.tracks = tracks], s)
  <2> HIDE DEF tracks
  <2>1. DOMAIN tracks = DOMAIN s.tracks
    BY DEF tracks
  <2> QED
    BY <1>1, <1>3, <2>1, SameTracks
<1>5. WrittenOut(s) = IF s.failed # "" THEN s ELSE [s EXCEPT !.tracks = tracks]
  BY DEF WrittenOut
<1> HIDE DEF tracks
<1> QED
  BY <1>4, <1>5, SameReflexive

-----------------------------------------------------------------------------
(* The outline itself.                                                      *)

LEMMA FitsKept ==
    ASSUME NEW s, Fits(s), NEW r, Alike(r, s)
    PROVE  Fits(r) /\ Len(r.tracks) = Len(s.tracks)
<1>1. /\ Len(s.tracks) \in Nat /\ DOMAIN s.tracks = 1 .. Len(s.tracks)
      /\ Len(r.tracks) \in Nat /\ DOMAIN r.tracks = 1 .. Len(r.tracks)
  BY SequenceFacts DEF Fits, Alike, Songlike
<1> DEFINE m == Len(s.tracks)
           n == Len(r.tracks)
<1>2. 1 .. m = 1 .. n
  BY <1>1 DEF Alike
<1>3. m \in Nat /\ n \in Nat
  BY <1>1
<1> HIDE DEF m, n
<1>4. m = n
  BY <1>2, <1>3
<1> QED
  BY <1>4 DEF Fits, Alike, m, n

LEMMA HeaderFits ==
    ASSUME NEW s, Fits(s), NEW v
    PROVE  Fits(smf_set_ppqn(s, v)) /\ Fits(smf_set_format(s, v))
<1>1. Fits(Abort(s, "ppqn")) /\ Fits(Abort(s, "format")) /\ Fits([s EXCEPT !.ppqn = v])
  BY AbortSame, OtherFields, SameAlike, FitsKept DEF Fits
<1>2. ASSUME v \in {0, 1}, ~(Len(s.tracks) > 1 /\ v = 0)
      PROVE  Fits([s EXCEPT !.format = v])
  <2>1. Len(s.tracks) \in Nat
    BY SequenceFacts DEF Fits, Songlike
  <2> DEFINE r == [s EXCEPT !.format = v]
  <2>2. DOMAIN r = DOMAIN s /\ r.tracks = s.tracks /\ r.format = v
    BY DEF Fits, Songlike, SongFields
  <2> HIDE DEF r
  <2>3. Fits(r)
    BY <1>2, <2>1, <2>2 DEF Fits, Songlike
  <2> QED
    BY <2>3 DEF r
<1> QED
  BY <1>1, <1>2 DEF smf_set_ppqn, smf_set_format

LEMMA NewFits ==
    Fits(smf_new) /\ Len(smf_new.tracks) = 0
<1> DEFINE blank == [tracks |-> << >>, tempos |-> << >>, format |-> 0, ppqn |-> InitialPpqn,
                     seek |-> 0, failed |-> ""]
           r == smf_set_format(smf_set_ppqn(blank, InitialPpqn), 0)
<1>1. Fits(blank)
  <2>1. blank.tracks = [i \in 1 .. 0 |-> blank.tracks[i]] /\ Len(blank.tracks) = 0
    OBVIOUS
  <2>2. IsSequence(blank.tracks)
    BY <2>1 DEF IsSequence
  <2> QED
    BY <2>1, <2>2 DEF Fits, Songlike, SongFields
<1> HIDE DEF blank
<1>2. Fits(r)
  BY <1>1, HeaderFits
<1>3. smf_new = smf_init_tempo(r)
  BY DEF smf_new, blank
<1>4. r.tracks = << >>
  BY DEF smf_set_format, smf_set_ppqn, Abort, blank
<1> HIDE DEF r
<1>5. Alike(smf_init_tempo(r), r)
  BY <1>2, TempoMapSame, SameAlike DEF Fits
<1> QED
  BY <1>2, <1>3, <1>4, <1>5, FitsKept

LEMMA NewTrack_Empty ==
    Tracklike(smf_track_new) /\ smf_track_new.events = << >> /\ IsSequence(<< >>)
<1> DEFINE e == << >>
<1>1. e = [i \in 1 .. 0 |-> e[i]]
  OBVIOUS
<1> HIDE DEF e
<1>2. IsSequence(e)
  BY <1>1 DEF IsSequence
<1>3. IsSequence(<< >>)
  BY <1>2 DEF e
<1>4. DOMAIN smf_track_new = TrackFields /\ smf_track_new.events = << >>
  BY DEF smf_track_new, TrackFields
<1> QED
  BY <1>3, <1>4 DEF Tracklike

LEMMA AddTrackFits ==
    ASSUME NEW s, Fits(s), NEW blank, Tracklike(blank)
    PROVE  /\ Fits(smf_add_track(s, blank))
           /\ Len(smf_add_track(s, blank).tracks) = Len(s.tracks) + 1
           /\ smf_add_track(s, blank).tracks = Append(s.tracks, [blank EXCEPT !.number = Len(s.tracks) + 1])
<1> DEFINE n == Len(s.tracks) + 1
           tr == [blank EXCEPT !.number = n]
           tracks == Append(s.tracks, tr)
           r == [s EXCEPT !.tracks = tracks]
           q == [r EXCEPT !.format = 1]
<1>1. n \in Nat /\ n >= 1 /\ n = Len(s.tracks) + 1 /\ DOMAIN s.tracks = 1 .. n - 1
  BY SequenceFacts DEF Fits, Songlike
<1>2. /\ IsSequence(tracks) /\ Len(tracks) = n
      /\ \A i \in 1 .. n - 1 : tracks[i] = s.tracks[i]
      /\ tracks[n] = tr
  <2>1. n - 1 = Len(s.tracks)
    BY <1>1
  <2> HIDE DEF n, tr
  <2>2. IsSequence(s.tracks)
    BY DEF Fits, Songlike
  <2> QED
    BY <2>1, <2>2, <1>1, AppendedSequence
<1>3. DOMAIN tracks = 1 .. n
  BY <1>2, SequenceFacts
<1>4. Tracklike(tr) /\ tr.number = n
  BY OtherTrackFields
<1> HIDE DEF n, tr, tracks
<1>5. /\ DOMAIN r = DOMAIN s /\ r.tracks = tracks /\ r.format = s.format
      /\ DOMAIN q = DOMAIN s /\ q.tracks = tracks /\ q.format = 1
  BY DEF Fits, Songlike, SongFields
<1>6. \A i \in 1 .. n : Tracklike(tracks[i]) /\ tracks[i].number = i
  <2>1. \A i \in 1 .. n - 1 : Tracklike(tracks[i]) /\ tracks[i].number = i
    BY <1>1, <1>2 DEF Fits, Songlike
  <2>2. \A i \in 1 .. n : i \in 1 .. n - 1 \/ i = n
    BY <1>1
  <2> QED
    BY <1>2, <1>4, <2>1, <2>2
<1>7. smf_add_track(s, blank) = IF n > 1 THEN q ELSE r
  <2>1. smf_add_track(s, blank) = IF n > 1 THEN smf_set_format(r, 1) ELSE r
    BY DEF smf_add_track, n, tr, tracks
  <2> QED
    BY <2>1 DEF smf_set_format
<1> HIDE DEF r, q
<1>8. Fits(q) /\ (~(n > 1) => Fits(r))
  BY <1>1, <1>2, <1>3, <1>5, <1>6 DEF Fits, Songlike
<1> QED
  BY <1>1, <1>2, <1>5, <1>7, <1>8 DEF tracks, tr, n

LEMMA RemoveTrackFits ==
    ASSUME NEW s, Fits(s), NEW t
    PROVE  /\ Fits(smf_track_remove_from_smf(s, t))
           /\ Len(s.tracks) > 0 => Len(smf_track_remove_from_smf(s, t).tracks) = Len(s.tracks) - 1
<1> DEFINE n == Len(s.tracks)
           tracks == [i \in 1 .. n - 1 |->
                        IF i < t THEN s.tracks[i] ELSE Renumber(s.tracks[i + 1], i)]
           r == [s EXCEPT !.tracks = tracks]
<1>1. n \in Nat /\ DOMAIN s.tracks = 1 .. n
  BY SequenceFacts DEF Fits, Songlike
<1>2. ASSUME NEW tr, Tracklike(tr), NEW i
      PROVE  Tracklike(Renumber(tr, i)) /\ Renumber(tr, i).number = i
  <2> DEFINE es == [j \in DOMAIN tr.events |-> [tr.events[j] EXCEPT !.track = i]]
  <2>1. IsSequence(es)
    BY <1>2, SequenceFacts, MadeSequence DEF Tracklike
  <2>2. Renumber(tr, i) = [tr EXCEPT !.number = i, !.events = es]
    BY DEF Renumber
  <2> HIDE DEF es
  <2> QED
    BY <1>2, <2>1, <2>2 DEF Tracklike, TrackFields
<1>3. r = smf_track_remove_from_smf(s, t)
  BY DEF smf_track_remove_from_smf
<1>4. r.tracks = tracks /\ DOMAIN r = DOMAIN s /\ r.format = s.format
  BY DEF Fits, Songlike, SongFields
<1> HIDE DEF n, r
<1>5. \A i \in 1 .. n - 1 : Tracklike(tracks[i]) /\ tracks[i].number = i
  <2> TAKE i \in 1 .. n - 1
  <2>1. i \in 1 .. n /\ i + 1 \in 1 .. n
    BY <1>1
  <2> QED
    BY <1>1, <1>2, <2>1 DEF Fits, Songlike
<1> HIDE DEF tracks
<1>6. CASE n = 0
  <2>1. tracks = [i \in 1 .. 0 |-> tracks[i]]
    BY <1>6 DEF tracks
  <2>2. IsSequence(tracks) /\ Len(tracks) = 0 /\ DOMAIN tracks = 1 .. 0
    BY <2>1, MadeSequence
  <2>3. Fits(r)
    BY <1>4, <2>2 DEF Fits, Songlike
  <2> QED
    BY <1>3, <1>6, <2>3 DEF n
<1>7. CASE n # 0
  <2>1. n - 1 \in Nat /\ tracks = [i \in 1 .. n - 1 |-> tracks[i]]
    BY <1>1, <1>7 DEF tracks
  <2>2. IsSequence(tracks) /\ Len(tracks) = n - 1 /\ DOMAIN tracks = 1 .. n - 1
    BY <2>1, MadeSequence
  <2>3. s.format = 0 => n <= 1
    BY DEF Fits, n
  <2>4. Fits(r)
    BY <1>1, <1>4, <1>5, <2>2, <2>3 DEF Fits, Songlike
  <2> QED
    BY <1>3, <1>4, <2>2, <2>4 DEF n
<1> QED
  BY <1>6, <1>7

\* A track loses its events, one after another.
Losing(g, t, first, n) ==
    g = [k \in 0 .. n |-> IF k = 0 THEN first ELSE LosesLast(g[k - 1], t)]

LEMMA LosingIterated ==
    ASSUME NEW t, NEW first, NEW n \in Nat
    PROVE  \E g : Losing(g, t, first, n)
<1> DEFINE Built(m) == \E g : Losing(g, t, first, m)
           S == {m \in 0 .. n : Built(m)}
<1>1. Built(0)
  <2> DEFINE g == [k \in 0 .. 0 |-> first]
  <2>1. Losing(g, t, first, 0)
    BY DEF Losing
  <2> HIDE DEF g
  <2> QED
    BY <2>1
<1>2. ASSUME NEW m \in 0 .. n, Built(m)
      PROVE  Built(m + 1)
  <2>1. PICK g : Losing(g, t, first, m)
    BY <1>2
  <2> DEFINE f == [k \in 0 .. m + 1 |-> IF k = m + 1 THEN LosesLast(g[m], t) ELSE g[k]]
  <2>2. Losing(f, t, first, m + 1)
    BY <2>1 DEF Losing
  <2> HIDE DEF f
  <2> QED
    BY <2>2
<1> HIDE DEF Built
<1>3. 0 \in S /\ \A m \in S : m < n => m + 1 \in S
  BY <1>1, <1>2
<1>4. S = 0 .. n
  <2>1. S \in SUBSET (0 .. n)
    OBVIOUS
  <2> HIDE DEF S
  <2> QED
    BY <1>3, <2>1, Induction
<1> QED
  BY <1>4 DEF Built

LEMMA TrackDeleteFits ==
    ASSUME NEW s, Fits(s), NEW t \in DOMAIN s.tracks
    PROVE  /\ Fits(smf_track_delete(s, t))
           /\ Len(smf_track_delete(s, t).tracks) = Len(s.tracks) - 1
<1> DEFINE n == Len(s.tracks[t].events)
           h == CHOOSE g : Losing(g, t, s, n)
           S == {k \in 0 .. n : Alike(h[k], s)}
<1>1. n \in Nat
  BY SequenceFacts DEF Fits, Songlike, Tracklike
<1>2. smf_track_delete(s, t) = smf_track_remove_from_smf(h[n], t)
  BY DEF smf_track_delete, Iterate, Losing
<1> HIDE DEF n
<1>3. h = [k \in 0 .. n |-> IF k = 0 THEN s ELSE LosesLast(h[k - 1], t)]
  <2>1. Losing(h, t, s, n)
    BY <1>1, LosingIterated
  <2> HIDE DEF h
  <2> QED
    BY <2>1 DEF Losing
<1>4. \A r : Songlike(r) => Alike(LosesLast(r, t), r)
  BY smf_event_removeOutline DEF LosesLast
<1> HIDE DEF h
<1>5. 0 \in S /\ \A k \in S : k < n => k + 1 \in S
  BY <1>1, <1>3, <1>4, AlikeReflexive, AlikeSonglike, AlikeTransitive DEF Fits
<1>6. S = 0 .. n
  <2>1. S \in SUBSET (0 .. n)
    OBVIOUS
  <2> HIDE DEF S
  <2> QED
    BY <1>1, <1>5, <2>1, Induction
<1>7. Alike(h[n], s)
  BY <1>1, <1>6
<1>8. Fits(h[n]) /\ Len(h[n].tracks) = Len(s.tracks)
  BY <1>7, FitsKept
<1>9. Len(s.tracks) > 0
  <2>1. Len(s.tracks) \in Nat /\ DOMAIN s.tracks = 1 .. Len(s.tracks)
    BY SequenceFacts DEF Fits, Songlike
  <2> QED
    BY <2>1
<1> QED
  BY <1>2, <1>8, <1>9, RemoveTrackFits

\* A song loses its tracks.
Deleting(g, first, n) ==
    g = [k \in 0 .. n |-> IF k = 0 THEN first ELSE smf_track_delete(g[k - 1], Len(g[k - 1].tracks))]

LEMMA DeletingIterated ==
    ASSUME NEW first, NEW n \in Nat
    PROVE  \E g : Deleting(g, first, n)
<1> DEFINE Built(m) == \E g : Deleting(g, first, m)
           S == {m \in 0 .. n : Built(m)}
<1>1. Built(0)
  <2> DEFINE g == [k \in 0 .. 0 |-> first]
  <2>1. Deleting(g, first, 0)
    BY DEF Deleting
  <2> HIDE DEF g
  <2> QED
    BY <2>1
<1>2. ASSUME NEW m \in 0 .. n, Built(m)
      PROVE  Built(m + 1)
  <2>1. PICK g : Deleting(g, first, m)
    BY <1>2
  <2> DEFINE f == [k \in 0 .. m + 1 |-> IF k = m + 1 THEN smf_track_delete(g[m], Len(g[m].tracks)) ELSE g[k]]
  <2>2. Deleting(f, first, m + 1)
    BY <2>1 DEF Deleting
  <2> HIDE DEF f
  <2> QED
    BY <2>2
<1> HIDE DEF Built
<1>3. 0 \in S /\ \A m \in S : m < n => m + 1 \in S
  BY <1>1, <1>2
<1>4. S = 0 .. n
  <2>1. S \in SUBSET (0 .. n)
    OBVIOUS
  <2> HIDE DEF S
  <2> QED
    BY <1>3, <2>1, Induction
<1> QED
  BY <1>4 DEF Built

LEMMA DeleteFits ==
    ASSUME NEW s, Fits(s)
    PROVE  Fits(smf_delete(s)) /\ Len(smf_delete(s).tracks) = 0
<1> DEFINE n == Len(s.tracks)
           Step(r) == smf_track_delete(r, Len(r.tracks))
           h == CHOOSE g : Deleting(g, s, n)
           S == {k \in 0 .. n : Fits(h[k]) /\ Len(h[k].tracks) = n - k}
<1>1. n \in Nat
  BY SequenceFacts DEF Fits, Songlike
<1>2. smf_delete(s) = h[n]
  BY DEF smf_delete, Iterate, Deleting
<1>3. Len(s.tracks) = n
  OBVIOUS
<1> HIDE DEF n
<1>4. h = [k \in 0 .. n |-> IF k = 0 THEN s ELSE Step(h[k - 1])]
  <2>1. Deleting(h, s, n)
    BY <1>1, DeletingIterated
  <2> HIDE DEF h
  <2> QED
    BY <2>1 DEF Deleting
<1>5. ASSUME NEW r, Fits(r), Len(r.tracks) > 0
      PROVE  Fits(Step(r)) /\ Len(Step(r).tracks) = Len(r.tracks) - 1
  <2>1. Len(r.tracks) \in DOMAIN r.tracks
    <3>1. Len(r.tracks) \in Nat /\ DOMAIN r.tracks = 1 .. Len(r.tracks)
      BY <1>5, SequenceFacts DEF Fits, Songlike
    <3> QED
      BY <1>5, <3>1
  <2> QED
    BY <1>5, <2>1, TrackDeleteFits
<1> HIDE DEF h, Step
<1>6. 0 \in S
  BY <1>1, <1>3, <1>4
<1>7. ASSUME NEW k \in S, k < n
      PROVE  k + 1 \in S
  <2>1. Fits(h[k]) /\ Len(h[k].tracks) = n - k /\ n - k > 0
    BY <1>1, <1>7
  <2>2. h[k + 1] = Step(h[k])
    BY <1>1, <1>4, <1>7
  <2>3. Fits(h[k + 1]) /\ Len(h[k + 1].tracks) = (n - k) - 1
    BY <1>5, <2>1, <2>2
  <2> QED
    BY <1>1, <1>7, <2>3
<1>8. S = 0 .. n
  <2>1. S \in SUBSET (0 .. n)
    OBVIOUS
  <2> HIDE DEF S
  <2> QED
    BY <1>1, <1>6, <1>7, <2>1, Induction
<1> QED
  BY <1>1, <1>2, <1>8
\* The tracks are validated.
Validating(g, bad, tag, first, n) ==
    g = [k \in 0 .. n |-> IF k = 0 THEN first ELSE NextValid(g[k - 1], bad, tag)]

LEMMA ValidIterated ==
    ASSUME NEW bad, NEW tag, NEW first, NEW n \in Nat
    PROVE  \E g : Validating(g, bad, tag, first, n)
<1> DEFINE Built(m) == \E g : Validating(g, bad, tag, first, m)
           S == {m \in 0 .. n : Built(m)}
<1>1. Built(0)
  <2> DEFINE g == [k \in 0 .. 0 |-> first]
  <2>1. Validating(g, bad, tag, first, 0)
    BY DEF Validating
  <2> HIDE DEF g
  <2> QED
    BY <2>1
<1>2. ASSUME NEW m \in 0 .. n, Built(m)
      PROVE  Built(m + 1)
  <2>1. PICK g : Validating(g, bad, tag, first, m)
    BY <1>2
  <2> DEFINE f == [k \in 0 .. m + 1 |-> IF k = m + 1 THEN NextValid(g[m], bad, tag) ELSE g[k]]
  <2>2. Validating(f, bad, tag, first, m + 1)
    BY <2>1 DEF Validating
  <2> HIDE DEF f
  <2> QED
    BY <2>2
<1> HIDE DEF Built
<1>3. 0 \in S /\ \A m \in S : m < n => m + 1 \in S
  BY <1>1, <1>2
<1>4. S = 0 .. n
  <2>1. S \in SUBSET (0 .. n)
    OBVIOUS
  <2> HIDE DEF S
  <2> QED
    BY <1>3, <2>1, Induction
<1> QED
  BY <1>4 DEF Built

LEMMA smf_validateOutline ==
    ASSUME NEW s, Songlike(s), NEW bad, NEW tag
    PROVE  Alike(smf_validate(s, bad, tag).song, s)
<1> DEFINE n == Len(s.tracks)
           first == [t |-> 1, song |-> s]
           h == CHOOSE g : Validating(g, bad, tag, first, n)
           S == {k \in 0 .. n : Alike(h[k].song, s)}
<1>1. n \in Nat
  BY SequenceFacts DEF Songlike
<1>2. smf_validate(s, bad, tag).song = h[n].song
  BY DEF smf_validate, Iterate, Validating
<1>3. first.song = s
  OBVIOUS
<1> HIDE DEF n, first
<1>4. h = [k \in 0 .. n |-> IF k = 0 THEN first ELSE NextValid(h[k - 1], bad, tag)]
  <2>1. Validating(h, bad, tag, first, n)
    BY <1>1, ValidIterated
  <2> HIDE DEF h
  <2> QED
    BY <2>1 DEF Validating
<1>5. ASSUME NEW r, Songlike(r.song)
      PROVE  Alike(NextValid(r, bad, tag).song, r.song)
  <2> DEFINE q == smf_track_add_eot_delta_pulses(r.song, r.t, tag[r.t], 0)
  <2>1. Alike(q, r.song) /\ Alike(r.song, r.song)
    BY <1>5, AddedOutline, AlikeReflexive
  <2>2. NextValid(r, bad, tag).song \in {q, r.song}
    BY DEF NextValid
  <2> HIDE DEF q
  <2> QED
    BY <2>1, <2>2
<1> HIDE DEF h
<1>6. 0 \in S
  BY <1>1, <1>3, <1>4, AlikeReflexive
<1>7. ASSUME NEW k \in S, k < n
      PROVE  k + 1 \in S
  <2>1. h[k + 1] = NextValid(h[k], bad, tag) /\ k + 1 \in 0 .. n
    BY <1>1, <1>4, <1>7
  <2>2. Alike(h[k].song, s) /\ Songlike(h[k].song)
    BY AlikeSonglike
  <2>3. Alike(h[k + 1].song, s)
    BY <1>5, <2>1, <2>2, AlikeTransitive
  <2> QED
    BY <2>1, <2>3
<1>8. S = 0 .. n
  <2>1. S \in SUBSET (0 .. n)
    OBVIOUS
  <2> HIDE DEF S
  <2> QED
    BY <1>1, <1>6, <1>7, <2>1, Induction
<1> QED
  BY <1>1, <1>2, <1>8

-----------------------------------------------------------------------------
(* The events themselves: their order, their numbers and deltas, and the    *)
(* number of the track that they keep.                                      *)

EventFields == {"kind", "val", "tag", "pulses", "delta", "number", "track", "seconds"}

Before(es, i) == IF i = 1 THEN 0 ELSE es[i - 1].pulses

InOrder(es) ==
    /\ IsSequence(es)
    /\ \A i \in DOMAIN es :
          /\ EventFields \subseteq DOMAIN es[i]
          /\ es[i].pulses \in Nat
          /\ es[i].number = i
          /\ es[i].delta = es[i].pulses - Before(es, i) /\ es[i].delta >= 0

OwnedBy(es, n) == \A i \in DOMAIN es : es[i].track = n

Orderly(s) == Songlike(s) /\ \A t \in DOMAIN s.tracks : InOrder(s.tracks[t].events)
Owned(s) == \A t \in DOMAIN s.tracks : OwnedBy(s.tracks[t].events, s.tracks[t].number)

\* What a function of the library promises of the song it makes of s.
Keeps(r, s) == Orderly(s) => Orderly(r) /\ (Owned(s) => Owned(r))

LEMMA KeepsTransitive ==
    ASSUME NEW s, NEW r, NEW q, Keeps(r, s), Keeps(q, r)
    PROVE  Keeps(q, s)
BY DEF Keeps

LEMMA SameInOrder ==
    ASSUME NEW es, InOrder(es), NEW fs, SameEvents(fs, es), IsSequence(fs)
    PROVE  InOrder(fs) /\ \A n : OwnedBy(es, n) => OwnedBy(fs, n)
<1>1. DOMAIN es = 1 .. Len(es) /\ Len(es) \in Nat /\ DOMAIN fs = DOMAIN es
  BY SequenceFacts DEF InOrder, SameEvents
<1>2. \A i \in DOMAIN es :
         /\ EventFields \subseteq DOMAIN fs[i]
         /\ fs[i].pulses = es[i].pulses /\ fs[i].number = es[i].number
         /\ fs[i].delta = es[i].delta /\ fs[i].track = es[i].track
  BY DEF SameEvents, SameEvent, InOrder, EventFields
<1>3. \A i \in DOMAIN es : Before(fs, i) = Before(es, i)
  BY <1>1, <1>2 DEF Before
<1> QED
  BY <1>1, <1>2, <1>3 DEF InOrder, OwnedBy

LEMMA SameKeeps ==
    ASSUME NEW s, NEW r, Same(r, s)
    PROVE  Keeps(r, s)
<1> SUFFICES ASSUME Orderly(s) PROVE Orderly(r) /\ (Owned(s) => Owned(r))
  BY DEF Keeps
<1>1. Songlike(r) /\ DOMAIN r.tracks = DOMAIN s.tracks
  BY DEF Same, Alike
<1>2. \A t \in DOMAIN s.tracks :
         /\ InOrder(s.tracks[t].events) /\ SameEvents(r.tracks[t].events, s.tracks[t].events)
         /\ IsSequence(r.tracks[t].events) /\ r.tracks[t].number = s.tracks[t].number
  BY <1>1 DEF Same, Alike, Orderly, Songlike, Tracklike
<1> QED
  BY <1>1, <1>2, SameInOrder DEF Orderly, Owned

\* What is left of a track's events when the i-th has gone.
Rest(es, i) ==
    [j \in 1 .. Len(es) - 1 |->
        IF j < i THEN es[j]
        ELSE [es[j + 1] EXCEPT !.number = (j + 1) - 1,
                               !.delta = IF j + 1 = i + 1 THEN @ + es[i].delta ELSE @]]

LEMMA RestSequence ==
    ASSUME NEW es, NEW i, IsSequence(es)
    PROVE  IsSequence(Rest(es, i)) /\ DOMAIN Rest(es, i) = 1 .. Len(es) - 1
<1> DEFINE n == Len(es)
           rest == Rest(es, i)
<1>1. n \in Nat
  BY SequenceFacts
<1>2. CASE n = 0
  <2>1. rest = [j \in 1 .. 0 |-> rest[j]] /\ 1 .. n - 1 = 1 .. 0
    BY <1>2 DEF Rest
  <2> HIDE DEF rest, n
  <2>2. IsSequence(rest) /\ DOMAIN rest = 1 .. n - 1
    BY <2>1, MadeSequence
  <2> QED
    BY <2>2 DEF rest, n
<1>3. CASE n # 0
  <2>1. n - 1 \in Nat /\ rest = [j \in 1 .. n - 1 |-> rest[j]]
    BY <1>1, <1>3 DEF Rest
  <2> HIDE DEF rest, n
  <2>2. IsSequence(rest) /\ DOMAIN rest = 1 .. n - 1
    BY <2>1, MadeSequence
  <2> QED
    BY <2>2 DEF rest, n
<1> QED
  BY <1>2, <1>3

LEMMA RestInOrder ==
    ASSUME NEW es, InOrder(es), NEW i, i \in DOMAIN es \/ i = Len(es)
    PROVE  InOrder(Rest(es, i)) /\ \A n : OwnedBy(es, n) => OwnedBy(Rest(es, i), n)
<1> DEFINE n == Len(es)
           rest == Rest(es, i)
<1>1. n \in Nat /\ DOMAIN es = 1 .. n /\ i \in 0 .. n /\ (i = 0 => n = 0)
  BY SequenceFacts DEF InOrder
<1>2. IsSequence(rest) /\ DOMAIN rest = 1 .. n - 1
  BY RestSequence DEF InOrder
<1>3. ASSUME NEW j \in 1 .. n - 1
      PROVE  /\ EventFields \subseteq DOMAIN rest[j]
             /\ rest[j].number = j
             /\ rest[j].pulses = IF j < i THEN es[j].pulses ELSE es[j + 1].pulses
             /\ rest[j].delta = IF j < i THEN es[j].delta
                                ELSE IF j = i THEN es[j + 1].delta + es[i].delta
                                ELSE es[j + 1].delta
             /\ rest[j].track = IF j < i THEN es[j].track ELSE es[j + 1].track
  <2>1. j \in 1 .. n /\ j + 1 \in 1 .. n /\ (j + 1) - 1 = j /\ (j + 1 = i + 1 <=> j = i)
    <3> HIDE DEF n
    <3> QED
      BY <1>1
  <2>2. /\ EventFields \subseteq DOMAIN es[j] /\ EventFields \subseteq DOMAIN es[j + 1]
        /\ es[j].number = j
    BY <1>1, <2>1 DEF InOrder
  <2>3. rest[j] = IF j < i THEN es[j]
                  ELSE [es[j + 1] EXCEPT !.number = j,
                                         !.delta = IF j = i THEN es[j + 1].delta + es[i].delta
                                                            ELSE es[j + 1].delta]
    BY <2>1, <2>2 DEF Rest, EventFields
  <2> HIDE DEF rest
  <2> QED
    BY <2>2, <2>3 DEF EventFields
<1>4. \A j \in 1 .. n : /\ es[j].pulses \in Nat /\ es[j].delta \in Int /\ es[j].delta >= 0
                        /\ es[j].delta = es[j].pulses - (IF j = 1 THEN 0 ELSE es[j - 1].pulses)
  <2> HIDE DEF n
  <2> TAKE j \in 1 .. n
  <2>1. /\ es[j].pulses \in Nat /\ es[j].delta >= 0
        /\ es[j].delta = es[j].pulses - Before(es, j)
    BY <1>1 DEF InOrder
  <2>2. Before(es, j) \in Nat
    <3>1. j # 1 => j - 1 \in 1 .. n
      BY <1>1
    <3> QED
      BY <1>1, <3>1 DEF Before, InOrder
  <2> QED
    BY <2>1, <2>2 DEF Before
<1> HIDE DEF rest, n
<1>5. ASSUME NEW j \in 1 .. n - 1
      PROVE  /\ rest[j].pulses \in Nat /\ rest[j].delta >= 0
             /\ rest[j].delta = rest[j].pulses - Before(rest, j)
  <2>1. /\ j \in 1 .. n /\ j + 1 \in 1 .. n /\ (j + 1) - 1 = j
        /\ j # 1 => j - 1 \in 1 .. n /\ j - 1 \in 1 .. n - 1 /\ (j - 1) + 1 = j
        /\ i \in 1 .. n
    BY <1>1
  <2>2. CASE j < i
    <3>1. j # 1 => rest[j - 1].pulses = es[j - 1].pulses
      BY <1>1, <1>3, <2>1, <2>2
    <3> QED
      BY <1>3, <1>4, <2>1, <2>2, <3>1 DEF Before
  <2>3. CASE j = i
    <3>1. j # 1 => rest[j - 1].pulses = es[j - 1].pulses
      BY <1>1, <1>3, <2>1, <2>3
    <3>2. /\ rest[j].pulses = es[j + 1].pulses /\ rest[j].delta = es[j + 1].delta + es[j].delta
      BY <1>3, <2>3
    <3>3. /\ es[j + 1].pulses \in Nat /\ es[j + 1].delta \in Int /\ es[j + 1].delta >= 0
          /\ es[j + 1].delta = es[j + 1].pulses - es[j].pulses
      BY <1>4, <2>1
    <3>4. /\ es[j].pulses \in Nat /\ es[j].delta \in Int /\ es[j].delta >= 0
          /\ es[j].delta = es[j].pulses - Before(rest, j)
          /\ Before(rest, j) \in Nat
      BY <1>4, <2>1, <3>1 DEF Before
    <3>5. rest[j].pulses \in Nat
      BY <3>2, <3>3
    <3>6. /\ rest[j].delta = (es[j + 1].pulses - es[j].pulses) + (es[j].pulses - Before(rest, j))
          /\ rest[j].delta >= 0
      BY <3>2, <3>3, <3>4
    <3> QED
      BY <3>2, <3>3, <3>4, <3>5, <3>6
  <2>4. CASE j > i
    <3>1. j # 1 => rest[j - 1].pulses = es[j].pulses
      BY <1>1, <1>3, <2>1, <2>4
    <3>2. /\ rest[j].pulses = es[j + 1].pulses /\ rest[j].delta = es[j + 1].delta
      BY <1>1, <1>3, <2>4
    <3>3. j # 1
      BY <2>1, <2>4
    <3> QED
      BY <1>4, <2>1, <3>1, <3>2, <3>3 DEF Before
  <2> QED
    BY <1>1, <2>2, <2>3, <2>4
<1>6. InOrder(rest)
  BY <1>2, <1>3, <1>5 DEF InOrder
<1>7. \A m : OwnedBy(es, m) => OwnedBy(rest, m)
  BY <1>1, <1>2, <1>3 DEF OwnedBy
<1> QED
  BY <1>6, <1>7 DEF rest

LEMMA TrackKeeps ==
    ASSUME NEW s, Songlike(s), NEW t \in DOMAIN s.tracks, NEW tr,
           Tracklike(tr), tr.number = s.tracks[t].number,
           InOrder(s.tracks[t].events) => InOrder(tr.events),
           InOrder(s.tracks[t].events) /\ OwnedBy(s.tracks[t].events, tr.number)
              => OwnedBy(tr.events, tr.number)
    PROVE  Keeps([s EXCEPT !.tracks[t] = tr], s)
<1> DEFINE r == [s EXCEPT !.tracks[t] = tr]
<1>1. Alike(r, s)
  BY OtherTrack
<1>2. r.tracks = [s.tracks EXCEPT ![t] = tr]
  BY DEF Songlike, SongFields
<1> HIDE DEF r
<1>3. \A i \in DOMAIN s.tracks : r.tracks[i] = IF i = t THEN tr ELSE s.tracks[i]
  BY <1>2
<1>4. Keeps(r, s)
  BY <1>1, <1>3 DEF Keeps, Orderly, Owned, Alike
<1> QED
  BY <1>4 DEF r

LEMMA smf_event_removeKeeps ==
    ASSUME NEW s, Songlike(s), NEW t \in DOMAIN s.tracks, NEW i,
           i \in DOMAIN s.tracks[t].events \/ i = Len(s.tracks[t].events)
    PROVE  Keeps(smf_event_remove_from_track(s, t, i), s)
<1> DEFINE es == s.tracks[t].events
           ev == es[i]
           rest == Rest(es, i)
           next == IF rest = << >> THEN -1 ELSE s.tracks[t].next
           tr == [s.tracks[t] EXCEPT !.events = rest, !.next = next]
           q == [s EXCEPT !.tracks[t] = tr]
<1>1. Alike(smf_event_remove_from_track(s, t, i), s)
  BY smf_event_removeOutline
<1>2. smf_event_remove_from_track(s, t, i)
         = IF ~smf_event_is_tempo_change_or_time_signature(ev) THEN q
           ELSE IF smf_event_is_last(s, ev) THEN remove_last_tempo_with_pulses(q, ev.pulses)
           ELSE smf_create_tempo_map_and_compute_seconds(q)
  <2> DEFINE without == [s EXCEPT !.tracks[t].events = rest,
                                  !.tracks[t].next = IF rest = << >> THEN -1 ELSE @]
  <2>1. without = q
    BY DEF Songlike, SongFields, Tracklike, TrackFields
  <2>2. smf_event_remove_from_track(s, t, i)
         = IF ~smf_event_is_tempo_change_or_time_signature(ev) THEN without
           ELSE IF smf_event_is_last(s, ev) THEN remove_last_tempo_with_pulses(without, ev.pulses)
           ELSE smf_create_tempo_map_and_compute_seconds(without)
    BY DEF smf_event_remove_from_track, Rest
  <2> HIDE DEF without, q
  <2> QED
    BY <2>1, <2>2
<1>3. IsSequence(rest)
  BY SequenceFacts, RestSequence DEF Songlike, Tracklike
<1>4. Tracklike(tr) /\ tr.number = s.tracks[t].number /\ tr.events = rest
  <2> HIDE DEF rest, next
  <2> QED
    BY <1>3 DEF Songlike, Tracklike, TrackFields
<1>5. /\ InOrder(es) => InOrder(rest)
      /\ \A n : InOrder(es) /\ OwnedBy(es, n) => OwnedBy(rest, n)
  BY RestInOrder
<1> HIDE DEF tr, rest
<1>6. Keeps(q, s) /\ Songlike(q)
  <2>1. Keeps(q, s)
    BY <1>4, <1>5, TrackKeeps
  <2>2. Alike(q, s)
    BY <1>4, OtherTrack
  <2> QED
    BY <2>1, <2>2, AlikeSonglike
<1> HIDE DEF q
<1>7. Same(smf_event_remove_from_track(s, t, i), q)
  BY <1>2, <1>6, TempoMapSame, smf_create_tempo_mapSame, SameReflexive
<1> QED
  BY <1>6, <1>7, SameKeeps, KeepsTransitive

LEMMA remove_eotKeeps ==
    ASSUME NEW s, Songlike(s), NEW t \in DOMAIN s.tracks, NEW p
    PROVE  Keeps(remove_eot_if_before_pulses(s, t, p), s)
BY smf_event_removeKeeps, SameReflexive, SameKeeps DEF remove_eot_if_before_pulses

\* The events of a track come one after another, not only each after the last.
LEMMA NoneEarlier ==
    ASSUME NEW es, InOrder(es)
    PROVE  \A i, j \in DOMAIN es : i <= j => es[i].pulses <= es[j].pulses
<1> DEFINE n == Len(es)
           Upto(k) == \A i, j \in 1 .. k : i <= j => es[i].pulses <= es[j].pulses
           S == {k \in 0 .. n : Upto(k)}
<1>1. n \in Nat /\ DOMAIN es = 1 .. n
  BY SequenceFacts DEF InOrder
<1> HIDE DEF n
<1>2. \A j \in 1 .. n : es[j].pulses \in Nat
  BY <1>1 DEF InOrder
<1>3. \A j \in 2 .. n : es[j - 1].pulses <= es[j].pulses
  <2> TAKE j \in 2 .. n
  <2>1. j \in 1 .. n /\ j - 1 \in 1 .. n /\ j # 1
    BY <1>1
  <2>2. es[j].delta = es[j].pulses - es[j - 1].pulses /\ es[j].delta >= 0
    BY <1>1, <2>1 DEF InOrder, Before
  <2> QED
    BY <1>2, <2>1, <2>2
<1>4. ASSUME NEW k \in S, k < n
      PROVE  k + 1 \in S
  <2>1. k \in 0 .. n /\ Upto(k)
    OBVIOUS
  <2>2. ASSUME NEW i \in 1 .. k + 1, NEW j \in 1 .. k + 1, i <= j
        PROVE  es[i].pulses <= es[j].pulses
    <3>1. CASE j \in 1 .. k
      BY <1>1, <2>1, <2>2, <3>1
    <3>2. CASE j = k + 1 /\ i = j
      BY <1>1, <1>2, <1>4, <2>1, <3>2
    <3>3. CASE j = k + 1 /\ i # j
      <4>1. i \in 1 .. k /\ k \in 1 .. k /\ i <= k /\ i \in 1 .. n /\ k \in 1 .. n
            /\ j \in 2 .. n /\ j - 1 = k /\ j \in 1 .. n
        BY <1>1, <1>4, <2>1, <2>2, <3>3
      <4>2. es[i].pulses <= es[k].pulses
        BY <2>1, <4>1
      <4>3. es[k].pulses <= es[j].pulses
        BY <1>3, <4>1
      <4> QED
        BY <1>2, <4>1, <4>2, <4>3
    <3> QED
      BY <1>1, <2>1, <2>2, <3>1, <3>2, <3>3
  <2> QED
    BY <1>1, <1>4, <2>1, <2>2
<1>5. 0 \in S
  BY <1>1
<1>6. S = 0 .. n
  <2>1. S \in SUBSET (0 .. n)
    OBVIOUS
  <2> HIDE DEF S
  <2> QED
    BY <1>1, <1>4, <1>5, <2>1, Induction
<1>7. n \in S
  <2>1. n \in 0 .. n
    BY <1>1
  <2> HIDE DEF S
  <2> QED
    BY <1>6, <2>1
<1>8. Upto(n)
  BY <1>7
<1> QED
  BY <1>1, <1>8

\* A new event that does not come last: where it goes, and what the sort makes
\* of the others.
Inserts(sorted, es, ev, m) ==
    /\ DOMAIN sorted = 1 .. Len(es) + 1
    /\ \A k \in 1 .. m : sorted[k] = es[k]
    /\ sorted[m + 1] = ev
    /\ \A k \in m + 2 .. Len(es) + 1 : sorted[k] = es[k - 1]

LEMMA SortInserts ==
    ASSUME NEW es, InOrder(es), NEW ev, ev.pulses \in Nat, ev.number = 0,
           NEW last \in DOMAIN es, es[last].pulses > ev.pulses
    PROVE  \E m \in 0 .. Len(es) - 1 :
              /\ Inserts(g_ptr_array_sort(Append(es, ev)), es, ev, m)
              /\ \A j \in 1 .. m : es[j].pulses < ev.pulses
              /\ \A j \in m + 1 .. Len(es) : es[j].pulses >= ev.pulses
<1> DEFINE n == Len(es)
           p == ev.pulses
           all == Append(es, ev)
           Rank(i) == {j \in DOMAIN all : Precedes(all, j, i)}
           sorted == g_ptr_array_sort(all)
<1>1. n \in Nat /\ n = Len(es) /\ DOMAIN es = 1 .. n /\ p \in Nat
  BY SequenceFacts DEF InOrder
<1>2. DOMAIN all = 1 .. n + 1 /\ (\A i \in 1 .. n : all[i] = es[i]) /\ all[n + 1] = ev
  BY AppendedSequence, SequenceFacts DEF InOrder
<1>3. sorted = [k \in DOMAIN all |-> all[CHOOSE i \in DOMAIN all : Cardinality(Rank(i)) = k - 1]]
  BY DEF g_ptr_array_sort
<1> HIDE DEF n, all, sorted
<1>4. \A i \in 1 .. n : es[i].pulses \in Nat /\ es[i].number = i
  BY <1>1 DEF InOrder
<1>5. \A i, j \in 1 .. n : i <= j => es[i].pulses <= es[j].pulses
  BY <1>1, NoneEarlier
<1>6. PICK m \in 0 .. n - 1 : /\ \A j \in 1 .. m : es[j].pulses < p
                              /\ \A j \in m + 1 .. n : es[j].pulses >= p
  <2> DEFINE S == {j \in 1 .. n : es[j].pulses >= p}
  <2>1. S \in SUBSET Nat /\ S # {}
    BY <1>1, <1>4
  <2>2. PICK f \in S : \A j \in S : f <= j
    <3> HIDE DEF S
    <3> QED
      BY <2>1, LeastNumber
  <2>3. f \in 1 .. n /\ f - 1 \in 0 .. n - 1 /\ es[f].pulses >= p
    BY <1>1
  <2>4. \A j \in 1 .. f - 1 : es[j].pulses < p
    BY <1>1, <1>4, <2>2, <2>3
  <2>5. \A j \in (f - 1) + 1 .. n : es[j].pulses >= p
    BY <1>1, <1>4, <1>5, <2>3
  <2> QED
    BY <2>3, <2>4, <2>5
<1>7. m \in Nat /\ m < n /\ m + 1 \in 1 .. n
  BY <1>1
\* Which events come before which.
<1>8. ASSUME NEW i \in 1 .. n, NEW j \in 1 .. n
      PROVE  Precedes(all, j, i) <=> j < i
  <2>1. j < i => es[j].pulses <= es[i].pulses
    BY <1>5
  <2>2. ~(j < i) => es[i].pulses <= es[j].pulses /\ i <= j
    BY <1>5
  <2> QED
    BY <1>2, <1>4, <2>1, <2>2 DEF Precedes, Sorted
<1>9. ASSUME NEW i \in 1 .. n
      PROVE  /\ Precedes(all, n + 1, i) <=> m < i
             /\ Precedes(all, i, n + 1) <=> i <= m
  <2>1. ~(n + 1 < i) /\ i < n + 1
    BY <1>1
  <2>2. es[i].pulses < p <=> i <= m
    BY <1>1, <1>4, <1>6
  <2> QED
    BY <1>1, <1>2, <1>4, <2>1, <2>2 DEF Precedes, Sorted
<1>10. ~Precedes(all, n + 1, n + 1)
  BY <1>1, <1>2 DEF Precedes, Sorted
<1>11. ASSUME NEW i \in 1 .. m
       PROVE  Cardinality(Rank(i)) = i - 1
  <2>1. Rank(i) = 1 .. i - 1
    BY <1>1, <1>2, <1>7, <1>8, <1>9
  <2> HIDE DEF Rank
  <2> QED
    BY <1>7, <2>1, FS_Interval
<1>12. ASSUME NEW i \in m + 1 .. n
       PROVE  Cardinality(Rank(i)) = i
  <2>1. Rank(i) = (1 .. i - 1) \cup {n + 1}
    BY <1>1, <1>2, <1>7, <1>8, <1>9
  <2>2. i \in Nat /\ i >= 1 /\ i <= n
    BY <1>1, <1>7
  <2> DEFINE S == 1 .. i - 1
  <2>3. IsFiniteSet(S) /\ Cardinality(S) = i - 1 /\ ~(n + 1 \in S)
    <3>1. ~(n + 1 \in S)
      BY <1>1, <2>2
    <3>2. i - 1 \in Int /\ 1 \in Int /\ (1 > i - 1 => i - 1 = 0) /\ (i - 1) - 1 + 1 = i - 1
      BY <2>2
    <3> QED
      BY <3>1, <3>2, FS_Interval
  <2> HIDE DEF Rank, S
  <2>4. Cardinality(S \cup {n + 1}) = Cardinality(S) + 1
    BY <2>3, FS_AddElement
  <2> QED
    BY <2>1, <2>2, <2>3, <2>4 DEF S
<1>13. Cardinality(Rank(n + 1)) = m
  <2>1. Rank(n + 1) = 1 .. m
    BY <1>1, <1>2, <1>7, <1>9, <1>10
  <2> HIDE DEF Rank
  <2> QED
    BY <1>7, <2>1, FS_Interval
<1> HIDE DEF Rank
\* So each rank is that of one event.
<1>14. ASSUME NEW k \in 1 .. n + 1, NEW i \in 1 .. n + 1,
              Cardinality(Rank(i)) = k - 1,
              \A j \in 1 .. n + 1 : Cardinality(Rank(j)) = k - 1 => j = i
       PROVE  sorted[k] = all[i]
  BY <1>2, <1>3, <1>14
<1>15. \A i \in 1 .. n + 1 :
          Cardinality(Rank(i)) = IF i = n + 1 THEN m ELSE IF i <= m THEN i - 1 ELSE i
  BY <1>1, <1>7, <1>11, <1>12, <1>13
<1>16. \A k \in 1 .. m : sorted[k] = es[k]
  <2> TAKE k \in 1 .. m
  <2>1. k \in 1 .. n + 1 /\ k # n + 1 /\ k \in 1 .. n
    BY <1>1, <1>7
  <2>2. \A j \in 1 .. n + 1 : Cardinality(Rank(j)) = k - 1 <=> j = k
    BY <1>1, <1>7, <1>15
  <2> QED
    BY <1>2, <1>14, <2>1, <2>2
<1>17. sorted[m + 1] = ev
  <2>1. \A j \in 1 .. n + 1 : Cardinality(Rank(j)) = (m + 1) - 1 <=> j = n + 1
    BY <1>1, <1>7, <1>15
  <2>2. m + 1 \in 1 .. n + 1 /\ n + 1 \in 1 .. n + 1
    BY <1>1, <1>7
  <2> QED
    BY <1>2, <1>14, <2>1, <2>2
<1>18. \A k \in m + 2 .. n + 1 : sorted[k] = es[k - 1]
  <2> TAKE k \in m + 2 .. n + 1
  <2>1. k \in 1 .. n + 1 /\ k - 1 \in 1 .. n /\ k - 1 \in 1 .. n + 1
    BY <1>1, <1>7
  <2>2. ASSUME NEW j \in 1 .. n + 1
        PROVE  Cardinality(Rank(j)) = k - 1 <=> j = k - 1
    <3>1. k \in Int /\ k >= m + 2 /\ k <= n + 1 /\ j \in Int
      BY <1>1, <1>7
    <3> QED
      BY <1>1, <1>7, <1>15, <3>1
  <2> QED
    BY <1>2, <1>14, <2>1, <2>2
<1>19. DOMAIN sorted = 1 .. n + 1
  BY <1>2, <1>3
<1>20. Inserts(sorted, es, ev, m)
  BY <1>1, <1>16, <1>17, <1>18, <1>19 DEF Inserts
<1> QED
  BY <1>1, <1>6, <1>20 DEF sorted, all

LEMMA NumberedInOrder ==
    ASSUME NEW es, InOrder(es), NEW ev, EventFields \subseteq DOMAIN ev, ev.pulses \in Nat, ev.delta = -1,
           NEW sorted, NEW m \in 0 .. Len(es) - 1, Inserts(sorted, es, ev, m),
           \A j \in 1 .. m : es[j].pulses < ev.pulses,
           \A j \in m + 1 .. Len(es) : es[j].pulses >= ev.pulses,
           NEW at, at = CHOOSE k \in DOMAIN sorted : sorted[k].delta = -1
    PROVE  /\ InOrder(Numbered(sorted, at))
           /\ OwnedBy(es, ev.track) => OwnedBy(Numbered(sorted, at), ev.track)
<1> DEFINE n == Len(es)
           r == Numbered(sorted, at)
           From(k) == IF k <= m THEN k ELSE k - 1
<1>1. n \in Nat /\ n = Len(es) /\ DOMAIN es = 1 .. n
  BY SequenceFacts DEF InOrder
<1> HIDE DEF n
<1>2. m \in Nat /\ m < n /\ m + 1 \in 1 .. n + 1 /\ m + 1 \in 1 .. n
  BY <1>1
<1>3. \A i \in 1 .. n : /\ EventFields \subseteq DOMAIN es[i]
                        /\ es[i].pulses \in Nat /\ es[i].delta \in Int /\ es[i].delta >= 0
                        /\ es[i].delta = es[i].pulses - (IF i = 1 THEN 0 ELSE es[i - 1].pulses)
  <2> TAKE i \in 1 .. n
  <2>1. /\ EventFields \subseteq DOMAIN es[i] /\ es[i].pulses \in Nat /\ es[i].delta >= 0
        /\ es[i].delta = es[i].pulses - Before(es, i)
    BY <1>1 DEF InOrder
  <2>2. Before(es, i) \in Nat
    <3>1. i # 1 => i - 1 \in 1 .. n
      BY <1>1
    <3> QED
      BY <1>1, <3>1 DEF Before, InOrder
  <2> QED
    BY <2>1, <2>2 DEF Before
<1>4. DOMAIN sorted = 1 .. n + 1 /\ sorted[m + 1] = ev
  BY <1>1 DEF Inserts
<1>5. ASSUME NEW k \in 1 .. n + 1, k # m + 1
      PROVE  sorted[k] = es[From(k)] /\ From(k) \in 1 .. n
  <2>1. CASE k <= m
    BY <1>1, <1>2, <2>1 DEF Inserts
  <2>2. CASE k > m
    <3>1. k \in m + 2 .. n + 1 /\ k - 1 \in 1 .. n
      BY <1>1, <1>2, <1>5, <2>2
    <3> QED
      BY <1>1, <1>2, <2>2, <3>1 DEF Inserts
  <2> QED
    BY <1>2, <2>1, <2>2
<1>6. at = m + 1
  <2>1. \A k \in 1 .. n + 1 : sorted[k].delta = -1 <=> k = m + 1
    BY <1>3, <1>4, <1>5
  <2> QED
    BY <1>2, <1>4, <2>1
<1> DEFINE gap == ev.pulses - IF m = 0 THEN 0 ELSE es[m].pulses
<1>7. Gap(sorted, at) = gap
  <2>1. m # 0 => m \in 1 .. n + 1 /\ m # m + 1 /\ From(m) = m
    BY <1>1, <1>2
  <2>2. m # 0 => sorted[m] = es[m]
    BY <1>5, <2>1
  <2>3. (m + 1) - 1 = m /\ (m + 1 = 1 <=> m = 0)
    BY <1>2
  <2> QED
    BY <1>4, <1>6, <2>2, <2>3 DEF Gap
<1>8. gap \in Int /\ gap >= 0
  <2>1. m # 0 => m \in 1 .. m /\ m \in 1 .. n
    BY <1>1, <1>2
  <2> QED
    BY <1>3, <2>1
<1> HIDE DEF gap, From
<1>9. ASSUME NEW k \in 1 .. n + 1
      PROVE  /\ EventFields \subseteq DOMAIN r[k]
             /\ r[k].number = k
             /\ r[k].pulses = sorted[k].pulses /\ r[k].track = sorted[k].track
             /\ r[k].delta = IF k = m + 1 THEN gap
                             ELSE IF k = m + 2 THEN sorted[k].delta - gap ELSE sorted[k].delta
  <2>1. EventFields \subseteq DOMAIN sorted[k]
    BY <1>3, <1>4, <1>5
  <2>2. r[k] = [sorted[k] EXCEPT !.number = k,
                   !.delta = IF k = m + 1 THEN gap
                             ELSE IF k = m + 2 THEN sorted[k].delta - gap ELSE sorted[k].delta]
    <3> DEFINE a == at
    <3>0. a = m + 1
      BY <1>6
    <3> HIDE DEF a
    <3>1. (k = at <=> k = m + 1) /\ (k = at + 1 <=> k = m + 2)
      <4>1. a + 1 = m + 2
        BY <1>2, <3>0
      <4> QED
        BY <1>6, <4>1 DEF a
    <3>2. r[k] = [sorted[k] EXCEPT !.number = k,
                     !.delta = IF k = at THEN Gap(sorted, at)
                               ELSE IF k = at + 1 THEN sorted[k].delta - Gap(sorted, at)
                               ELSE sorted[k].delta]
      BY <1>4, <2>1 DEF Numbered, EventFields
    <3> HIDE DEF r
    <3> QED
      BY <1>7, <3>1, <3>2
  <2> HIDE DEF r
  <2> QED
    BY <2>1, <2>2 DEF EventFields
<1>10. IsSequence(r) /\ DOMAIN r = 1 .. n + 1
  <2>1. r = [k \in 1 .. n + 1 |-> r[k]] /\ n + 1 \in Nat
    BY <1>1, <1>4 DEF Numbered
  <2> HIDE DEF r
  <2> QED
    BY <2>1, MadeSequence
<1> HIDE DEF r
<1>11. \A k \in 1 .. n + 1 :
          r[k].pulses = IF k = m + 1 THEN ev.pulses ELSE IF k <= m THEN es[k].pulses ELSE es[k - 1].pulses
  BY <1>2, <1>4, <1>5, <1>9 DEF From
<1>12. ASSUME NEW k \in 1 .. n + 1
       PROVE  /\ r[k].pulses \in Nat
              /\ r[k].delta = r[k].pulses - Before(r, k) /\ r[k].delta >= 0
  <2>1. k - 1 \in Int /\ (k # 1 => k - 1 \in 1 .. n + 1 /\ k - 1 \in 1 .. n)
    BY <1>1
  <2>2. CASE k <= m
    <3>1. /\ k \in 1 .. n /\ k # m + 1 /\ k # m + 2 /\ k - 1 # m + 1 /\ k - 1 <= m /\ From(k) = k
      BY <1>1, <1>2, <2>2 DEF From
    <3>2. r[k].pulses = es[k].pulses /\ r[k].delta = es[k].delta
      BY <1>5, <1>9, <1>11, <2>2, <3>1
    <3>3. k # 1 => r[k - 1].pulses = es[k - 1].pulses
      BY <1>11, <2>1, <3>1
    <3> QED
      BY <1>3, <3>1, <3>2, <3>3 DEF Before
  <2>3. CASE k = m + 1
    <3>1. k - 1 = m /\ (k = 1 <=> m = 0)
      BY <1>2, <2>3
    <3>2. m # 0 => r[k - 1].pulses = es[m].pulses
      BY <1>2, <1>11, <2>1, <3>1
    <3>3. r[k].pulses = ev.pulses /\ r[k].delta = gap
      BY <1>9, <1>11, <2>3
    <3> QED
      BY <1>8, <3>1, <3>2, <3>3 DEF Before, gap
  <2>4. CASE k = m + 2
    <3>1. /\ k - 1 = m + 1 /\ k # 1 /\ k # m + 1 /\ ~(k <= m) /\ From(k) = m + 1 /\ m + 1 \in 1 .. n
          /\ (m + 1 = 1 <=> m = 0) /\ (m + 1) - 1 = m /\ k - 1 \in 1 .. n + 1
      BY <1>2, <2>1, <2>4 DEF From
    <3>2. /\ r[k].pulses = es[m + 1].pulses /\ r[k].delta = es[m + 1].delta - gap
      BY <1>5, <1>9, <1>11, <2>4, <3>1
    <3>3. r[k - 1].pulses = ev.pulses
      BY <1>11, <3>1
    <3>4. /\ es[m + 1].pulses \in Nat /\ es[m + 1].pulses >= ev.pulses
          /\ es[m + 1].delta = es[m + 1].pulses - (IF m = 0 THEN 0 ELSE es[m].pulses)
      BY <1>1, <1>2, <1>3, <3>1
    <3>5. m # 0 => es[m].pulses \in Nat
      BY <1>1, <1>2, <1>3
    <3> QED
      BY <3>1, <3>2, <3>3, <3>4, <3>5 DEF Before, gap
  <2>5. CASE k > m + 2
    <3>1. /\ k # 1 /\ k # m + 1 /\ k # m + 2 /\ ~(k <= m) /\ k - 1 # m + 1 /\ ~(k - 1 <= m)
          /\ From(k) = k - 1 /\ k - 1 # 1 /\ k - 1 \in 1 .. n /\ k - 1 \in 1 .. n + 1
      BY <1>2, <2>1, <2>5 DEF From
    <3>2. r[k].pulses = es[k - 1].pulses /\ r[k].delta = es[k - 1].delta
      BY <1>5, <1>9, <1>11, <3>1
    <3>3. r[k - 1].pulses = es[(k - 1) - 1].pulses
      BY <1>11, <3>1
    <3> QED
      BY <1>3, <3>1, <3>2, <3>3 DEF Before
  <2> QED
    BY <1>2, <2>2, <2>3, <2>4, <2>5
<1>13. InOrder(r)
  BY <1>9, <1>10, <1>12 DEF InOrder
<1>14. OwnedBy(es, ev.track) => OwnedBy(r, ev.track)
  BY <1>1, <1>4, <1>5, <1>9, <1>10 DEF OwnedBy
<1> QED
  BY <1>13, <1>14 DEF r

LEMMA PlacedInOrder ==
    ASSUME NEW es, InOrder(es), NEW ev, EventFields \subseteq DOMAIN ev,
           ev.pulses \in Nat, ev.number = 0, ev.delta = -1
    PROVE  /\ InOrder(Place(es, ev))
           /\ OwnedBy(es, ev.track) => OwnedBy(Place(es, ev), ev.track)
<1> DEFINE n == Len(es)
           before == IF es = << >> THEN 0 ELSE Last(es).pulses
           sorted == g_ptr_array_sort(Append(es, ev))
           at == CHOOSE k \in DOMAIN sorted : sorted[k].delta = -1
           new == [ev EXCEPT !.delta = ev.pulses - before, !.number = n + 1]
           longer == Append(es, new)
<1>1. n \in Nat /\ n = Len(es) /\ DOMAIN es = 1 .. n /\ (es = << >> <=> n = 0)
  BY SequenceFacts DEF InOrder
<1>2. before = IF n = 0 THEN 0 ELSE es[n].pulses
  BY <1>1 DEF Last
<1>3. \A i \in 1 .. n : es[i].pulses \in Nat
  BY <1>1 DEF InOrder
<1>4. Place(es, ev) = IF before <= ev.pulses THEN longer ELSE Numbered(sorted, at)
  BY DEF Place
<1> HIDE DEF n
<1>5. CASE before <= ev.pulses
  <2>1. /\ EventFields \subseteq DOMAIN new /\ new.pulses = ev.pulses /\ new.number = n + 1
        /\ new.delta = ev.pulses - before /\ new.track = ev.track
    BY DEF EventFields
  <2> HIDE DEF new
  <2>2. IsSequence(longer) /\ DOMAIN longer = 1 .. n + 1 /\ (\A i \in 1 .. n : longer[i] = es[i])
        /\ longer[n + 1] = new
    BY <1>1, AppendedSequence, SequenceFacts DEF InOrder
  <2> HIDE DEF longer
  <2>3. ASSUME NEW i \in 1 .. n
        PROVE  Before(longer, i) = Before(es, i)
    BY <1>1, <2>2 DEF Before
  <2>4. Before(longer, n + 1) = before
    BY <1>1, <1>2, <2>2 DEF Before
  <2>5. before \in Nat
    BY <1>1, <1>2, <1>3
  <2>6. ASSUME NEW i \in 1 .. n + 1
        PROVE  /\ EventFields \subseteq DOMAIN longer[i]
               /\ longer[i].pulses \in Nat /\ longer[i].number = i
               /\ longer[i].delta = longer[i].pulses - Before(longer, i) /\ longer[i].delta >= 0
    <3>1. CASE i \in 1 .. n
      BY <1>1, <2>2, <2>3, <3>1 DEF InOrder
    <3>2. CASE i = n + 1
      <4> HIDE DEF before
      <4> QED
        BY <1>5, <2>1, <2>2, <2>4, <2>5, <3>2
    <3> QED
      BY <1>1, <3>1, <3>2
  <2>7. InOrder(longer)
    BY <2>2, <2>6 DEF InOrder
  <2>8. OwnedBy(es, ev.track) => OwnedBy(longer, ev.track)
    BY <1>1, <2>1, <2>2 DEF OwnedBy
  <2> QED
    BY <1>4, <1>5, <2>7, <2>8
<1>6. CASE ~(before <= ev.pulses)
  <2>1. n # 0 /\ n \in 1 .. n /\ es[n].pulses > ev.pulses
    BY <1>1, <1>2, <1>3, <1>6
  <2>2. PICK m \in 0 .. Len(es) - 1 :
              /\ Inserts(sorted, es, ev, m)
              /\ \A j \in 1 .. m : es[j].pulses < ev.pulses
              /\ \A j \in m + 1 .. Len(es) : es[j].pulses >= ev.pulses
    BY <1>1, <2>1, SortInserts
  <2> HIDE DEF sorted
  <2> QED
    BY <1>4, <1>6, <2>2, NumberedInOrder
<1> QED
  BY <1>5, <1>6

LEMMA smf_track_add_eventKeeps ==
    ASSUME NEW s, Songlike(s), NEW t \in DOMAIN s.tracks, NEW ev, EventFields \subseteq DOMAIN ev,
           ev.pulses \in Nat, ev.number = 0, ev.delta = -1
    PROVE  Keeps(smf_track_add_event(s, t, ev), s)
<1> DEFINE r == remove_eot_if_before_pulses(s, t, ev.pulses)
           tr == r.tracks[t]
           mine == [ev EXCEPT !.track = tr.number]
           es == Place(tr.events, mine)
           next == IF tr.events = << >> THEN 1 ELSE tr.next
           placed == [tr EXCEPT !.events = es, !.next = next]
           q == [r EXCEPT !.tracks[t] = placed]
<1>1. Alike(r, s) /\ Songlike(r) /\ t \in DOMAIN r.tracks /\ Keeps(r, s)
  BY remove_eotOutline, remove_eotKeeps, AlikeSonglike DEF Alike
<1>2. smf_track_add_event(s, t, ev)
         = IF ~smf_event_is_tempo_change_or_time_signature(ev) THEN q
           ELSE IF smf_event_is_last(q, ev) THEN maybe_add_to_tempo_map(q, ev)
           ELSE smf_create_tempo_map_and_compute_seconds(q)
  <2>1. [tr EXCEPT !.events = Place(@, [ev EXCEPT !.track = tr.number]),
                   !.next = IF tr.events = << >> THEN 1 ELSE @] = placed
    BY <1>1 DEF Songlike, Tracklike, TrackFields
  <2> QED
    BY <2>1 DEF smf_track_add_event
<1> HIDE DEF r
<1>3. /\ EventFields \subseteq DOMAIN mine /\ mine.pulses \in Nat /\ mine.number = 0
      /\ mine.delta = -1 /\ mine.track = tr.number
  <2> DEFINE n == tr.number
  <2> HIDE DEF n
  <2>1. LET m == [ev EXCEPT !.track = n]
        IN  /\ EventFields \subseteq DOMAIN m /\ m.pulses \in Nat /\ m.number = 0
            /\ m.delta = -1 /\ m.track = n
    BY DEF EventFields
  <2> QED
    BY <2>1 DEF n
<1> HIDE DEF mine
<1>4. Tracklike(tr) /\ IsSequence(tr.events) /\ IsSequence(es)
  BY <1>1, PlacedSequence DEF Songlike, Tracklike
<1>5. InOrder(tr.events) =>
         /\ InOrder(es)
         /\ OwnedBy(tr.events, tr.number) => OwnedBy(es, tr.number)
  BY <1>3, PlacedInOrder
<1> HIDE DEF es
<1>6. Tracklike(placed) /\ placed.number = tr.number /\ placed.events = es
  <2> HIDE DEF tr, next
  <2> QED
    BY <1>4 DEF Tracklike, TrackFields
<1> HIDE DEF placed
<1>7. Keeps(q, r) /\ Songlike(q)
  <2>1. Keeps(q, r)
    BY <1>1, <1>5, <1>6, TrackKeeps
  <2>2. Alike(q, r)
    BY <1>1, <1>6, OtherTrack
  <2> QED
    BY <2>1, <2>2, AlikeSonglike
<1> HIDE DEF q
<1>8. Same(smf_track_add_event(s, t, ev), q)
  BY <1>2, <1>7, TempoMapSame, smf_create_tempo_mapSame, SameReflexive
<1> QED
  BY <1>1, <1>7, <1>8, SameKeeps, KeepsTransitive

\* A function that puts an event at a pulse.
LEMMA AddedKeeps ==
    ASSUME NEW s, Songlike(s), NEW t \in DOMAIN s.tracks, NEW kind, NEW val, NEW tag
    PROVE  /\ \A p \in Nat : Keeps(smf_track_add_event_pulses(s, t, Event(kind, val, tag), p), s)
           /\ \A x : BeforeSeconds(s, x) = {} \/ pulses_from_seconds(s, x) \in Nat =>
                        Keeps(smf_track_add_event_seconds(s, t, Event(kind, val, tag), x), s)
<1> DEFINE ev == Event(kind, val, tag)
<1>1. EventFields \subseteq DOMAIN ev /\ ev.number = 0 /\ ev.delta = -1
  BY DEF Event, EventFields
<1> HIDE DEF ev
<1>2. ASSUME NEW p \in Nat, NEW x
      PROVE  Keeps(smf_track_add_event(s, t, [ev EXCEPT !.pulses = p, !.seconds = x]), s)
  <2> DEFINE at == [ev EXCEPT !.pulses = p, !.seconds = x]
  <2>1. EventFields \subseteq DOMAIN at /\ at.number = 0 /\ at.delta = -1 /\ at.pulses \in Nat
    BY <1>1 DEF EventFields
  <2> HIDE DEF at
  <2>2. Keeps(smf_track_add_event(s, t, at), s)
    BY <2>1, smf_track_add_eventKeeps
  <2> QED
    BY <2>2 DEF at
<1>3. \A why : Keeps(Abort(s, why), s)
  BY AbortSame, SameKeeps
<1>4. ASSUME NEW p \in Nat
      PROVE  Keeps(smf_track_add_event_pulses(s, t, ev, p), s)
  BY <1>2, <1>3 DEF smf_track_add_event_pulses
<1>5. ASSUME NEW x, BeforeSeconds(s, x) = {} \/ pulses_from_seconds(s, x) \in Nat
      PROVE  Keeps(smf_track_add_event_seconds(s, t, ev, x), s)
  <2>1. CASE BeforeSeconds(s, x) = {}
    BY <1>3, <2>1 DEF smf_track_add_event_seconds
  <2>2. CASE BeforeSeconds(s, x) # {}
    <3> DEFINE p == pulses_from_seconds(s, x)
    <3>1. [ev EXCEPT !.seconds = x, !.pulses = p] = [ev EXCEPT !.pulses = p, !.seconds = x]
      BY <1>1 DEF EventFields
    <3>2. smf_track_add_event_seconds(s, t, ev, x)
             = smf_track_add_event(s, t, [ev EXCEPT !.pulses = p, !.seconds = x])
      BY <2>2, <3>1 DEF smf_track_add_event_seconds
    <3> QED
      BY <1>2, <1>5, <2>2, <3>2
  <2> QED
    BY <2>1, <2>2
<1> QED
  BY <1>4, <1>5 DEF ev

LEMMA EotKeeps ==
    ASSUME NEW s, Songlike(s), NEW t \in DOMAIN s.tracks, NEW tag
    PROVE  /\ \A d : last_event_pulses(s.tracks[t]) + d \in Nat =>
                        Keeps(smf_track_add_eot_delta_pulses(s, t, tag, d), s)
           /\ \A p \in Nat : Keeps(smf_track_add_eot_pulses(s, t, tag, p), s)
           /\ \A x : BeforeSeconds(s, x) = {} \/ pulses_from_seconds(s, x) \in Nat =>
                        Keeps(smf_track_add_eot_seconds(s, t, tag, x), s)
<1>1. Keeps(s, s)
  BY DEF Keeps
<1>2. \A d : last_event_pulses(s.tracks[t]) + d \in Nat =>
                Keeps(smf_track_add_eot_delta_pulses(s, t, tag, d), s)
  BY AddedKeeps DEF smf_track_add_eot_delta_pulses, smf_track_add_event_delta_pulses
<1>3. \A p \in Nat : Keeps(smf_track_add_eot_pulses(s, t, tag, p), s)
  BY <1>1, AddedKeeps DEF smf_track_add_eot_pulses
<1>4. \A x : BeforeSeconds(s, x) = {} \/ pulses_from_seconds(s, x) \in Nat =>
                Keeps(smf_track_add_eot_seconds(s, t, tag, x), s)
  BY <1>1, AddedKeeps DEF smf_track_add_eot_seconds
<1> QED
  BY <1>2, <1>3, <1>4

\* A function that only writes the header.
LEMMA HeaderKeeps ==
    ASSUME NEW s, Songlike(s), NEW v
    PROVE  Keeps(smf_set_ppqn(s, v), s) /\ Keeps(smf_set_format(s, v), s)
<1>1. ASSUME NEW r, r \in {s, [s EXCEPT !.ppqn = v], [s EXCEPT !.format = v]}
      PROVE  Keeps(r, s)
  <2>1. Songlike(r) /\ r.tracks = s.tracks
    BY <1>1 DEF Songlike, SongFields
  <2> QED
    BY <2>1 DEF Keeps, Orderly, Owned
<1>2. \A why : Keeps(Abort(s, why), s)
  BY AbortSame, SameKeeps
<1> QED
  BY <1>1, <1>2 DEF smf_set_ppqn, smf_set_format

\* The tracks behind are numbered anew, and their events with them.
LEMMA RemoveTrackKeeps ==
    ASSUME NEW s, Fits(s), NEW t
    PROVE  Keeps(smf_track_remove_from_smf(s, t), s)
<1> DEFINE n == Len(s.tracks)
           r == smf_track_remove_from_smf(s, t)
<1>1. n \in Nat /\ DOMAIN s.tracks = 1 .. n
  BY SequenceFacts DEF Fits, Songlike
<1>2. r.tracks = [i \in 1 .. n - 1 |-> IF i < t THEN s.tracks[i] ELSE Renumber(s.tracks[i + 1], i)]
  BY DEF smf_track_remove_from_smf, Fits, Songlike, SongFields
<1>3. Songlike(r)
  BY RemoveTrackFits DEF Fits
<1>4. ASSUME NEW tr, Tracklike(tr), InOrder(tr.events), NEW i
      PROVE  /\ InOrder(Renumber(tr, i).events)
             /\ OwnedBy(Renumber(tr, i).events, Renumber(tr, i).number)
  <2> DEFINE es == [j \in DOMAIN tr.events |-> [tr.events[j] EXCEPT !.track = i]]
  <2>1. IsSequence(es)
    BY <1>4, SequenceFacts, MadeSequence DEF Tracklike
  <2>2. Renumber(tr, i).events = es /\ Renumber(tr, i).number = i
    BY <1>4 DEF Renumber, Tracklike, TrackFields
  <2>3. \A j \in DOMAIN tr.events :
           /\ EventFields \subseteq DOMAIN es[j] /\ es[j].pulses = tr.events[j].pulses
           /\ es[j].number = tr.events[j].number /\ es[j].delta = tr.events[j].delta
           /\ es[j].track = i
    BY <1>4 DEF InOrder, EventFields
  <2>4. DOMAIN es = DOMAIN tr.events /\ DOMAIN tr.events = 1 .. Len(tr.events)
        /\ Len(tr.events) \in Nat
    BY <1>4, SequenceFacts DEF InOrder
  <2> HIDE DEF es
  <2>5. \A j \in DOMAIN tr.events : Before(es, j) = Before(tr.events, j)
    BY <2>3, <2>4 DEF Before
  <2> QED
    BY <1>4, <2>1, <2>2, <2>3, <2>4, <2>5 DEF InOrder, OwnedBy
<1> SUFFICES ASSUME Orderly(s) PROVE Orderly(r) /\ (Owned(s) => Owned(r))
  BY DEF Keeps
<1> HIDE DEF n, r
<1>5. DOMAIN r.tracks = 1 .. n - 1
  BY <1>2
<1>6. ASSUME NEW i \in 1 .. n - 1
      PROVE  /\ InOrder(r.tracks[i].events)
             /\ Owned(s) => OwnedBy(r.tracks[i].events, r.tracks[i].number)
  <2>1. i \in 1 .. n /\ i + 1 \in 1 .. n
    BY <1>1
  <2>2. CASE i < t
    BY <1>1, <1>2, <2>1, <2>2 DEF Orderly, Owned
  <2>3. CASE ~(i < t)
    <3>1. Tracklike(s.tracks[i + 1]) /\ InOrder(s.tracks[i + 1].events)
      BY <1>1, <2>1 DEF Orderly, Songlike
    <3> QED
      BY <1>2, <1>4, <2>3, <3>1
  <2> QED
    BY <2>2, <2>3
<1> QED
  BY <1>3, <1>5, <1>6 DEF Orderly, Owned

LEMMA TrackDeleteKeeps ==
    ASSUME NEW s, Fits(s), NEW t \in DOMAIN s.tracks
    PROVE  Keeps(smf_track_delete(s, t), s)
<1> DEFINE n == Len(s.tracks[t].events)
           h == CHOOSE g : Losing(g, t, s, n)
           S == {k \in 0 .. n : Alike(h[k], s) /\ Keeps(h[k], s)}
<1>1. n \in Nat
  BY SequenceFacts DEF Fits, Songlike, Tracklike
<1>2. smf_track_delete(s, t) = smf_track_remove_from_smf(h[n], t)
  BY DEF smf_track_delete, Iterate, Losing
<1> HIDE DEF n
<1>3. h = [k \in 0 .. n |-> IF k = 0 THEN s ELSE LosesLast(h[k - 1], t)]
  <2>1. Losing(h, t, s, n)
    BY <1>1, LosingIterated
  <2> HIDE DEF h
  <2> QED
    BY <2>1 DEF Losing
<1>4. \A r : Songlike(r) /\ t \in DOMAIN r.tracks =>
                Alike(LosesLast(r, t), r) /\ Keeps(LosesLast(r, t), r)
  BY smf_event_removeOutline, smf_event_removeKeeps DEF LosesLast
<1> HIDE DEF h
<1>5. 0 \in S
  BY <1>1, <1>3, AlikeReflexive DEF Fits, Keeps
<1>6. ASSUME NEW k \in S, k < n
      PROVE  k + 1 \in S
  <2>1. k + 1 \in 0 .. n /\ h[k + 1] = LosesLast(h[k], t)
    BY <1>1, <1>3, <1>6
  <2>2. Songlike(h[k]) /\ t \in DOMAIN h[k].tracks
    BY DEF Alike
  <2> QED
    BY <1>4, <2>1, <2>2, AlikeTransitive, KeepsTransitive
<1>7. S = 0 .. n
  <2>1. S \in SUBSET (0 .. n)
    OBVIOUS
  <2> HIDE DEF S
  <2> QED
    BY <1>1, <1>5, <1>6, <2>1, Induction
<1>8. Alike(h[n], s) /\ Keeps(h[n], s)
  BY <1>1, <1>7
<1>9. Fits(h[n])
  BY <1>8, FitsKept
<1> QED
  BY <1>2, <1>8, <1>9, RemoveTrackKeeps, KeepsTransitive

\* A song is played until an event that is not skipped.
Skip(r, before) ==
    LET t == smf_find_track_with_next_event(r)
    IN  IF t # 0 /\ (Astray(r) \/ << t, r.tracks[t].next >> \in before)
          THEN smf_get_next_event(r) ELSE r

Skipping(g, before, first, n) ==
    g = [k \in 0 .. n |-> IF k = 0 THEN first ELSE Skip(g[k - 1], before)]

LEMMA SkipIterated ==
    ASSUME NEW before, NEW first, NEW n \in Nat
    PROVE  \E g : Skipping(g, before, first, n)
<1> DEFINE Built(m) == \E g : Skipping(g, before, first, m)
           S == {m \in 0 .. n : Built(m)}
<1>1. Built(0)
  <2> DEFINE g == [k \in 0 .. 0 |-> first]
  <2>1. Skipping(g, before, first, 0)
    BY DEF Skipping
  <2> HIDE DEF g
  <2> QED
    BY <2>1
<1>2. ASSUME NEW m \in 0 .. n, Built(m)
      PROVE  Built(m + 1)
  <2>1. PICK g : Skipping(g, before, first, m)
    BY <1>2
  <2> DEFINE f == [k \in 0 .. m + 1 |-> IF k = m + 1 THEN Skip(g[m], before) ELSE g[k]]
  <2>2. Skipping(f, before, first, m + 1)
    BY <2>1 DEF Skipping
  <2> HIDE DEF f
  <2> QED
    BY <2>2
<1> HIDE DEF Built
<1>3. 0 \in S /\ \A m \in S : m < n => m + 1 \in S
  BY <1>1, <1>2
<1>4. S = 0 .. n
  <2>1. S \in SUBSET (0 .. n)
    OBVIOUS
  <2> HIDE DEF S
  <2> QED
    BY <1>3, <2>1, Induction
<1> QED
  BY <1>4 DEF Built

LEMMA SkipFromStartSame ==
    ASSUME NEW s, Songlike(s), NEW before
    PROVE  Same(SkipFromStart(s, before), s)
<1> DEFINE first == smf_rewind(s)
           n == Cardinality(EventsIn(s)) + 1
           h == CHOOSE g : Skipping(g, before, first, n)
           S == {k \in 0 .. n : Same(h[k], s)}
<1>1. n \in Nat
  BY FinitelyManyEvents
<1>2. Same(first, s)
  BY smf_rewindSame
<1>3. SkipFromStart(s, before) = h[n]
  BY DEF SkipFromStart, Iterate, Skipping, Skip
<1> HIDE DEF n, first
<1>4. h = [k \in 0 .. n |-> IF k = 0 THEN first ELSE Skip(h[k - 1], before)]
  <2>1. Skipping(h, before, first, n)
    BY <1>1, SkipIterated
  <2> HIDE DEF h
  <2> QED
    BY <2>1 DEF Skipping
<1> HIDE DEF h
<1>5. ASSUME NEW r, Songlike(r)
      PROVE  Same(Skip(r, before), r)
  BY <1>5, smf_get_next_eventSame, SameReflexive DEF Skip
<1>6. \A k \in S : k < n => k + 1 \in S
  BY <1>1, <1>4, <1>5, SameSonglike, SameTransitive
<1>7. 0 \in S
  BY <1>1, <1>2, <1>4
<1>8. S = 0 .. n
  <2> HIDE DEF S
  <2>1. S \in SUBSET (0 .. n)
    BY DEF S
  <2> QED
    BY <1>1, <1>6, <1>7, <2>1, Induction
<1> QED
  BY <1>1, <1>3, <1>8

LEMMA SeekSame ==
    ASSUME NEW s, Songlike(s)
    PROVE  /\ \A e : Same(smf_seek_to_event(s, e), s)
           /\ \A p : Same(smf_seek_to_pulses(s, p), s)
           /\ \A x : Same(smf_seek_to_seconds(s, x), s)
<1>1. ASSUME NEW before, NEW v
      PROVE  /\ Same(SkipFromStart(s, before), s)
             /\ Same([SkipFromStart(s, before) EXCEPT !.seek = v], s)
  BY SkipFromStartSame, OtherFields, SameSonglike, SameTransitive
<1>2. \A e : Same(smf_seek_to_event(s, e), s)
  BY <1>1 DEF smf_seek_to_event
<1>3. \A p : Same(smf_seek_to_pulses(s, p), s)
  BY <1>1 DEF smf_seek_to_pulses
<1>4. \A x : Same(smf_seek_to_seconds(s, x), s)
  BY <1>1, SameReflexive DEF smf_seek_to_seconds
<1> QED
  BY <1>2, <1>3, <1>4

-----------------------------------------------------------------------------
(* What keeps the assertions of the library from failing: that the position *)
(* is on events there are, and that the tempo map has the entry for the     *)
(* start of the song.                                                       *)

\* What is true of a track at any time, and while its position is on an event
\* that it has, or behind the last one.
Ready(tr) ==
    /\ tr.next \in Int /\ tr.next # 0 /\ tr.next >= -1
    /\ tr.time \in Nat
    /\ tr.events = << >> => tr.next = -1
OnEvent(tr) ==
    tr.next # -1 => tr.next <= Len(tr.events) /\ tr.time = tr.events[tr.next].pulses

\* An event of a track has been played; and none that has been played in one
\* track is later than one that has not in another.
Past(tr, i) == tr.next = -1 \/ i < tr.next
Behind(tr, ur) ==
    \A i \in DOMAIN tr.events, j \in DOMAIN ur.events :
        Past(tr, i) /\ ~Past(ur, j) => tr.events[i].pulses <= ur.events[j].pulses

\* What is true of a song at any time; while its position is; and while its
\* tempo map has the entry for its start.
Steady(s) ==
    /\ Orderly(s)
    /\ IsSequence(s.tempos)
    /\ \A t \in DOMAIN s.tracks : Ready(s.tracks[t])
Placed(s) ==
    /\ \A t \in DOMAIN s.tracks : OnEvent(s.tracks[t])
    /\ \A t, u \in DOMAIN s.tracks : Behind(s.tracks[t], s.tracks[u])

TempoFields == {"pulses", "seconds", "usec", "sig"}
Begun(s) ==
    /\ Len(s.tempos) >= 1
    /\ TempoFields \subseteq DOMAIN s.tempos[1]
    /\ s.tempos[1].pulses = 0 /\ s.tempos[1].seconds = 0

LEMMA EmptySequence ==
    ASSUME NEW f, IsSequence(f)
    PROVE  f = << >> <=> Len(f) = 0
<1>1. Len(f) \in Nat /\ f = [i \in 1 .. Len(f) |-> f[i]]
  BY SequenceFacts
<1>2. ASSUME Len(f) = 0 PROVE f = << >>
  <2>1. f = [i \in 1 .. 0 |-> f[i]]
    BY <1>1, <1>2
  <2> QED
    BY <2>1
<1>3. Len(<< >>) = 0
  OBVIOUS
<1> QED
  BY <1>2, <1>3

\* Only the tempo map is another one, which starts where it did.
Retuned(r, s) ==
    /\ r.tracks = s.tracks /\ r.failed = s.failed
    /\ IsSequence(r.tempos)
    /\ Begun(s) => Begun(r)

LEMMA RetunedTransitive ==
    ASSUME NEW s, NEW r, NEW q, Retuned(r, s), Retuned(q, r)
    PROVE  Retuned(q, s)
BY DEF Retuned

LEMMA OtherTempos ==
    ASSUME NEW s, Songlike(s), NEW v
    PROVE  LET r == [s EXCEPT !.tempos = v]
           IN  r.tracks = s.tracks /\ r.failed = s.failed /\ r.tempos = v
BY DEF Songlike, SongFields

LEMMA new_tempoRetuned ==
    ASSUME NEW s, Songlike(s), IsSequence(s.tempos), NEW p
    PROVE  /\ Retuned(new_tempo(s, p), s)
           /\ Len(new_tempo(s, p).tempos) >= 1
           /\ s.tempos = << >> /\ p = 0 => Begun(new_tempo(s, p))
<1> DEFINE default == [pulses |-> p, seconds |-> 0, usec |-> InitialTempo, sig |-> 0]
           one == << default >>
           last == s.tempos[Len(s.tempos)]
           entry == [last EXCEPT !.pulses = p,
                        !.seconds = IF p = 0 THEN 0 ELSE seconds_from_pulses(s, p)]
           more == Append(s.tempos, entry)
           n == Len(s.tempos)
<1>1. n \in Nat /\ (s.tempos = << >> <=> n = 0)
  BY SequenceFacts, EmptySequence
<1>2. CASE s.tempos = << >>
  <2>1. new_tempo(s, p) = [s EXCEPT !.tempos = one]
    BY <1>2 DEF new_tempo
  <2>2. IsSequence(one) /\ Len(one) = 1 /\ one[1] = default
    <3>1. one = [i \in 1 .. 1 |-> one[i]]
      OBVIOUS
    <3> HIDE DEF default
    <3>2. one[1] = default
      OBVIOUS
    <3> HIDE DEF one
    <3> QED
      BY <3>1, <3>2, MadeSequence
  <2>3. ~Begun(s)
    BY <1>1, <1>2 DEF Begun
  <2>4. TempoFields \subseteq DOMAIN default /\ default.pulses = p /\ default.seconds = 0
    BY DEF TempoFields
  <2> HIDE DEF default, one
  <2> QED
    BY <2>1, <2>2, <2>3, <2>4, OtherTempos DEF Retuned, Begun
<1>3. CASE s.tempos # << >> /\ last.pulses = p
  BY <1>1, <1>3 DEF new_tempo, Retuned
<1>4. CASE s.tempos # << >> /\ last.pulses # p
  <2>1. new_tempo(s, p) = [s EXCEPT !.tempos = more]
    BY <1>4 DEF new_tempo
  <2>2. IsSequence(more) /\ Len(more) = n + 1 /\ n >= 1 /\ more[1] = s.tempos[1]
    <3> HIDE DEF entry
    <3> QED
      BY <1>1, <1>4, AppendedSequence
  <2> HIDE DEF more
  <2> QED
    BY <1>1, <1>4, <2>1, <2>2, OtherTempos DEF Retuned, Begun
<1> QED
  BY <1>2, <1>3, <1>4

LEMMA LastTempoRetuned ==
    ASSUME NEW s, Songlike(s), IsSequence(s.tempos), NEW ev
    PROVE  Retuned(LastTempo(s, ev), s)
<1> DEFINE n == Len(s.tempos)
<1>1. ASSUME NEW e
      PROVE  LET v == [s.tempos EXCEPT ![n] = e]
             IN  /\ IsSequence(v) /\ Len(v) = n
                 /\ n >= 1 => v[1] = IF n = 1 THEN e ELSE s.tempos[1]
  <2> DEFINE v == [s.tempos EXCEPT ![n] = e]
  <2>1. n \in Nat /\ DOMAIN s.tempos = 1 .. n
    BY SequenceFacts
  <2>2. v = [i \in 1 .. n |-> v[i]]
    BY <2>1
  <2>3. n >= 1 => v[1] = IF n = 1 THEN e ELSE s.tempos[1]
    BY <2>1
  <2> HIDE DEF v
  <2>4. IsSequence(v) /\ Len(v) = n
    BY <2>1, <2>2, MadeSequence
  <2> QED
    BY <2>3, <2>4 DEF v
<1>2. ASSUME NEW e, e = [s.tempos[n] EXCEPT !.usec = ev.val] \/ e = [s.tempos[n] EXCEPT !.sig = ev.val]
      PROVE  Retuned([s EXCEPT !.tempos = [s.tempos EXCEPT ![n] = e]], s)
  <2> DEFINE v == [s.tempos EXCEPT ![n] = e]
  <2>1. IsSequence(v) /\ Len(v) = n /\ (n >= 1 => v[1] = IF n = 1 THEN e ELSE s.tempos[1])
    BY <1>1
  <2>2. ASSUME Begun(s) PROVE /\ TempoFields \subseteq DOMAIN v[1]
                              /\ v[1].pulses = 0 /\ v[1].seconds = 0
    BY <1>2, <2>1, <2>2 DEF Begun, TempoFields
  <2> HIDE DEF v
  <2>3. Begun(s) => Begun([s EXCEPT !.tempos = v])
    BY <2>1, <2>2, OtherTempos DEF Begun
  <2> QED
    BY <2>1, <2>3, OtherTempos DEF Retuned, v
<1>3. s.tempos = s.tempos /\ {"tempos"} \subseteq DOMAIN s
  BY DEF Songlike, SongFields
<1>4. /\ [s EXCEPT !.tempos[Len(s.tempos)].usec = ev.val]
           = [s EXCEPT !.tempos = [s.tempos EXCEPT ![n] = [s.tempos[n] EXCEPT !.usec = ev.val]]]
      /\ [s EXCEPT !.tempos[Len(s.tempos)].sig = ev.val]
           = [s EXCEPT !.tempos = [s.tempos EXCEPT ![n] = [s.tempos[n] EXCEPT !.sig = ev.val]]]
  BY <1>3
<1> QED
  BY <1>2, <1>4 DEF LastTempo

LEMMA RetunedReflexive ==
    ASSUME NEW s, IsSequence(s.tempos)
    PROVE  Retuned(s, s)
BY DEF Retuned

LEMMA TempoMapRetuned ==
    ASSUME NEW s, Songlike(s), IsSequence(s.tempos)
    PROVE  /\ \A ev : Retuned(maybe_add_to_tempo_map(s, ev), s)
           /\ Retuned(smf_init_tempo(s), s) /\ Begun(smf_init_tempo(s))
           /\ \A p : LET r == remove_last_tempo_with_pulses(s, p)
                     IN  /\ r.tracks = s.tracks /\ r.failed = s.failed /\ IsSequence(r.tempos)
                         /\ Begun(s) /\ p # 0 => Begun(r)
<1>1. ASSUME NEW ev PROVE Retuned(maybe_add_to_tempo_map(s, ev), s)
  <2> DEFINE r == new_tempo(s, ev.pulses)
  <2>1. Retuned(r, s) /\ Songlike(r) /\ IsSequence(r.tempos)
    BY new_tempoRetuned, new_tempoSame, SameSonglike DEF Retuned
  <2>2. Retuned(LastTempo(r, ev), r)
    <3> HIDE DEF r
    <3> QED
      BY <2>1, LastTempoRetuned
  <2> QED
    BY <2>1, <2>2, RetunedTransitive, RetunedReflexive DEF maybe_add_to_tempo_map
<1>2. Retuned(smf_init_tempo(s), s) /\ Begun(smf_init_tempo(s))
  <2> DEFINE q == [s EXCEPT !.tempos = << >>]
  <2>1. q.tracks = s.tracks /\ q.failed = s.failed /\ q.tempos = << >> /\ IsSequence(q.tempos)
    BY OtherTempos, NewTrack_Empty
  <2>2. Songlike(q)
    BY OtherFields, SameSonglike
  <2> HIDE DEF q
  <2>3. Retuned(new_tempo(q, 0), q) /\ Begun(new_tempo(q, 0))
    BY <2>1, <2>2, new_tempoRetuned
  <2> QED
    BY <2>1, <2>3 DEF smf_init_tempo, q, Retuned
<1>3. ASSUME NEW p
      PROVE  LET r == remove_last_tempo_with_pulses(s, p)
             IN  /\ r.tracks = s.tracks /\ r.failed = s.failed /\ IsSequence(r.tempos)
                 /\ Begun(s) /\ p # 0 => Begun(r)
  <2> DEFINE n == Len(s.tempos)
             v == SubSeq(s.tempos, 1, n - 1)
  <2>1. CASE s.tempos = << >> \/ s.tempos[n].pulses # p
    BY <2>1 DEF remove_last_tempo_with_pulses
  <2>2. CASE s.tempos # << >> /\ s.tempos[n].pulses = p
    <3>1. n \in Nat /\ n >= 1 /\ DOMAIN s.tempos = 1 .. n
      BY <2>2, SequenceFacts, EmptySequence
    <3>2. IsSequence(v) /\ Len(v) = n - 1 /\ \A i \in 1 .. n - 1 : v[i] = s.tempos[i]
      <4>1. v = [i \in 1 .. n - 1 |-> s.tempos[i]]
        BY <3>1
      <4>2. v = [i \in 1 .. n - 1 |-> v[i]]
        BY <4>1
      <4> HIDE DEF v, n
      <4> QED
        BY <3>1, <4>1, <4>2, MadeSequence
    <3>3. remove_last_tempo_with_pulses(s, p) = [s EXCEPT !.tempos = v]
      BY <2>2 DEF remove_last_tempo_with_pulses, Front, Songlike, SongFields
    <3>4. ASSUME Begun(s), p # 0
          PROVE  n - 1 >= 1 /\ v[1] = s.tempos[1]
      <4>1. n # 1
        BY <2>2, <3>4 DEF Begun
      <4> HIDE DEF v, n
      <4>2. n - 1 >= 1 /\ 1 \in 1 .. n - 1
        BY <3>1, <4>1
      <4> QED
        BY <3>2, <4>2
    <3> HIDE DEF v
    <3> QED
      BY <3>1, <3>2, <3>3, <3>4, OtherTempos DEF Begun
  <2> QED
    BY <2>1, <2>2
<1> QED
  BY <1>1, <1>2, <1>3

-----------------------------------------------------------------------------
(* The position.                                                            *)

LEMMA LeastOf ==
    ASSUME NEW S \in SUBSET Nat, S # {}
    PROVE  Min(S) \in S /\ \A k \in S : Min(S) <= k
BY LeastNumber DEF Min

\* The track that is played next is one that waits, for the earliest time.
LEMMA NextTrack ==
    ASSUME NEW s, Steady(s)
    PROVE  LET t == smf_find_track_with_next_event(s)
           IN  \/ t = 0 /\ \A u \in DOMAIN s.tracks : s.tracks[u].next = -1
               \/ /\ t \in DOMAIN s.tracks /\ t >= 1 /\ s.tracks[t].next >= 1
                  /\ \A u \in DOMAIN s.tracks :
                        s.tracks[u].next # -1 => s.tracks[t].time <= s.tracks[u].time
<1> DEFINE waiting == {t \in DOMAIN s.tracks : s.tracks[t].next # -1}
           earliest == {t \in waiting : \A u \in waiting : s.tracks[t].time <= s.tracks[u].time}
           times == {s.tracks[t].time : t \in waiting}
<1>1. /\ \A t \in DOMAIN s.tracks : t \in Nat /\ t >= 1
      /\ \A t \in DOMAIN s.tracks : Ready(s.tracks[t])
  BY SequenceFacts DEF Steady, Orderly, Songlike
<1>2. smf_find_track_with_next_event(s) = IF waiting = {} THEN 0 ELSE Min(earliest)
  BY DEF smf_find_track_with_next_event
<1>3. ASSUME waiting # {} PROVE Min(earliest) \in earliest
  <2>1. times \in SUBSET Nat /\ times # {}
    BY <1>1, <1>3 DEF Ready
  <2>2. PICK x \in times : \A y \in times : x <= y
    BY <2>1, LeastNumber
  <2>3. earliest # {} /\ earliest \in SUBSET Nat /\ earliest \subseteq waiting
    BY <1>1, <2>2
  <2> HIDE DEF earliest
  <2> QED
    BY <2>3, LeastOf
<1>4. ASSUME NEW t \in earliest
      PROVE  /\ t \in DOMAIN s.tracks /\ t >= 1 /\ s.tracks[t].next >= 1
             /\ \A u \in DOMAIN s.tracks : s.tracks[u].next # -1 => s.tracks[t].time <= s.tracks[u].time
  BY <1>1 DEF Ready
<1> HIDE DEF earliest
<1> QED
  BY <1>2, <1>3, <1>4

LEMMA NeverAstray ==
    ASSUME NEW s, Steady(s), Placed(s)
    PROVE  smf_find_track_with_next_event(s) = 0 \/ ~Astray(s)
<1> DEFINE t == smf_find_track_with_next_event(s)
<1>1. t = 0 \/ t \in DOMAIN s.tracks
  BY NextTrack
<1>2. ASSUME t \in DOMAIN s.tracks
      PROVE  /\ s.tracks[t].next \in Int /\ Len(s.tracks[t].events) \in Nat
             /\ s.tracks[t].next <= Len(s.tracks[t].events)
  BY <1>2, SequenceFacts DEF Steady, Ready, Placed, OnEvent, Orderly, InOrder
<1>3. Astray(s) => s.tracks[t].next > Len(s.tracks[t].events)
  BY DEF Astray
<1>4. t = 0 \/ ~Astray(s)
  <2> HIDE DEF t
  <2> QED
    BY <1>1, <1>2, <1>3
<1> QED
  BY <1>4

LEMMA OneTrackOn ==
    ASSUME NEW tr, Tracklike(tr), InOrder(tr.events), Ready(tr), tr.next >= 1
    PROVE  /\ Ready(smf_track_get_next_event(tr))
           /\ OnEvent(smf_track_get_next_event(tr))
           /\ smf_track_get_next_event(tr).events = tr.events
           /\ tr.next <= Len(tr.events) => \A i \in DOMAIN tr.events :
                 Past(smf_track_get_next_event(tr), i) <=> Past(tr, i) \/ i = tr.next
<1> DEFINE n == Len(tr.events)
<1>1. n \in Nat /\ DOMAIN tr.events = 1 .. n /\ (tr.events = << >> <=> n = 0)
  BY SequenceFacts, EmptySequence DEF Tracklike
<1>2. {"events", "next", "time"} \subseteq DOMAIN tr /\ tr.next \in Nat /\ tr.next >= 1 /\ tr.time \in Nat
  BY DEF Tracklike, TrackFields, Ready
<1>3. CASE tr.next < n
  <2>1. tr.next + 1 \in DOMAIN tr.events
    BY <1>1, <1>2, <1>3
  <2>2. tr.events[tr.next + 1].pulses \in Nat
    BY <2>1 DEF InOrder
  <2>3. /\ smf_track_get_next_event(tr).next = tr.next + 1
        /\ smf_track_get_next_event(tr).time = tr.events[tr.next + 1].pulses
        /\ smf_track_get_next_event(tr).events = tr.events
    BY <1>2, <1>3 DEF smf_track_get_next_event
  <2>4. \A i \in DOMAIN tr.events :
           i < tr.next + 1 <=> i < tr.next \/ i = tr.next
    BY <1>1, <1>2
  <2>5. tr.next # -1 /\ tr.next + 1 # -1
    BY <1>2
  <2> QED
    BY <1>1, <1>2, <1>3, <2>2, <2>3, <2>4, <2>5 DEF Ready, OnEvent, Past
<1>4. CASE ~(tr.next < n)
  <2>1. /\ smf_track_get_next_event(tr).next = -1
        /\ smf_track_get_next_event(tr).time = tr.time
        /\ smf_track_get_next_event(tr).events = tr.events
    BY <1>2, <1>4 DEF smf_track_get_next_event
  <2>2. tr.next <= n => \A i \in DOMAIN tr.events : i < tr.next \/ i = tr.next
    BY <1>1, <1>2, <1>4
  <2> QED
    BY <1>1, <1>2, <2>1, <2>2 DEF Ready, OnEvent, Past
<1> QED
  BY <1>3, <1>4

\* What a function that leaves the events alone does to the rest.
LEMMA SameSteady ==
    ASSUME NEW s, Steady(s), NEW r, Same(r, s), IsSequence(r.tempos),
           \A t \in DOMAIN r.tracks : Ready(r.tracks[t])
    PROVE  Steady(r)
BY SameKeeps DEF Steady, Keeps

LEMMA RetunedSteady ==
    ASSUME NEW s, Steady(s), NEW r, Retuned(r, s), Same(r, s)
    PROVE  Steady(r) /\ (Placed(s) => Placed(r))
BY SameSteady DEF Steady, Retuned, Placed

LEMMA AbortPlain ==
    ASSUME NEW s, Songlike(s), NEW why
    PROVE  /\ Abort(s, why).tracks = s.tracks /\ Abort(s, why).tempos = s.tempos
           /\ Abort(s, why).failed = IF s.failed = "" THEN why ELSE s.failed
BY DEF Abort, Songlike, SongFields

LEMMA AbortSteady ==
    ASSUME NEW s, Steady(s), NEW why
    PROVE  Steady(Abort(s, why)) /\ (Begun(s) <=> Begun(Abort(s, why)))
<1>1. Songlike(s)
  BY DEF Steady, Orderly
<1> QED
  BY <1>1, AbortPlain, AbortSame, SameSteady DEF Steady, Begun

LEMMA smf_get_next_eventSteady ==
    ASSUME NEW s, Steady(s)
    PROVE  /\ Steady(smf_get_next_event(s))
           /\ Begun(s) <=> Begun(smf_get_next_event(s))
           /\ \/ smf_get_next_event(s).failed = s.failed
              \/ s.failed = "" /\ smf_get_next_event(s).failed = "event" /\ ~Placed(s)
           /\ Placed(s) => Placed(smf_get_next_event(s))
<1> DEFINE t == smf_find_track_with_next_event(s)
           tr == smf_track_get_next_event(s.tracks[t])
           tracks == [s.tracks EXCEPT ![t] = tr]
           q == [s EXCEPT !.tracks = tracks, !.seek = -1]
<1>1. Songlike(s) /\ Same(smf_get_next_event(s), s)
  BY smf_get_next_eventSame DEF Steady, Orderly
<1>2. CASE t = 0
  <2>1. smf_get_next_event(s) = s
    BY <1>2 DEF smf_get_next_event
  <2> QED
    BY <2>1
<1>3. CASE t # 0 /\ Astray(s)
  <2>1. smf_get_next_event(s) = Abort(s, "event")
    BY <1>3 DEF smf_get_next_event
  <2>2. ~Placed(s)
    BY <1>3, NeverAstray
  <2> QED
    BY <1>1, <2>1, <2>2, AbortPlain, AbortSteady
<1>4. CASE t # 0 /\ ~Astray(s)
  <2>1. t \in DOMAIN s.tracks /\ s.tracks[t].next >= 1
    BY <1>4, NextTrack
  <2>2. /\ Ready(tr) /\ OnEvent(tr) /\ tr.events = s.tracks[t].events
        /\ s.tracks[t].next <= Len(s.tracks[t].events) => \A i \in DOMAIN tr.events :
               Past(tr, i) <=> Past(s.tracks[t], i) \/ i = s.tracks[t].next
    <3> HIDE DEF t
    <3> QED
      BY <2>1, OneTrackOn DEF Steady, Orderly, Songlike
  <2>3. smf_get_next_event(s) = q
    BY <1>4 DEF smf_get_next_event, Songlike, SongFields
  <2>4. q.tracks = tracks /\ q.failed = s.failed /\ q.tempos = s.tempos
    BY <1>1 DEF Songlike, SongFields
  <2>5. /\ DOMAIN tracks = DOMAIN s.tracks
        /\ \A u \in DOMAIN s.tracks : tracks[u] = IF u = t THEN tr ELSE s.tracks[u]
    OBVIOUS
  <2>6. \A u \in DOMAIN s.tracks : s.tracks[u].next # -1 => s.tracks[t].time <= s.tracks[u].time
    BY <1>4, NextTrack
  <2> HIDE DEF q, tracks, tr, t
  <2>7. \A u \in DOMAIN q.tracks : Ready(q.tracks[u])
    BY <2>2, <2>4, <2>5 DEF Steady
  <2>8. Placed(s) => Placed(q)
    <3> SUFFICES ASSUME Placed(s) PROVE Placed(q)
      OBVIOUS
    <3>1. \A u \in DOMAIN q.tracks : OnEvent(q.tracks[u])
      BY <2>2, <2>4, <2>5 DEF Placed
    <3>2. s.tracks[t].next <= Len(s.tracks[t].events) /\ s.tracks[t].time = s.tracks[t].events[s.tracks[t].next].pulses
      BY <2>1 DEF Placed, OnEvent
    <3>3. ASSUME NEW u \in DOMAIN s.tracks, NEW w \in DOMAIN s.tracks
          PROVE  Behind(tracks[u], tracks[w])
      <4> SUFFICES ASSUME NEW i \in DOMAIN s.tracks[u].events, NEW j \in DOMAIN s.tracks[w].events,
                          Past(tracks[u], i), ~Past(tracks[w], j)
                   PROVE  s.tracks[u].events[i].pulses <= s.tracks[w].events[j].pulses
        BY <2>2, <2>5 DEF Behind
      <4>1. ~Past(s.tracks[w], j)
        BY <2>2, <2>5, <3>2
      <4>2. CASE Past(s.tracks[u], i)
        BY <4>1, <4>2 DEF Placed, Behind
      <4>3. CASE u = t /\ i = s.tracks[t].next
        <5>1. /\ s.tracks[w].next \in Nat /\ s.tracks[w].next >= 1 /\ j >= s.tracks[w].next
              /\ s.tracks[w].next \in DOMAIN s.tracks[w].events /\ InOrder(s.tracks[w].events)
          <6>1. InOrder(s.tracks[w].events) /\ Ready(s.tracks[w]) /\ OnEvent(s.tracks[w])
            BY DEF Steady, Orderly, Placed
          <6>2. /\ DOMAIN s.tracks[w].events = 1 .. Len(s.tracks[w].events)
                /\ Len(s.tracks[w].events) \in Nat
            BY <6>1, SequenceFacts DEF InOrder
          <6>3. s.tracks[w].next # -1 /\ ~(j < s.tracks[w].next)
            BY <4>1 DEF Past
          <6>4. s.tracks[w].next \in Nat /\ s.tracks[w].next >= 1 /\ s.tracks[w].next <= Len(s.tracks[w].events)
            BY <6>1, <6>3 DEF Ready, OnEvent
          <6> QED
            BY <6>1, <6>2, <6>3, <6>4
        <5>2. s.tracks[w].events[s.tracks[w].next].pulses <= s.tracks[w].events[j].pulses
          BY <5>1, NoneEarlier
        <5>3. s.tracks[t].time <= s.tracks[w].time
          BY <2>6, <5>1
        <5>4. s.tracks[w].time = s.tracks[w].events[s.tracks[w].next].pulses
          BY <5>1 DEF Placed, OnEvent
        <5>5. /\ s.tracks[t].time \in Nat /\ s.tracks[w].time \in Nat
              /\ s.tracks[w].events[j].pulses \in Nat
          BY <2>1, <5>1 DEF Steady, Ready, InOrder
        <5> QED
          BY <3>2, <4>3, <5>2, <5>3, <5>4, <5>5
      <4> QED
        BY <2>2, <2>5, <3>2, <4>2, <4>3
    <3> QED
      BY <2>4, <2>5, <3>1, <3>3 DEF Placed
  <2>9. Steady(q)
    BY <1>1, <2>3, <2>4, <2>7, SameSteady DEF Steady
  <2> QED
    BY <2>3, <2>4, <2>8, <2>9 DEF Begun
<1> QED
  BY <1>2, <1>3, <1>4

LEMMA FromStartReady ==
    ASSUME NEW tr, Tracklike(tr), InOrder(tr.events)
    PROVE  /\ Ready(FromStart(tr)) /\ OnEvent(FromStart(tr))
           /\ FromStart(tr).events = tr.events
           /\ \A i \in DOMAIN tr.events : ~Past(FromStart(tr), i)
<1> DEFINE n == Len(tr.events)
<1>1. n \in Nat /\ DOMAIN tr.events = 1 .. n /\ (tr.events = << >> <=> n = 0)
  BY SequenceFacts, EmptySequence DEF Tracklike
<1>2. {"events", "next", "time"} \subseteq DOMAIN tr
  BY DEF Tracklike, TrackFields
<1>3. n # 0 => tr.events[1].pulses \in Nat
  BY <1>1 DEF InOrder
<1>4. /\ FromStart(tr).events = tr.events
      /\ tr.events = << >> => FromStart(tr).next = -1 /\ FromStart(tr).time = 0
      /\ tr.events # << >> => FromStart(tr).next = 1 /\ FromStart(tr).time = tr.events[1].pulses
  BY <1>2 DEF FromStart
<1>5. ASSUME NEW i \in DOMAIN tr.events PROVE ~Past(FromStart(tr), i)
  <2>1. i \in 1 .. n /\ tr.events # << >>
    BY <1>1
  <2>2. FromStart(tr).next = 1
    BY <1>4, <2>1
  <2> QED
    BY <1>1, <2>1, <2>2 DEF Past
<1> QED
  BY <1>1, <1>3, <1>4, <1>5 DEF Ready, OnEvent

LEMMA smf_rewindSteady ==
    ASSUME NEW s, Steady(s)
    PROVE  /\ Steady(smf_rewind(s)) /\ Placed(smf_rewind(s))
           /\ smf_rewind(s).failed = s.failed /\ smf_rewind(s).tempos = s.tempos
<1>1. Songlike(s) /\ Same(smf_rewind(s), s)
  BY smf_rewindSame DEF Steady, Orderly
<1>2. /\ smf_rewind(s).tracks = [t \in DOMAIN s.tracks |-> FromStart(s.tracks[t])]
      /\ smf_rewind(s).failed = s.failed /\ smf_rewind(s).tempos = s.tempos
  BY <1>1 DEF smf_rewind, Songlike, SongFields
<1>3. \A t \in DOMAIN s.tracks :
         /\ Ready(FromStart(s.tracks[t])) /\ OnEvent(FromStart(s.tracks[t]))
         /\ FromStart(s.tracks[t]).events = s.tracks[t].events
         /\ \A i \in DOMAIN s.tracks[t].events : ~Past(FromStart(s.tracks[t]), i)
  BY FromStartReady DEF Steady, Orderly, Songlike
<1>4. Placed(smf_rewind(s)) /\ \A t \in DOMAIN smf_rewind(s).tracks : Ready(smf_rewind(s).tracks[t])
  BY <1>2, <1>3 DEF Placed, Behind
<1> QED
  BY <1>1, <1>2, <1>4, SameSteady DEF Steady

LEMMA SameLength ==
    ASSUME NEW f, IsSequence(f), NEW g, IsSequence(g), DOMAIN f = DOMAIN g
    PROVE  Len(f) = Len(g)
<1> DEFINE m == Len(f)
           n == Len(g)
<1>1. m \in Nat /\ n \in Nat /\ 1 .. m = 1 .. n
  BY SequenceFacts
<1> HIDE DEF m, n
<1>2. m = n
  <2>1. ASSUME m < n PROVE FALSE
    <3>1. n \in 1 .. n /\ n \notin 1 .. m
      BY <1>1, <2>1
    <3> QED
      BY <1>1, <3>1
  <2>2. ASSUME n < m PROVE FALSE
    <3>1. m \in 1 .. m /\ m \notin 1 .. n
      BY <1>1, <2>2
    <3> QED
      BY <1>1, <3>1
  <2> QED
    BY <1>1, <2>1, <2>2
<1> QED
  BY <1>2 DEF m, n

\* Playing the song from its start to set the times of its events.
LEMMA PlayTimedSteady ==
    ASSUME NEW s, Steady(s), Placed(s), Begun(s)
    PROVE  /\ Steady(PlayTimed(s)) /\ Placed(PlayTimed(s)) /\ Begun(PlayTimed(s))
           /\ PlayTimed(s).failed = s.failed
<1> DEFINE t == smf_find_track_with_next_event(s)
           i == s.tracks[t].next
           q == smf_get_next_event(s)
           r == maybe_add_to_tempo_map(q, smf_peek_next_event(s))
           v == seconds_from_pulses(r, r.tracks[t].events[i].pulses)
           u == [r EXCEPT !.tracks[t].events[i].seconds = v]
<1>1. PlayTimed(s) = IF t = 0 THEN s ELSE u
  BY DEF PlayTimed, Timed
<1>2. Steady(q) /\ Placed(q) /\ Begun(q) /\ q.failed = s.failed
  BY smf_get_next_eventSteady
<1>3. Steady(r) /\ Placed(r) /\ Begun(r) /\ r.failed = q.failed
  <2> HIDE DEF q
  <2>1. Songlike(q) /\ IsSequence(q.tempos)
    BY <1>2 DEF Steady, Orderly
  <2>2. Retuned(r, q) /\ Same(r, q)
    BY <2>1, TempoMapRetuned, TempoMapSame
  <2> HIDE DEF r
  <2> QED
    BY <1>2, <2>2, RetunedSteady DEF Retuned
<1> HIDE DEF q, r, t, i, v
<1>4. Steady(u) /\ Placed(u) /\ Begun(u) /\ u.failed = r.failed
  <2>1. Songlike(r)
    BY <1>3 DEF Steady, Orderly
  <2>2. Same(u, r)
    BY <2>1, OtherSeconds
  <2>3. /\ u.tempos = r.tempos /\ u.failed = r.failed
        /\ u.tracks = [r.tracks EXCEPT ![t].events[i].seconds = v]
    BY <2>1 DEF Songlike, SongFields
  <2>4. \A w \in DOMAIN r.tracks :
           /\ u.tracks[w].next = r.tracks[w].next /\ u.tracks[w].time = r.tracks[w].time
    BY <2>1, <2>3 DEF Songlike, Tracklike, TrackFields
  <2> HIDE DEF u
  <2>5. /\ DOMAIN u.tracks = DOMAIN r.tracks
        /\ \A w \in DOMAIN r.tracks : DOMAIN u.tracks[w].events = DOMAIN r.tracks[w].events
    BY <2>2 DEF Same, Alike, SameEvents
  <2>6. \A w \in DOMAIN r.tracks :
           /\ Len(u.tracks[w].events) = Len(r.tracks[w].events)
           /\ u.tracks[w].events = << >> <=> r.tracks[w].events = << >>
    <3> TAKE w \in DOMAIN r.tracks
    <3>1. IsSequence(u.tracks[w].events) /\ IsSequence(r.tracks[w].events)
      BY <2>1, <2>2, <2>5, SameSonglike DEF Songlike, Tracklike
    <3>2. Len(u.tracks[w].events) = Len(r.tracks[w].events)
      BY <2>5, <3>1, SameLength
    <3> QED
      BY <3>1, <3>2, EmptySequence
  <2>7. \A w \in DOMAIN r.tracks : \A j \in DOMAIN r.tracks[w].events :
           u.tracks[w].events[j].pulses = r.tracks[w].events[j].pulses
    <3> TAKE w \in DOMAIN r.tracks
    <3> TAKE j \in DOMAIN r.tracks[w].events
    <3>1. SameEvent(u.tracks[w].events[j], r.tracks[w].events[j])
      BY <2>2 DEF Same, SameEvents
    <3>2. "pulses" \in DOMAIN r.tracks[w].events[j]
      BY <1>3 DEF Steady, Orderly, InOrder, EventFields
    <3> QED
      BY <3>1, <3>2 DEF SameEvent
  <2>8. \A w \in DOMAIN u.tracks : Ready(u.tracks[w])
    BY <1>3, <2>4, <2>5, <2>6 DEF Steady, Ready
  <2>9. \A w \in DOMAIN u.tracks : OnEvent(u.tracks[w])
    <3> SUFFICES ASSUME NEW w \in DOMAIN r.tracks, r.tracks[w].next # -1
                 PROVE  /\ r.tracks[w].next <= Len(r.tracks[w].events)
                        /\ r.tracks[w].time = u.tracks[w].events[r.tracks[w].next].pulses
      BY <2>4, <2>5, <2>6 DEF OnEvent
    <3>1. /\ r.tracks[w].next <= Len(r.tracks[w].events)
          /\ r.tracks[w].time = r.tracks[w].events[r.tracks[w].next].pulses
      BY <1>3 DEF Placed, OnEvent
    <3>2. r.tracks[w].next \in DOMAIN r.tracks[w].events
      <4>1. Ready(r.tracks[w]) /\ InOrder(r.tracks[w].events)
        BY <1>3 DEF Steady, Orderly
      <4>2. r.tracks[w].next \in Nat /\ r.tracks[w].next >= 1
        BY <4>1 DEF Ready
      <4> QED
        BY <3>1, <4>1, <4>2, SequenceFacts DEF InOrder
    <3> QED
      BY <2>7, <3>1, <3>2
  <2>10. \A w, x \in DOMAIN u.tracks : Behind(u.tracks[w], u.tracks[x])
    BY <1>3, <2>4, <2>5, <2>7 DEF Placed, Behind, Past
  <2>11. Placed(u) /\ \A w \in DOMAIN u.tracks : Ready(u.tracks[w])
    BY <2>8, <2>9, <2>10 DEF Placed
  <2> QED
    BY <1>3, <2>2, <2>3, <2>11, SameSteady DEF Steady, Begun
<1> QED
  BY <1>1, <1>2, <1>3, <1>4

LEMMA smf_create_tempo_mapSteady ==
    ASSUME NEW s, Steady(s)
    PROVE  /\ Steady(smf_create_tempo_map_and_compute_seconds(s))
           /\ Placed(smf_create_tempo_map_and_compute_seconds(s))
           /\ Begun(smf_create_tempo_map_and_compute_seconds(s))
           /\ smf_create_tempo_map_and_compute_seconds(s).failed = s.failed
<1> DEFINE q == smf_rewind(s)
           first == smf_init_tempo(q)
           n == Cardinality(EventsIn(s))
           h == CHOOSE g : Timing(g, first, n)
           S == {k \in 0 .. n : /\ Steady(h[k]) /\ Placed(h[k]) /\ Begun(h[k])
                                /\ h[k].failed = s.failed}
<1>1. n \in Nat
  BY FinitelyManyEvents DEF Steady, Orderly
<1>2. Steady(first) /\ Placed(first) /\ Begun(first) /\ first.failed = s.failed
  <2>1. Steady(q) /\ Placed(q) /\ q.failed = s.failed
    BY smf_rewindSteady
  <2> HIDE DEF q
  <2>2. Songlike(q) /\ IsSequence(q.tempos)
    BY <2>1 DEF Steady, Orderly
  <2>3. Retuned(first, q) /\ Same(first, q) /\ Begun(first)
    BY <2>2, TempoMapRetuned, TempoMapSame
  <2> QED
    BY <2>1, <2>3, RetunedSteady DEF Retuned
<1>3. smf_create_tempo_map_and_compute_seconds(s) = h[n]
  BY DEF smf_create_tempo_map_and_compute_seconds, Iterate, Timing
<1> HIDE DEF n, first
<1>4. h = [k \in 0 .. n |-> IF k = 0 THEN first ELSE PlayTimed(h[k - 1])]
  <2>1. Timing(h, first, n)
    BY <1>1, PlayTimedIterated
  <2> HIDE DEF h
  <2> QED
    BY <2>1 DEF Timing
<1> HIDE DEF h
<1>5. \A k \in S : k < n => k + 1 \in S
  <2> TAKE k \in S
  <2> HAVE k < n
  <2>1. k + 1 \in 0 .. n /\ h[k + 1] = PlayTimed(h[k])
    BY <1>1, <1>4
  <2> QED
    BY <2>1, PlayTimedSteady
<1>6. 0 \in S
  BY <1>1, <1>2, <1>4
<1>7. S = 0 .. n
  <2> HIDE DEF S
  <2>1. S \in SUBSET (0 .. n)
    BY DEF S
  <2> QED
    BY <1>1, <1>5, <1>6, <2>1, Induction
<1>8. n \in S
  <2>1. n \in 0 .. n
    BY <1>1
  <2> HIDE DEF S
  <2> QED
    BY <1>7, <2>1
<1> QED
  BY <1>3, <1>8

\* Going through the song, from its start or by seeking.
LEMMA SkipFromStartSteady ==
    ASSUME NEW s, Steady(s), NEW before
    PROVE  /\ Steady(SkipFromStart(s, before)) /\ Placed(SkipFromStart(s, before))
           /\ SkipFromStart(s, before).failed = s.failed
           /\ Begun(s) => Begun(SkipFromStart(s, before))
<1> DEFINE first == smf_rewind(s)
           n == Cardinality(EventsIn(s)) + 1
           h == CHOOSE g : Skipping(g, before, first, n)
           Good(r) == /\ Steady(r) /\ Placed(r) /\ r.failed = s.failed
                      /\ Begun(s) => Begun(r)
           S == {k \in 0 .. n : Good(h[k])}
<1>1. n \in Nat
  BY FinitelyManyEvents DEF Steady, Orderly
<1>2. Good(first)
  BY smf_rewindSteady DEF Begun
<1>3. SkipFromStart(s, before) = h[n]
  BY DEF SkipFromStart, Iterate, Skipping, Skip
<1> HIDE DEF n, first
<1>4. h = [k \in 0 .. n |-> IF k = 0 THEN first ELSE Skip(h[k - 1], before)]
  <2>1. Skipping(h, before, first, n)
    BY <1>1, SkipIterated
  <2> HIDE DEF h
  <2> QED
    BY <2>1 DEF Skipping
<1> HIDE DEF h
<1>5. ASSUME NEW r, Good(r)
      PROVE  Good(Skip(r, before))
  BY <1>5, smf_get_next_eventSteady DEF Skip
<1> HIDE DEF Good
<1>6. \A k \in S : k < n => k + 1 \in S
  BY <1>1, <1>4, <1>5
<1>7. 0 \in S
  BY <1>1, <1>2, <1>4
<1>8. S = 0 .. n
  <2> HIDE DEF S
  <2>1. S \in SUBSET (0 .. n)
    BY DEF S
  <2> QED
    BY <1>1, <1>6, <1>7, <2>1, Induction
<1>9. Good(h[n])
  BY <1>1, <1>8
<1> QED
  BY <1>3, <1>9 DEF Good

LEMMA SeekPlain ==
    ASSUME NEW s, Steady(s), NEW v
    PROVE  /\ Steady([s EXCEPT !.seek = v])
           /\ Placed(s) => Placed([s EXCEPT !.seek = v])
           /\ [s EXCEPT !.seek = v].failed = s.failed
           /\ Begun(s) => Begun([s EXCEPT !.seek = v])
<1> DEFINE r == [s EXCEPT !.seek = v]
<1>1. Same(r, s) /\ r.tracks = s.tracks /\ r.tempos = s.tempos /\ r.failed = s.failed
  BY OtherFields DEF Steady, Orderly, Songlike, SongFields
<1> HIDE DEF r
<1>2. Steady(r)
  BY <1>1, SameSteady DEF Steady
<1> QED
  BY <1>1, <1>2 DEF Placed, Begun, r

LEMMA SeekSteady ==
    ASSUME NEW s, Steady(s), NEW r,
           \/ \E e : r = smf_seek_to_event(s, e)
           \/ \E p : r = smf_seek_to_pulses(s, p)
           \/ \E x : s.seek # x /\ r = smf_seek_to_seconds(s, x)
    PROVE  /\ Steady(r) /\ Placed(r) /\ r.failed = s.failed
           /\ Begun(s) => Begun(r)
<1>1. \E before, v : r \in {SkipFromStart(s, before), [SkipFromStart(s, before) EXCEPT !.seek = v]}
  BY DEF smf_seek_to_event, smf_seek_to_pulses, smf_seek_to_seconds
<1>2. PICK before, v : r = SkipFromStart(s, before) \/ r = [SkipFromStart(s, before) EXCEPT !.seek = v]
  BY <1>1
<1> DEFINE q == SkipFromStart(s, before)
<1>3. Steady(q) /\ Placed(q) /\ q.failed = s.failed /\ (Begun(s) => Begun(q))
  BY SkipFromStartSteady
<1> HIDE DEF q
<1>4. CASE r = q
  BY <1>3, <1>4
<1>5. CASE r = [q EXCEPT !.seek = v]
  BY <1>3, <1>5, SeekPlain
<1> QED
  BY <1>2, <1>4, <1>5 DEF q

-----------------------------------------------------------------------------
(* The events of a track.                                                   *)

\* The length of a song.
LEMMA GreatestOf ==
    ASSUME NEW L \in SUBSET Nat, 0 \in L, NEW b \in Nat, \A x \in L : x <= b
    PROVE  Max(L) \in L /\ \A x \in L : x <= Max(L)
<1> DEFINE U == {c \in Nat : \A x \in L : x <= c}
<1>1. U \in SUBSET Nat /\ U # {}
  OBVIOUS
<1>2. PICK m \in U : \A c \in U : m <= c
  BY <1>1, LeastNumber
<1>3. m \in L
  <2>1. SUFFICES ASSUME m \notin L PROVE FALSE
    OBVIOUS
  <2>2. m \in Nat /\ m # 0
    BY <2>1
  <2>3. m - 1 \in Nat /\ \A x \in L : x <= m - 1
    BY <2>1, <2>2
  <2> QED
    BY <1>2, <2>2, <2>3
<1>4. \A x \in L : m >= x
  OBVIOUS
<1> HIDE DEF U
<1> QED
  BY <1>3, <1>4 DEF Max

LEMMA BoundedTracks ==
    ASSUME NEW n \in Nat, NEW f, \A i \in 1 .. n : f[i] \in Nat
    PROVE  \E b \in Nat : \A i \in 1 .. n : f[i] <= b
<1> DEFINE S == {k \in 0 .. n : \E b \in Nat : \A i \in 1 .. k : f[i] <= b}
<1>1. 0 \in S
  OBVIOUS
<1>2. ASSUME NEW k \in S, k < n PROVE k + 1 \in S
  <2>1. PICK b \in Nat : \A i \in 1 .. k : f[i] <= b
    OBVIOUS
  <2>2. k + 1 \in 1 .. n /\ k + 1 \in 0 .. n /\ f[k + 1] \in Nat
    BY <1>2
  <2> DEFINE c == IF f[k + 1] <= b THEN b ELSE f[k + 1]
  <2>3. c \in Nat /\ \A i \in 1 .. k + 1 : f[i] <= c
    BY <2>1, <2>2
  <2> HIDE DEF c
  <2> QED
    BY <2>2, <2>3
<1>3. S = 0 .. n
  <2>1. S \in SUBSET (0 .. n)
    OBVIOUS
  <2> HIDE DEF S
  <2> QED
    BY <1>1, <1>2, <2>1, Induction
<1>4. n \in S
  <2>1. n \in 0 .. n
    OBVIOUS
  <2> HIDE DEF S
  <2> QED
    BY <1>3, <2>1
<1> QED
  BY <1>4

LEMMA LengthReached ==
    ASSUME NEW s, Orderly(s), NEW p \in Nat
    PROVE  /\ smf_get_length_pulses(s) \in Nat
           /\ smf_get_length_pulses(s) > p
                 <=> \E t \in DOMAIN s.tracks : last_event_pulses(s.tracks[t]) > p
<1> DEFINE n == Len(s.tracks)
           f == [t \in 1 .. n |-> last_event_pulses(s.tracks[t])]
           L == {0} \cup {last_event_pulses(s.tracks[t]) : t \in DOMAIN s.tracks}
<1>1. n \in Nat /\ DOMAIN s.tracks = 1 .. n
  BY SequenceFacts DEF Orderly, Songlike
<1>2. \A t \in DOMAIN s.tracks : last_event_pulses(s.tracks[t]) \in Nat
  <2> TAKE t \in DOMAIN s.tracks
  <2> DEFINE es == s.tracks[t].events
  <2>1. InOrder(es)
    BY DEF Orderly
  <2> HIDE DEF es
  <2>2. es # << >> => Len(es) \in DOMAIN es
    BY <2>1, SequenceFacts, EmptySequence DEF InOrder
  <2>3. (IF es = << >> THEN 0 ELSE es[Len(es)].pulses) \in Nat
    BY <2>1, <2>2 DEF InOrder
  <2> QED
    BY <2>3 DEF last_event_pulses, Last, es
<1>3. PICK b \in Nat : \A i \in 1 .. n : f[i] <= b
  <2>1. \A i \in 1 .. n : f[i] \in Nat
    BY <1>1, <1>2
  <2> HIDE DEF f, n
  <2> QED
    BY <1>1, <2>1, BoundedTracks
<1>4. L \in SUBSET Nat /\ 0 \in L /\ \A x \in L : x <= b
  <2>1. ASSUME NEW t \in DOMAIN s.tracks PROVE last_event_pulses(s.tracks[t]) <= b
    BY <1>1, <1>3
  <2> QED
    BY <1>2, <2>1
<1>5. smf_get_length_pulses(s) = Max(L)
  BY DEF smf_get_length_pulses
<1>6. Max(L) \in L /\ \A x \in L : x <= Max(L)
  <2> HIDE DEF L
  <2> QED
    BY <1>4, GreatestOf
<1>7. Max(L) \in Nat
  BY <1>4, <1>6
<1> DEFINE m == Max(L)
<1>8. m \in Nat /\ (m = 0 \/ \E t \in DOMAIN s.tracks : m = last_event_pulses(s.tracks[t]))
  BY <1>6, <1>7
<1>9. \A t \in DOMAIN s.tracks : last_event_pulses(s.tracks[t]) <= m
  BY <1>6
<1> HIDE DEF m, L
<1>10. m > p <=> \E t \in DOMAIN s.tracks : last_event_pulses(s.tracks[t]) > p
  BY <1>2, <1>8, <1>9
<1> QED
  BY <1>5, <1>8, <1>10 DEF m

LEMMA NumberedPlain ==
    ASSUME NEW n \in Nat, NEW sorted, DOMAIN sorted = 1 .. n, NEW at
    PROVE  /\ IsSequence(Numbered(sorted, at)) /\ Len(Numbered(sorted, at)) = n
           /\ \A k \in 1 .. n : EventFields \subseteq DOMAIN sorted[k]
                                   => Numbered(sorted, at)[k].pulses = sorted[k].pulses
<1> DEFINE g == Numbered(sorted, at)
<1>1. ASSUME NEW k \in 1 .. n, EventFields \subseteq DOMAIN sorted[k]
      PROVE  g[k].pulses = sorted[k].pulses
  <2> DEFINE e == sorted[k]
             d == IF k = at THEN Gap(sorted, at) ELSE IF k = at + 1 THEN e.delta - Gap(sorted, at) ELSE e.delta
  <2>1. g[k] = [e EXCEPT !.number = k, !.delta = d]
    BY <1>1 DEF Numbered, EventFields
  <2> HIDE DEF g, d
  <2> QED
    BY <1>1, <2>1 DEF EventFields
<1>2. g = [k \in 1 .. n |-> g[k]]
  BY DEF Numbered
<1> HIDE DEF g
<1>3. IsSequence(g) /\ Len(g) = n
  BY <1>2, MadeSequence
<1> QED
  BY <1>1, <1>3 DEF g

\* A new event makes a track longer; if it does not come last, the last one
\* stays where it is.
LEMMA PlacedLast ==
    ASSUME NEW es, InOrder(es), NEW ev, ev.pulses \in Nat, ev.number = 0
    PROVE  /\ Len(Place(es, ev)) = Len(es) + 1 /\ Place(es, ev) # << >>
           /\ es # << >> /\ Last(es).pulses > ev.pulses => Last(Place(es, ev)).pulses = Last(es).pulses
<1> DEFINE n == Len(es)
           sorted == g_ptr_array_sort(Append(es, ev))
           at == CHOOSE k \in DOMAIN sorted : sorted[k].delta = -1
           last == IF es = << >> THEN 0 ELSE Last(es).pulses
           new == [ev EXCEPT !.delta = ev.pulses - last, !.number = n + 1]
<1>1. n \in Nat /\ n = Len(es) /\ DOMAIN es = 1 .. n /\ (es = << >> <=> n = 0)
  BY SequenceFacts, EmptySequence DEF InOrder
<1>2. Place(es, ev) = IF last <= ev.pulses THEN Append(es, new) ELSE Numbered(sorted, at)
  BY DEF Place
<1>3. IsSequence(Place(es, ev))
  BY PlacedSequence DEF InOrder
<1>4. last = IF n = 0 THEN 0 ELSE es[n].pulses
  BY <1>1 DEF Last
<1>5. n # 0 => es[n].pulses \in Nat /\ EventFields \subseteq DOMAIN es[n]
  BY <1>1 DEF InOrder
<1>6. CASE last <= ev.pulses
  <2>1. Len(Place(es, ev)) = n + 1
    <3> HIDE DEF new, last
    <3> QED
      BY <1>1, <1>2, <1>6, AppendedSequence DEF InOrder
  <2>2. ~(es # << >> /\ Last(es).pulses > ev.pulses)
    BY <1>5, <1>1, <1>6 DEF Last
  <2> QED
    BY <1>1, <1>3, <2>1, <2>2, EmptySequence
<1>7. CASE ~(last <= ev.pulses)
  <2>1. n # 0 /\ n \in DOMAIN es /\ es[n].pulses > ev.pulses
    BY <1>1, <1>4, <1>5, <1>7
  <2>2. PICK m \in 0 .. Len(es) - 1 : Inserts(sorted, es, ev, m)
    <3> HIDE DEF sorted, last, n, at
    <3> QED
      BY <2>1, SortInserts DEF sorted
  <2> HIDE DEF at, sorted
  <2>3. Place(es, ev) = Numbered(sorted, at)
    BY <1>2, <1>7
  <2>4. DOMAIN sorted = 1 .. n + 1 /\ sorted[n + 1] = es[n]
    <3>1. n + 1 \in m + 2 .. n + 1 /\ (n + 1) - 1 = n
      BY <1>1, <2>1, <2>2
    <3> HIDE DEF n
    <3> QED
      BY <1>1, <2>2, <3>1 DEF Inserts
  <2>5. DOMAIN Place(es, ev) = 1 .. n + 1
    BY <2>3, <2>4 DEF Numbered
  <2>6. Len(Place(es, ev)) = n + 1
    <3> HIDE DEF n
    <3>1. n + 1 \in Nat
      BY <1>1
    <3> QED
      BY <2>3, <2>4, <3>1, NumberedPlain
  <2>7. Place(es, ev)[n + 1].pulses = es[n].pulses
    <3>1. n + 1 \in 1 .. n + 1
      BY <1>1
    <3>2. EventFields \subseteq DOMAIN sorted[n + 1]
      BY <1>5, <2>1, <2>4
    <3> HIDE DEF n
    <3>3. n + 1 \in Nat
      BY <1>1
    <3> QED
      BY <2>3, <2>4, <3>1, <3>2, <3>3, NumberedPlain
  <2> QED
    BY <1>1, <1>3, <2>6, <2>7, EmptySequence DEF Last
<1> QED
  BY <1>6, <1>7

\* One track is another one.
LEMMA TrackSteady ==
    ASSUME NEW s, Steady(s), NEW t \in DOMAIN s.tracks, NEW tr,
           Tracklike(tr), tr.number = s.tracks[t].number, InOrder(tr.events), Ready(tr)
    PROVE  /\ Steady([s EXCEPT !.tracks[t] = tr])
           /\ [s EXCEPT !.tracks[t] = tr].failed = s.failed
           /\ Begun(s) <=> Begun([s EXCEPT !.tracks[t] = tr])
<1> DEFINE r == [s EXCEPT !.tracks[t] = tr]
<1>1. Songlike(s) /\ Alike(r, s)
  BY OtherTrack DEF Steady, Orderly
<1>2. r.tracks = [s.tracks EXCEPT ![t] = tr] /\ r.failed = s.failed /\ r.tempos = s.tempos
  BY <1>1 DEF Songlike, SongFields
<1> HIDE DEF r
<1>3. \A i \in DOMAIN s.tracks : r.tracks[i] = IF i = t THEN tr ELSE s.tracks[i]
  BY <1>2
<1>4. Steady(r)
  BY <1>1, <1>2, <1>3 DEF Steady, Orderly, Alike
<1> QED
  BY <1>2, <1>4 DEF r, Begun

\* The song without an event, before the tempo map is brought up to date.
Without(s, t, i) ==
    [s EXCEPT !.tracks[t] =
        [s.tracks[t] EXCEPT !.events = Rest(@, i), !.next = IF Rest(s.tracks[t].events, i) = << >> THEN -1 ELSE @]]

LEMMA RemovedShape ==
    ASSUME NEW s, Songlike(s), NEW t \in DOMAIN s.tracks, NEW i
    PROVE  smf_event_remove_from_track(s, t, i)
             = IF ~smf_event_is_tempo_change_or_time_signature(s.tracks[t].events[i]) THEN Without(s, t, i)
               ELSE IF smf_event_is_last(s, s.tracks[t].events[i])
                 THEN remove_last_tempo_with_pulses(Without(s, t, i), s.tracks[t].events[i].pulses)
               ELSE smf_create_tempo_map_and_compute_seconds(Without(s, t, i))
<1> DEFINE rest == Rest(s.tracks[t].events, i)
           without == [s EXCEPT !.tracks[t].events = rest,
                                !.tracks[t].next = IF rest = << >> THEN -1 ELSE @]
<1>1. without = Without(s, t, i)
  BY DEF Songlike, SongFields, Tracklike, TrackFields, Without
<1>2. smf_event_remove_from_track(s, t, i)
         = IF ~smf_event_is_tempo_change_or_time_signature(s.tracks[t].events[i]) THEN without
           ELSE IF smf_event_is_last(s, s.tracks[t].events[i])
             THEN remove_last_tempo_with_pulses(without, s.tracks[t].events[i].pulses)
           ELSE smf_create_tempo_map_and_compute_seconds(without)
  BY DEF smf_event_remove_from_track, Rest
<1> HIDE DEF without
<1> QED
  BY <1>1, <1>2

\* The tempo changes of a track come after its start.
LateTempos(es) ==
    \A i \in DOMAIN es : smf_event_is_tempo_change_or_time_signature(es[i]) => es[i].pulses # 0

LEMMA LateKept ==
    ASSUME NEW es, InOrder(es), LateTempos(es)
    PROVE  /\ \A fs : SameEvents(fs, es) => LateTempos(fs)
           /\ \A i \in DOMAIN es : LateTempos(Rest(es, i))
<1>1. Len(es) \in Nat /\ DOMAIN es = 1 .. Len(es)
  BY SequenceFacts DEF InOrder
<1>2. \A i \in DOMAIN es : EventFields \subseteq DOMAIN es[i]
  BY DEF InOrder
<1>3. ASSUME NEW fs, SameEvents(fs, es)
      PROVE  LateTempos(fs)
  <2>1. \A i \in DOMAIN es : fs[i].kind = es[i].kind /\ fs[i].pulses = es[i].pulses
    BY <1>2, <1>3 DEF SameEvents, SameEvent, EventFields
  <2> QED
    BY <1>3, <2>1 DEF LateTempos, smf_event_is_tempo_change_or_time_signature, SameEvents
<1>4. ASSUME NEW i \in DOMAIN es
      PROVE  LateTempos(Rest(es, i))
  <2> DEFINE rest == Rest(es, i)
  <2>1. DOMAIN rest = 1 .. Len(es) - 1
    BY RestSequence DEF InOrder
  <2>2. ASSUME NEW j \in 1 .. Len(es) - 1
        PROVE  \E k \in DOMAIN es : rest[j].kind = es[k].kind /\ rest[j].pulses = es[k].pulses
    <3>1. j \in DOMAIN es /\ j + 1 \in DOMAIN es
      BY <1>1
    <3>2. CASE j < i
      BY <3>1, <3>2 DEF Rest
    <3>3. CASE ~(j < i)
      <4> DEFINE e == es[j + 1]
                 d == IF j + 1 = i + 1 THEN e.delta + es[i].delta ELSE e.delta
      <4>1. EventFields \subseteq DOMAIN e
        BY <1>2, <3>1
      <4>2. rest[j] = [e EXCEPT !.number = (j + 1) - 1, !.delta = d]
        BY <3>3, <4>1 DEF Rest, EventFields
      <4> HIDE DEF rest, d, e
      <4>3. rest[j].kind = e.kind /\ rest[j].pulses = e.pulses
        BY <4>1, <4>2 DEF EventFields
      <4> QED
        BY <3>1, <4>3 DEF e
    <3> QED
      BY <3>2, <3>3
  <2> HIDE DEF rest
  <2>3. LateTempos(rest)
    BY <2>1, <2>2 DEF LateTempos, smf_event_is_tempo_change_or_time_signature
  <2> QED
    BY <2>3 DEF rest
<1> QED
  BY <1>3, <1>4

LEMMA WithoutSteady ==
    ASSUME NEW s, Steady(s), NEW t \in DOMAIN s.tracks, NEW i \in DOMAIN s.tracks[t].events
    PROVE  /\ Steady(Without(s, t, i)) /\ Without(s, t, i).failed = s.failed
           /\ Begun(s) <=> Begun(Without(s, t, i))
           /\ DOMAIN Without(s, t, i).tracks = DOMAIN s.tracks
           /\ \A u \in DOMAIN s.tracks :
                 Without(s, t, i).tracks[u].events
                   = IF u = t THEN Rest(s.tracks[t].events, i) ELSE s.tracks[u].events
<1> DEFINE es == s.tracks[t].events
           rest == Rest(es, i)
           next == IF rest = << >> THEN -1 ELSE s.tracks[t].next
           tr == [s.tracks[t] EXCEPT !.events = rest, !.next = next]
           q == [s EXCEPT !.tracks[t] = tr]
<1>1. Tracklike(s.tracks[t]) /\ InOrder(es) /\ Ready(s.tracks[t])
  BY DEF Steady, Orderly, Songlike
<1>2. Without(s, t, i) = q
  BY <1>1 DEF Without, Steady, Orderly, Songlike, SongFields, Tracklike, TrackFields
<1>3. InOrder(rest) /\ IsSequence(rest)
  BY <1>1, RestInOrder DEF InOrder
<1>4. /\ Tracklike(tr) /\ tr.number = s.tracks[t].number /\ tr.events = rest /\ tr.next = next
      /\ tr.time = s.tracks[t].time
  <2> HIDE DEF rest, next
  <2> QED
    BY <1>1, <1>3 DEF Tracklike, TrackFields
<1>5. Ready(tr)
  <2>1. tr.events = << >> => tr.next = -1
    BY <1>4
  <2>2. tr.next = -1 \/ tr.next = s.tracks[t].next
    BY <1>4
  <2> HIDE DEF tr
  <2> QED
    BY <1>1, <1>4, <2>1, <2>2 DEF Ready
<1> HIDE DEF tr, rest
<1>6. Steady(q) /\ q.failed = s.failed /\ (Begun(s) <=> Begun(q))
  BY <1>3, <1>4, <1>5, TrackSteady
<1>7. q.tracks = [s.tracks EXCEPT ![t] = tr]
  BY DEF Steady, Orderly, Songlike, SongFields
<1>8. /\ DOMAIN q.tracks = DOMAIN s.tracks
      /\ \A u \in DOMAIN s.tracks : q.tracks[u].events = IF u = t THEN rest ELSE s.tracks[u].events
  BY <1>4, <1>7
<1> QED
  BY <1>2, <1>6, <1>8 DEF rest

\* An event is removed: nothing fails, and the tempo map keeps its entry for
\* the start unless the event made one there; in the middle of the song's
\* tempo changes the position is set anew and the map is made anew.
LEMMA smf_event_removeSteady ==
    ASSUME NEW s, Steady(s), NEW t \in DOMAIN s.tracks, NEW i \in DOMAIN s.tracks[t].events
    PROVE  LET r == smf_event_remove_from_track(s, t, i)
               ev == s.tracks[t].events[i]
           IN  /\ Steady(r) /\ r.failed = s.failed
               /\ Begun(s) /\ (smf_event_is_tempo_change_or_time_signature(ev) => ev.pulses # 0) => Begun(r)
               /\ smf_event_is_tempo_change_or_time_signature(ev) /\ ~smf_event_is_last(s, ev)
                     => Placed(r) /\ Begun(r)
               /\ Same(r, Without(s, t, i))
<1> DEFINE ev == s.tracks[t].events[i]
           q == Without(s, t, i)
           r == smf_event_remove_from_track(s, t, i)
           tempo == smf_event_is_tempo_change_or_time_signature(ev)
           last == smf_event_is_last(s, ev)
<1>1. Steady(q) /\ q.failed = s.failed /\ (Begun(s) <=> Begun(q))
  BY WithoutSteady
<1>2. r = IF ~tempo THEN q
          ELSE IF last THEN remove_last_tempo_with_pulses(q, ev.pulses)
          ELSE smf_create_tempo_map_and_compute_seconds(q)
  BY RemovedShape DEF Steady, Orderly
<1> HIDE DEF q, ev, r, tempo, last
<1>3. Songlike(q) /\ IsSequence(q.tempos)
  BY <1>1 DEF Steady, Orderly
<1>4. CASE ~tempo
  BY <1>1, <1>2, <1>3, <1>4, SameReflexive DEF q, ev, r, tempo, last
<1>5. CASE tempo /\ last
  <2>1. r = remove_last_tempo_with_pulses(q, ev.pulses)
    BY <1>2, <1>5
  <2>2. /\ r.tracks = q.tracks /\ r.failed = q.failed /\ IsSequence(r.tempos)
        /\ Begun(q) /\ ev.pulses # 0 => Begun(r)
    BY <1>3, <2>1, TempoMapRetuned
  <2>3. Same(r, q)
    BY <1>3, <2>1, TempoMapSame
  <2>4. Steady(r)
    BY <1>1, <2>2, <2>3, SameSteady DEF Steady
  <2> QED
    BY <1>1, <1>5, <2>2, <2>3, <2>4 DEF q, ev, r, tempo, last
<1>6. CASE tempo /\ ~last
  <2>1. r = smf_create_tempo_map_and_compute_seconds(q)
    BY <1>2, <1>6
  <2>2. Steady(r) /\ Placed(r) /\ Begun(r) /\ r.failed = q.failed
    BY <1>1, <2>1, smf_create_tempo_mapSteady
  <2>3. Same(r, q)
    BY <1>3, <2>1, smf_create_tempo_mapSame
  <2> QED
    BY <1>1, <1>6, <2>2, <2>3 DEF q, ev, r, tempo, last
<1> QED
  BY <1>4, <1>5, <1>6

LEMMA remove_eotSteady ==
    ASSUME NEW s, Steady(s), NEW t \in DOMAIN s.tracks, NEW p \in Nat
    PROVE  /\ Steady(remove_eot_if_before_pulses(s, t, p))
           /\ remove_eot_if_before_pulses(s, t, p).failed = s.failed
           /\ Begun(s) => Begun(remove_eot_if_before_pulses(s, t, p))
           /\ DOMAIN remove_eot_if_before_pulses(s, t, p).tracks = DOMAIN s.tracks
           /\ smf_get_length_pulses(s) > p
                 => smf_get_length_pulses(remove_eot_if_before_pulses(s, t, p)) > p
<1> DEFINE r == remove_eot_if_before_pulses(s, t, p)
           es == s.tracks[t].events
           n == Len(es)
<1>1. InOrder(es) /\ n \in Nat /\ DOMAIN es = 1 .. n /\ (es = << >> <=> n = 0)
  BY SequenceFacts, EmptySequence DEF Steady, Orderly, InOrder
<1>2. CASE ~(es # << >> /\ Last(es).kind = "eot" /\ Last(es).pulses <= p)
  <2>1. r = s
    BY <1>2 DEF remove_eot_if_before_pulses
  <2> QED
    BY <2>1
<1>3. CASE es # << >> /\ Last(es).kind = "eot" /\ Last(es).pulses <= p
  <2>1. n \in DOMAIN es /\ es[n].kind = "eot" /\ es[n].pulses <= p /\ es[n].pulses \in Nat
    BY <1>1, <1>3 DEF Last, InOrder
  <2>2. r = smf_event_remove_from_track(s, t, n)
    BY <1>3 DEF remove_eot_if_before_pulses
  <2>3. ~smf_event_is_tempo_change_or_time_signature(es[n])
    BY <2>1 DEF smf_event_is_tempo_change_or_time_signature
  <2>4. r = Without(s, t, n)
    BY <2>2, <2>3, RemovedShape DEF Steady, Orderly
  <2> HIDE DEF r
  <2>5. /\ Steady(r) /\ r.failed = s.failed /\ (Begun(s) <=> Begun(r))
        /\ DOMAIN r.tracks = DOMAIN s.tracks
        /\ \A u \in DOMAIN s.tracks : u # t => r.tracks[u].events = s.tracks[u].events
    BY <2>1, <2>4, WithoutSteady
  <2>6. ASSUME smf_get_length_pulses(s) > p PROVE smf_get_length_pulses(r) > p
    <3>1. PICK u \in DOMAIN s.tracks : last_event_pulses(s.tracks[u]) > p
      BY <2>6, LengthReached DEF Steady
    <3>2. u # t
      <4>1. last_event_pulses(s.tracks[t]) = es[n].pulses
        BY <1>3 DEF last_event_pulses, Last
      <4> QED
        BY <2>1, <3>1, <4>1
    <3>3. last_event_pulses(r.tracks[u]) = last_event_pulses(s.tracks[u])
      BY <2>5, <3>2 DEF last_event_pulses
    <3> QED
      BY <2>5, <3>1, <3>3, LengthReached DEF Steady
  <2> QED
    BY <2>5, <2>6 DEF r
<1> QED
  BY <1>2, <1>3

\* The song with one more event, before the tempo map is brought up to date.
With(s, t, ev) ==
    [s EXCEPT !.tracks[t] =
        [s.tracks[t] EXCEPT !.events = Place(@, [ev EXCEPT !.track = s.tracks[t].number]),
                            !.next = IF s.tracks[t].events = << >> THEN 1 ELSE @]]

LEMMA AddedShape ==
    ASSUME NEW s, NEW t, NEW ev, NEW r, r = remove_eot_if_before_pulses(s, t, ev.pulses),
           Songlike(r), t \in DOMAIN r.tracks
    PROVE  smf_track_add_event(s, t, ev)
             = IF ~smf_event_is_tempo_change_or_time_signature(ev) THEN With(r, t, ev)
               ELSE IF smf_event_is_last(With(r, t, ev), ev) THEN maybe_add_to_tempo_map(With(r, t, ev), ev)
               ELSE smf_create_tempo_map_and_compute_seconds(With(r, t, ev))
<1> DEFINE tr == r.tracks[t]
           placed == [tr EXCEPT !.events = Place(@, [ev EXCEPT !.track = tr.number]),
                                !.next = IF tr.events = << >> THEN 1 ELSE @]
<1>1. With(r, t, ev) = [r EXCEPT !.tracks[t] = placed]
  BY DEF With
<1> QED
  BY <1>1 DEF smf_track_add_event

LEMMA WithSteady ==
    ASSUME NEW s, Steady(s), NEW t \in DOMAIN s.tracks, NEW ev, EventFields \subseteq DOMAIN ev,
           ev.pulses \in Nat, ev.number = 0, ev.delta = -1
    PROVE  /\ Steady(With(s, t, ev)) /\ With(s, t, ev).failed = s.failed
           /\ Begun(s) <=> Begun(With(s, t, ev))
           /\ smf_get_length_pulses(s) > ev.pulses
                 => smf_get_length_pulses(With(s, t, ev)) > ev.pulses
<1> DEFINE tr == s.tracks[t]
           mine == [ev EXCEPT !.track = tr.number]
           es == Place(tr.events, mine)
           next == IF tr.events = << >> THEN 1 ELSE tr.next
           placed == [tr EXCEPT !.events = es, !.next = next]
           q == [s EXCEPT !.tracks[t] = placed]
<1>1. Tracklike(tr) /\ InOrder(tr.events) /\ Ready(tr)
  BY DEF Steady, Orderly, Songlike
<1>2. With(s, t, ev) = q
  BY <1>1 DEF With, Tracklike, TrackFields
<1>3. /\ EventFields \subseteq DOMAIN mine /\ mine.pulses = ev.pulses /\ mine.number = 0
      /\ mine.delta = -1 /\ mine.track = tr.number
  <2> DEFINE n == tr.number
  <2> HIDE DEF n
  <2>1. LET m == [ev EXCEPT !.track = n]
        IN  /\ EventFields \subseteq DOMAIN m /\ m.pulses = ev.pulses /\ m.number = 0
            /\ m.delta = -1 /\ m.track = n
    BY DEF EventFields
  <2> QED
    BY <2>1 DEF n
<1> HIDE DEF mine
<1>4. /\ InOrder(es) /\ IsSequence(es) /\ es # << >>
      /\ tr.events # << >> /\ Last(tr.events).pulses > ev.pulses
            => Last(es).pulses = Last(tr.events).pulses
  BY <1>1, <1>3, PlacedInOrder, PlacedLast DEF InOrder
<1> HIDE DEF es
<1>5. /\ Tracklike(placed) /\ placed.number = tr.number /\ placed.events = es /\ placed.next = next
      /\ placed.time = tr.time
  <2> HIDE DEF tr, next
  <2> QED
    BY <1>1, <1>4 DEF Tracklike, TrackFields
<1> HIDE DEF placed
<1>6. Ready(placed)
  BY <1>1, <1>4, <1>5 DEF Ready
<1>7. Steady(q) /\ q.failed = s.failed /\ (Begun(s) <=> Begun(q))
  BY <1>4, <1>5, <1>6, TrackSteady
<1>8. /\ DOMAIN q.tracks = DOMAIN s.tracks
      /\ \A u \in DOMAIN s.tracks : q.tracks[u] = IF u = t THEN placed ELSE s.tracks[u]
  BY DEF Steady, Orderly, Songlike, SongFields
<1>9. ASSUME smf_get_length_pulses(s) > ev.pulses PROVE smf_get_length_pulses(q) > ev.pulses
  <2>1. PICK u \in DOMAIN s.tracks : last_event_pulses(s.tracks[u]) > ev.pulses
    BY <1>9, LengthReached DEF Steady
  <2>2. last_event_pulses(q.tracks[u]) = last_event_pulses(s.tracks[u])
    <3>1. CASE u # t
      BY <1>8, <3>1
    <3>2. CASE u = t
      <4>1. tr.events # << >> /\ Last(tr.events).pulses > ev.pulses
        BY <2>1, <3>2 DEF last_event_pulses
      <4> HIDE DEF q
      <4> QED
        BY <1>4, <1>5, <1>8, <3>2, <4>1 DEF last_event_pulses
    <3> QED
      BY <3>1, <3>2
  <2> HIDE DEF q
  <2> QED
    BY <1>7, <1>8, <2>1, <2>2, LengthReached DEF Steady
<1> QED
  BY <1>2, <1>7, <1>9

\* An event is added: nothing fails, and the tempo map keeps its entry for the
\* start; a change of the tempo before the end of the song has the position
\* set anew and the map made anew.
LEMMA smf_track_add_eventSteady ==
    ASSUME NEW s, Steady(s), NEW t \in DOMAIN s.tracks, NEW ev, EventFields \subseteq DOMAIN ev,
           ev.pulses \in Nat, ev.number = 0, ev.delta = -1
    PROVE  /\ Steady(smf_track_add_event(s, t, ev))
           /\ smf_track_add_event(s, t, ev).failed = s.failed
           /\ Begun(s) => Begun(smf_track_add_event(s, t, ev))
           /\ smf_event_is_tempo_change_or_time_signature(ev) /\ smf_get_length_pulses(s) > ev.pulses
                 => Placed(smf_track_add_event(s, t, ev)) /\ Begun(smf_track_add_event(s, t, ev))
<1> DEFINE r == remove_eot_if_before_pulses(s, t, ev.pulses)
           q == With(r, t, ev)
           f == smf_track_add_event(s, t, ev)
           tempo == smf_event_is_tempo_change_or_time_signature(ev)
<1>1. /\ Steady(r) /\ r.failed = s.failed /\ (Begun(s) => Begun(r)) /\ t \in DOMAIN r.tracks
      /\ smf_get_length_pulses(s) > ev.pulses => smf_get_length_pulses(r) > ev.pulses
  BY remove_eotSteady
<1>2. f = IF ~tempo THEN q
          ELSE IF smf_event_is_last(q, ev) THEN maybe_add_to_tempo_map(q, ev)
          ELSE smf_create_tempo_map_and_compute_seconds(q)
  <2>1. Songlike(r)
    BY <1>1 DEF Steady, Orderly
  <2> QED
    BY <1>1, <2>1, AddedShape
<1> HIDE DEF r
<1>3. /\ Steady(q) /\ q.failed = r.failed /\ (Begun(r) <=> Begun(q))
      /\ smf_get_length_pulses(r) > ev.pulses => smf_get_length_pulses(q) > ev.pulses
  BY <1>1, WithSteady
<1>4. smf_get_length_pulses(q) \in Nat
  <2> HIDE DEF q
  <2> QED
    BY <1>3, LengthReached DEF Steady
<1> HIDE DEF q, f, tempo
<1>5. Songlike(q) /\ IsSequence(q.tempos)
  BY <1>3 DEF Steady, Orderly
<1>6. /\ Steady(f) /\ f.failed = q.failed /\ (Begun(q) => Begun(f))
      /\ tempo /\ ~smf_event_is_last(q, ev) => Placed(f) /\ Begun(f)
  <2>1. CASE ~tempo
    BY <1>2, <1>3, <2>1
  <2>2. CASE tempo /\ smf_event_is_last(q, ev)
    <3>1. f = maybe_add_to_tempo_map(q, ev)
      BY <1>2, <2>2
    <3>2. Retuned(f, q) /\ Same(f, q)
      BY <1>5, <3>1, TempoMapRetuned, TempoMapSame
    <3> QED
      BY <1>3, <2>2, <3>2, RetunedSteady DEF Retuned
  <2>3. CASE tempo /\ ~smf_event_is_last(q, ev)
    <3>1. f = smf_create_tempo_map_and_compute_seconds(q)
      BY <1>2, <2>3
    <3> QED
      BY <1>3, <3>1, smf_create_tempo_mapSteady
  <2> QED
    BY <2>1, <2>2, <2>3
<1>7. smf_get_length_pulses(s) > ev.pulses => ~smf_event_is_last(q, ev)
  BY <1>1, <1>3, <1>4 DEF smf_event_is_last
<1> QED
  BY <1>1, <1>3, <1>6, <1>7 DEF f, tempo

-----------------------------------------------------------------------------
(* What a function that edits the song promises: if an assertion fails, the *)
(* tempo map had lost its entry for the start; and it does not lose it now. *)

Edited(r, s) ==
    /\ Steady(r)
    /\ r.failed = s.failed \/ (r.failed = "tempo" /\ ~Begun(s))
    /\ Begun(s) => Begun(r)

LEMMA AbortEdited ==
    ASSUME NEW s, Steady(s), s.failed = "", ~Begun(s)
    PROVE  Edited(Abort(s, "tempo"), s) /\ Abort(s, "tempo").failed = "tempo"
BY AbortPlain, AbortSteady DEF Edited, Steady, Orderly

LEMMA TempoThere ==
    ASSUME NEW s, Steady(s), Begun(s)
    PROVE  \A x \in Nat : BeforePulses(s, x) # {} /\ BeforeSeconds(s, x) # {}
<1> TAKE x \in Nat
<1>1. 1 \in DOMAIN s.tempos
  BY SequenceFacts DEF Steady, Begun
<1>2. s.tempos[1].pulses = 0 /\ s.tempos[1].seconds = 0
  BY DEF Begun
<1>3. 1 \in BeforePulses(s, x) /\ 1 \in BeforeSeconds(s, x)
  BY <1>1, <1>2 DEF BeforePulses, BeforeSeconds
<1> QED
  BY <1>3

LEMMA AddedEdited ==
    ASSUME NEW s, Steady(s), s.failed = "", NEW t \in DOMAIN s.tracks, NEW kind, NEW val, NEW tag
    PROVE  /\ \A p \in Nat :
                 LET r == smf_track_add_event_pulses(s, t, Event(kind, val, tag), p)
                 IN  /\ Edited(r, s)
                     /\ kind \in {"tempo", "sig"} /\ p < smf_get_length_pulses(s) /\ r.failed = ""
                           => Placed(r) /\ Begun(r)
           /\ \A x \in Nat : BeforeSeconds(s, x) = {} \/ pulses_from_seconds(s, x) \in Nat =>
                 LET r == smf_track_add_event_seconds(s, t, Event(kind, val, tag), x)
                 IN  /\ Edited(r, s)
                     /\ kind \in {"tempo", "sig"} /\ pulses_from_seconds(s, x) < smf_get_length_pulses(s)
                        /\ r.failed = "" => Placed(r) /\ Begun(r)
<1> DEFINE ev == Event(kind, val, tag)
           tempo == kind \in {"tempo", "sig"}
<1>1. EventFields \subseteq DOMAIN ev /\ ev.number = 0 /\ ev.delta = -1 /\ ev.kind = kind
  BY DEF Event, EventFields
<1> HIDE DEF ev
<1>2. ASSUME NEW p \in Nat, NEW x
      PROVE  LET r == smf_track_add_event(s, t, [ev EXCEPT !.pulses = p, !.seconds = x])
             IN  /\ Edited(r, s)
                 /\ tempo /\ p < smf_get_length_pulses(s) => Placed(r) /\ Begun(r)
  <2> DEFINE at == [ev EXCEPT !.pulses = p, !.seconds = x]
  <2>1. /\ EventFields \subseteq DOMAIN at /\ at.number = 0 /\ at.delta = -1 /\ at.pulses = p
        /\ at.kind = kind
    BY <1>1 DEF EventFields
  <2>2. smf_get_length_pulses(s) \in Nat
    BY LengthReached DEF Steady
  <2> HIDE DEF at
  <2>3. tempo <=> smf_event_is_tempo_change_or_time_signature(at)
    BY <2>1 DEF smf_event_is_tempo_change_or_time_signature
  <2>4. p < smf_get_length_pulses(s) => smf_get_length_pulses(s) > at.pulses
    BY <2>1, <2>2
  <2> HIDE DEF tempo
  <2> QED
    BY <2>1, <2>3, <2>4, smf_track_add_eventSteady DEF Edited, at
<1> HIDE DEF tempo
<1>3. ASSUME NEW p \in Nat
      PROVE  LET r == smf_track_add_event_pulses(s, t, ev, p)
             IN  /\ Edited(r, s)
                 /\ tempo /\ p < smf_get_length_pulses(s) /\ r.failed = "" => Placed(r) /\ Begun(r)
  <2>1. CASE BeforePulses(s, p) = {}
    <3>1. smf_track_add_event_pulses(s, t, ev, p) = Abort(s, "tempo")
      BY <2>1 DEF smf_track_add_event_pulses
    <3>2. ~Begun(s)
      BY <2>1, TempoThere
    <3> QED
      BY <3>1, <3>2, AbortEdited
  <2>2. CASE BeforePulses(s, p) # {}
    <3>1. smf_track_add_event_pulses(s, t, ev, p)
             = smf_track_add_event(s, t, [ev EXCEPT !.pulses = p, !.seconds = seconds_from_pulses(s, p)])
      BY <2>2 DEF smf_track_add_event_pulses
    <3> QED
      BY <1>2, <3>1
  <2> QED
    BY <2>1, <2>2
<1>4. ASSUME NEW x \in Nat, BeforeSeconds(s, x) = {} \/ pulses_from_seconds(s, x) \in Nat
      PROVE  LET r == smf_track_add_event_seconds(s, t, ev, x)
             IN  /\ Edited(r, s)
                 /\ tempo /\ pulses_from_seconds(s, x) < smf_get_length_pulses(s)
                    /\ r.failed = "" => Placed(r) /\ Begun(r)
  <2>1. CASE BeforeSeconds(s, x) = {}
    <3>1. smf_track_add_event_seconds(s, t, ev, x) = Abort(s, "tempo")
      BY <2>1 DEF smf_track_add_event_seconds
    <3>2. ~Begun(s)
      BY <2>1, TempoThere
    <3> QED
      BY <3>1, <3>2, AbortEdited
  <2>2. CASE BeforeSeconds(s, x) # {}
    <3> DEFINE p == pulses_from_seconds(s, x)
    <3>1. [ev EXCEPT !.seconds = x, !.pulses = p] = [ev EXCEPT !.pulses = p, !.seconds = x]
      BY <1>1 DEF EventFields
    <3>2. smf_track_add_event_seconds(s, t, ev, x)
             = smf_track_add_event(s, t, [ev EXCEPT !.pulses = p, !.seconds = x])
      BY <2>2, <3>1 DEF smf_track_add_event_seconds
    <3>3. p \in Nat
      BY <1>4, <2>2
    <3> HIDE DEF p
    <3> QED
      BY <1>2, <3>2, <3>3 DEF p
  <2> QED
    BY <2>1, <2>2
<1>5. ASSUME NEW p \in Nat
      PROVE  LET r == smf_track_add_event_pulses(s, t, Event(kind, val, tag), p)
             IN  /\ Edited(r, s)
                 /\ kind \in {"tempo", "sig"} /\ p < smf_get_length_pulses(s) /\ r.failed = ""
                       => Placed(r) /\ Begun(r)
  BY <1>3 DEF ev, tempo
<1>6. ASSUME NEW x \in Nat, BeforeSeconds(s, x) = {} \/ pulses_from_seconds(s, x) \in Nat
      PROVE  LET r == smf_track_add_event_seconds(s, t, Event(kind, val, tag), x)
             IN  /\ Edited(r, s)
                 /\ kind \in {"tempo", "sig"} /\ pulses_from_seconds(s, x) < smf_get_length_pulses(s)
                    /\ r.failed = "" => Placed(r) /\ Begun(r)
  BY <1>4, <1>6 DEF ev, tempo
<1> QED
  BY <1>5, <1>6

LEMMA EotEdited ==
    ASSUME NEW s, Steady(s), s.failed = "", NEW t \in DOMAIN s.tracks, NEW tag
    PROVE  /\ \A d : last_event_pulses(s.tracks[t]) + d \in Nat =>
                        Edited(smf_track_add_eot_delta_pulses(s, t, tag, d), s)
           /\ \A p \in Nat : Edited(smf_track_add_eot_pulses(s, t, tag, p), s)
           /\ \A x \in Nat : BeforeSeconds(s, x) = {} \/ pulses_from_seconds(s, x) \in Nat =>
                        Edited(smf_track_add_eot_seconds(s, t, tag, x), s)
<1>1. Edited(s, s)
  BY DEF Edited
<1>2. /\ \A p \in Nat : Edited(smf_track_add_event_pulses(s, t, Event("eot", 0, tag), p), s)
      /\ \A x \in Nat : BeforeSeconds(s, x) = {} \/ pulses_from_seconds(s, x) \in Nat =>
            Edited(smf_track_add_event_seconds(s, t, Event("eot", 0, tag), x), s)
  BY AddedEdited
<1>3. \A d : last_event_pulses(s.tracks[t]) + d \in Nat =>
                Edited(smf_track_add_eot_delta_pulses(s, t, tag, d), s)
  BY <1>2 DEF smf_track_add_eot_delta_pulses, smf_track_add_event_delta_pulses
<1>4. \A p \in Nat : Edited(smf_track_add_eot_pulses(s, t, tag, p), s)
  BY <1>1, <1>2 DEF smf_track_add_eot_pulses
<1>5. \A x \in Nat : BeforeSeconds(s, x) = {} \/ pulses_from_seconds(s, x) \in Nat =>
                Edited(smf_track_add_eot_seconds(s, t, tag, x), s)
  BY <1>1, <1>2 DEF smf_track_add_eot_seconds
<1> QED
  BY <1>3, <1>4, <1>5

\* The tracks come and go.
LEMMA AddTrackSteady ==
    ASSUME NEW s, Fits(s), Steady(s), NEW tr, Tracklike(tr), Ready(tr),
           Orderly(smf_add_track(s, tr))
    PROVE  /\ Steady(smf_add_track(s, tr)) /\ smf_add_track(s, tr).failed = s.failed
           /\ Begun(s) <=> Begun(smf_add_track(s, tr))
           /\ Placed(s) /\ tr.events = << >> => Placed(smf_add_track(s, tr))
<1> DEFINE n == Len(s.tracks) + 1
           new == [tr EXCEPT !.number = n]
           r == smf_add_track(s, tr)
           q == [s EXCEPT !.tracks = Append(s.tracks, new)]
<1>1. n \in Nat /\ n >= 1 /\ n - 1 = Len(s.tracks) /\ DOMAIN s.tracks = 1 .. n - 1
  BY SequenceFacts DEF Fits, Songlike
<1>2. r.tracks = Append(s.tracks, new) /\ IsSequence(s.tracks)
  BY AddTrackFits DEF Fits, Songlike
<1>3. r.tempos = s.tempos /\ r.failed = s.failed
  <2>1. r = q \/ r = [q EXCEPT !.format = 1]
    BY DEF smf_add_track, smf_set_format
  <2>2. q.tempos = s.tempos /\ q.failed = s.failed /\ DOMAIN q = DOMAIN s
    BY DEF Fits, Songlike, SongFields
  <2> HIDE DEF q, r
  <2> QED
    BY <2>1, <2>2 DEF Fits, Songlike, SongFields
<1>4. /\ new.events = tr.events /\ new.next = tr.next /\ new.time = tr.time
  BY DEF Tracklike, TrackFields
<1> HIDE DEF new, n, r
<1>5. /\ DOMAIN r.tracks = 1 .. n /\ (\A i \in 1 .. n - 1 : r.tracks[i] = s.tracks[i])
      /\ r.tracks[n] = new
  <2>1. (n - 1) + 1 = n
    BY <1>1
  <2> QED
    BY <1>1, <1>2, <2>1, AppendedSequence, SequenceFacts
<1>6. \A i \in 1 .. n : i \in 1 .. n - 1 \/ i = n
  BY <1>1
<1>7. \A i \in DOMAIN r.tracks : Ready(r.tracks[i])
  <2>1. Ready(new)
    BY <1>4 DEF Ready
  <2> QED
    BY <1>1, <1>5, <1>6, <2>1 DEF Steady
<1>8. Placed(s) /\ tr.events = << >> => Placed(r)
  <2> SUFFICES ASSUME Placed(s), tr.events = << >> PROVE Placed(r)
    OBVIOUS
  <2>1. OnEvent(new) /\ DOMAIN new.events = {}
    BY <1>4 DEF OnEvent, Ready
  <2>2. \A i \in 1 .. n : /\ OnEvent(r.tracks[i])
                          /\ Behind(r.tracks[i], new) /\ Behind(new, r.tracks[i])
    BY <1>1, <1>5, <1>6, <2>1 DEF Placed, Behind
  <2>3. \A i, j \in 1 .. n - 1 : Behind(r.tracks[i], r.tracks[j])
    BY <1>1, <1>5 DEF Placed
  <2> QED
    BY <1>5, <1>6, <2>2, <2>3 DEF Placed
<1>9. Steady(r)
  BY <1>3, <1>7 DEF r, Steady
<1> QED
  BY <1>3, <1>8, <1>9 DEF r, Begun

LEMMA RemoveTrackSteady ==
    ASSUME NEW s, Fits(s), Steady(s), NEW t
    PROVE  /\ Steady(smf_track_remove_from_smf(s, t)) /\ smf_track_remove_from_smf(s, t).failed = s.failed
           /\ Begun(s) <=> Begun(smf_track_remove_from_smf(s, t))
           /\ Placed(s) => Placed(smf_track_remove_from_smf(s, t))
<1> DEFINE n == Len(s.tracks)
           r == smf_track_remove_from_smf(s, t)
<1>1. n \in Nat /\ DOMAIN s.tracks = 1 .. n
  BY SequenceFacts DEF Fits, Songlike
<1>2. /\ r.tracks = [i \in 1 .. n - 1 |-> IF i < t THEN s.tracks[i] ELSE Renumber(s.tracks[i + 1], i)]
      /\ r.tempos = s.tempos /\ r.failed = s.failed
  BY DEF smf_track_remove_from_smf, Fits, Songlike, SongFields
<1>3. Orderly(r)
  BY RemoveTrackKeeps DEF Keeps, Steady
<1> DEFINE Like(ur, tr) ==
             /\ ur.next = tr.next /\ ur.time = tr.time
             /\ DOMAIN ur.events = DOMAIN tr.events /\ Len(ur.events) = Len(tr.events)
             /\ \A j \in DOMAIN tr.events : ur.events[j].pulses = tr.events[j].pulses
<1>4. ASSUME NEW tr, Tracklike(tr), InOrder(tr.events), NEW i
      PROVE  /\ Ready(tr) => Ready(Renumber(tr, i))
             /\ Like(Renumber(tr, i), tr)
  <2> DEFINE es == [j \in DOMAIN tr.events |-> [tr.events[j] EXCEPT !.track = i]]
             m == Renumber(tr, i)
  <2>1. IsSequence(es) /\ DOMAIN es = DOMAIN tr.events
    BY <1>4, SequenceFacts, MadeSequence DEF Tracklike
  <2>2. m.events = es /\ m.next = tr.next /\ m.time = tr.time
    BY <1>4 DEF Renumber, Tracklike, TrackFields
  <2>3. \A j \in DOMAIN tr.events : es[j].pulses = tr.events[j].pulses
    BY <1>4 DEF InOrder, EventFields
  <2> HIDE DEF es, m
  <2>4. Len(es) = Len(tr.events) /\ (es = << >> <=> tr.events = << >>)
    BY <1>4, <2>1, SameLength, EmptySequence DEF Tracklike
  <2> QED
    BY <2>1, <2>2, <2>3, <2>4 DEF Ready, m
<1> HIDE DEF r, n
<1>5. DOMAIN r.tracks = 1 .. n - 1
  BY <1>2
<1>6. ASSUME NEW i \in 1 .. n - 1
      PROVE  Ready(r.tracks[i]) /\ \E j \in DOMAIN s.tracks : Like(r.tracks[i], s.tracks[j])
  <2>1. i \in 1 .. n /\ i + 1 \in 1 .. n
    BY <1>1
  <2>2. \A j \in 1 .. n : Tracklike(s.tracks[j]) /\ InOrder(s.tracks[j].events) /\ Ready(s.tracks[j])
    BY <1>1 DEF Steady, Orderly, Songlike
  <2>3. CASE i < t
    BY <1>1, <1>2, <2>1, <2>2, <2>3
  <2>4. CASE ~(i < t)
    <3>1. r.tracks[i] = Renumber(s.tracks[i + 1], i)
      BY <1>2, <2>4
    <3>2. Ready(r.tracks[i]) /\ Like(r.tracks[i], s.tracks[i + 1])
      BY <1>4, <2>1, <2>2, <3>1
    <3> HIDE DEF Like
    <3> QED
      BY <1>1, <2>1, <3>2
  <2> QED
    BY <2>3, <2>4
<1>7. Steady(r)
  BY <1>2, <1>3, <1>5, <1>6 DEF Steady
<1>8. ASSUME Placed(s) PROVE Placed(r)
  <2>1. ASSUME NEW i \in DOMAIN r.tracks PROVE OnEvent(r.tracks[i])
    <3>1. PICK j \in DOMAIN s.tracks : Like(r.tracks[i], s.tracks[j])
      BY <1>5, <1>6
    <3>2. OnEvent(s.tracks[j]) /\ Ready(s.tracks[j]) /\ InOrder(s.tracks[j].events)
      BY <1>8 DEF Placed, Steady, Orderly
    <3>3. s.tracks[j].next # -1 => s.tracks[j].next \in DOMAIN s.tracks[j].events
      <4>1. /\ DOMAIN s.tracks[j].events = 1 .. Len(s.tracks[j].events)
            /\ Len(s.tracks[j].events) \in Nat
        BY <3>2, SequenceFacts DEF InOrder
      <4>2. s.tracks[j].next # -1 => s.tracks[j].next \in Int /\ s.tracks[j].next >= 1
        BY <3>2 DEF Ready
      <4> QED
        BY <3>2, <4>1, <4>2 DEF OnEvent
    <3> QED
      BY <3>1, <3>2, <3>3 DEF OnEvent
  <2>2. ASSUME NEW i \in DOMAIN r.tracks, NEW k \in DOMAIN r.tracks
        PROVE  Behind(r.tracks[i], r.tracks[k])
    <3>1. PICK j \in DOMAIN s.tracks : Like(r.tracks[i], s.tracks[j])
      BY <1>5, <1>6
    <3>2. PICK l \in DOMAIN s.tracks : Like(r.tracks[k], s.tracks[l])
      BY <1>5, <1>6
    <3>3. Behind(s.tracks[j], s.tracks[l])
      BY <1>8 DEF Placed
    <3> QED
      BY <3>1, <3>2, <3>3 DEF Behind, Past
  <2> QED
    BY <2>1, <2>2 DEF Placed
<1> QED
  BY <1>2, <1>7, <1>8 DEF r, Begun

\* A track loses its last event.
LEMMA LosesLastSteady ==
    ASSUME NEW s, Steady(s), NEW t \in DOMAIN s.tracks, NEW m \in Nat, m >= 1,
           Len(s.tracks[t].events) = m
    PROVE  /\ Steady(LosesLast(s, t)) /\ LosesLast(s, t).failed = s.failed
           /\ Alike(LosesLast(s, t), s)
           /\ Len(LosesLast(s, t).tracks[t].events) = m - 1
           /\ LateTempos(s.tracks[t].events) =>
                 /\ LateTempos(LosesLast(s, t).tracks[t].events)
                 /\ Begun(s) => Begun(LosesLast(s, t))
<1> DEFINE es == s.tracks[t].events
           r == LosesLast(s, t)
           q == Without(s, t, m)
           rest == Rest(es, m)
<1>1. InOrder(es) /\ IsSequence(es) /\ m \in DOMAIN es /\ Songlike(s)
  BY SequenceFacts DEF Steady, Orderly, InOrder
<1>2. r = smf_event_remove_from_track(s, t, m)
  BY DEF LosesLast
<1>3. Same(r, q) /\ Alike(r, s) /\ Steady(r) /\ r.failed = s.failed
  BY <1>1, <1>2, smf_event_removeSteady, smf_event_removeOutline
<1>4. LateTempos(es) /\ Begun(s) => Begun(r)
  BY <1>1, <1>2, smf_event_removeSteady DEF LateTempos
<1>5. q.tracks[t].events = rest /\ DOMAIN q.tracks = DOMAIN s.tracks
  BY <1>1, WithoutSteady
<1> HIDE DEF r, q
<1>6. SameEvents(r.tracks[t].events, rest) /\ IsSequence(r.tracks[t].events)
  BY <1>3, <1>5 DEF Same, Alike, Songlike, Tracklike
<1>7. Len(r.tracks[t].events) = m - 1
  <2> DEFINE g == [j \in 1 .. m - 1 |-> j]
  <2>1. g = [j \in 1 .. m - 1 |-> g[j]] /\ m - 1 \in Nat
    OBVIOUS
  <2> HIDE DEF g
  <2>2. IsSequence(g) /\ Len(g) = m - 1 /\ DOMAIN g = 1 .. m - 1
    BY <2>1, MadeSequence
  <2>3. DOMAIN r.tracks[t].events = 1 .. m - 1
    BY <1>1, <1>6, RestSequence DEF SameEvents
  <2> QED
    BY <1>6, <2>2, <2>3, SameLength
<1>8. LateTempos(es) => LateTempos(r.tracks[t].events)
  <2>1. InOrder(rest)
    BY <1>1, RestInOrder
  <2> QED
    BY <1>1, <1>6, <2>1, LateKept
<1> QED
  BY <1>3, <1>4, <1>7, <1>8 DEF r

\* A track is deleted with all its events.
LEMMA TrackDeleteSteady ==
    ASSUME NEW s, Fits(s), Steady(s), NEW t \in DOMAIN s.tracks
    PROVE  /\ Steady(smf_track_delete(s, t)) /\ smf_track_delete(s, t).failed = s.failed
           /\ LateTempos(s.tracks[t].events) /\ Begun(s) => Begun(smf_track_delete(s, t))
<1> DEFINE n == Len(s.tracks[t].events)
           late == LateTempos(s.tracks[t].events)
           h == CHOOSE g : Losing(g, t, s, n)
           Good(r, m) == /\ Steady(r) /\ r.failed = s.failed /\ Alike(r, s)
                         /\ Len(r.tracks[t].events) = m
                         /\ late => LateTempos(r.tracks[t].events) /\ (Begun(s) => Begun(r))
           S == {k \in 0 .. n : Good(h[k], n - k)}
<1>1. n \in Nat /\ n = Len(s.tracks[t].events)
  BY SequenceFacts DEF Fits, Songlike, Tracklike
<1>2. smf_track_delete(s, t) = smf_track_remove_from_smf(h[n], t)
  BY DEF smf_track_delete, Iterate, Losing
<1> HIDE DEF n
<1>3. h = [k \in 0 .. n |-> IF k = 0 THEN s ELSE LosesLast(h[k - 1], t)]
  <2>1. Losing(h, t, s, n)
    BY <1>1, LosingIterated
  <2> HIDE DEF h
  <2> QED
    BY <2>1 DEF Losing
<1> HIDE DEF h
<1>4. ASSUME NEW r, NEW m \in Nat, m >= 1, Good(r, m)
      PROVE  Good(LosesLast(r, t), m - 1)
  <2>1. t \in DOMAIN r.tracks
    BY <1>4 DEF Alike
  <2> QED
    BY <1>4, <2>1, LosesLastSteady, AlikeTransitive
<1>5. Good(s, n)
  BY <1>1, AlikeReflexive DEF Fits
<1> HIDE DEF Good, late
<1>6. 0 \in S
  BY <1>1, <1>3, <1>5
<1>7. ASSUME NEW k \in S, k < n
      PROVE  k + 1 \in S
  <2>1. k + 1 \in 0 .. n /\ h[k + 1] = LosesLast(h[k], t)
    BY <1>1, <1>3, <1>7
  <2>2. n - k \in Nat /\ n - k >= 1 /\ (n - k) - 1 = n - (k + 1)
    BY <1>1, <1>7
  <2> QED
    BY <1>4, <2>1, <2>2
<1>8. S = 0 .. n
  <2> HIDE DEF S
  <2>1. S \in SUBSET (0 .. n)
    BY DEF S
  <2> QED
    BY <1>1, <1>6, <1>7, <2>1, Induction
<1>9. Good(h[n], 0)
  <2>1. n \in S /\ n - n = 0
    BY <1>1, <1>8
  <2> QED
    BY <2>1
<1>10. Fits(h[n])
  BY <1>9, FitsKept DEF Good
<1> QED
  BY <1>2, <1>9, <1>10, RemoveTrackSteady DEF Good, late

\* A song is deleted with all its tracks.
LEMMA DeleteSteady ==
    ASSUME NEW s, Fits(s), Steady(s)
    PROVE  smf_delete(s).failed = s.failed
<1> DEFINE n == Len(s.tracks)
           Step(r) == smf_track_delete(r, Len(r.tracks))
           h == CHOOSE g : Deleting(g, s, n)
           S == {k \in 0 .. n : /\ Fits(h[k]) /\ Len(h[k].tracks) = n - k
                                /\ Steady(h[k]) /\ h[k].failed = s.failed}
<1>1. n \in Nat
  BY SequenceFacts DEF Fits, Songlike
<1>2. smf_delete(s) = h[n]
  BY DEF smf_delete, Iterate, Deleting
<1>3. h = [k \in 0 .. n |-> IF k = 0 THEN s ELSE Step(h[k - 1])]
  <2>1. Deleting(h, s, n)
    BY <1>1, DeletingIterated
  <2> HIDE DEF h, n
  <2> QED
    BY <2>1 DEF Deleting
<1> HIDE DEF h
<1>4. 0 \in S
  <2>1. 0 \in 0 .. n /\ n - 0 = n
    BY <1>1
  <2> QED
    BY <1>3, <2>1
<1>5. ASSUME NEW k \in S, k < n
      PROVE  k + 1 \in S
  <2>1. k + 1 \in 0 .. n /\ h[k + 1] = smf_track_delete(h[k], n - k)
    BY <1>1, <1>3, <1>5
  <2>2. n - k \in DOMAIN h[k].tracks /\ (n - k) - 1 = n - (k + 1)
    BY <1>1, <1>5, SequenceFacts DEF Fits, Songlike
  <2> HIDE DEF n
  <2> QED
    BY <2>1, <2>2, TrackDeleteFits, TrackDeleteSteady
<1>6. S = 0 .. n
  <2> HIDE DEF S
  <2>1. S \in SUBSET (0 .. n)
    BY DEF S
  <2> QED
    BY <1>1, <1>4, <1>5, <2>1, Induction
<1>7. h[n].failed = s.failed
  <2>1. n \in 0 .. n
    BY <1>1
  <2> QED
    BY <1>6, <2>1
<1> QED
  BY <1>2, <1>7

LEMMA HeaderSteady ==
    ASSUME NEW s, Steady(s), NEW r,
           \/ \E f \in {0, 1} : r = smf_set_format(s, f)
           \/ \E n \in Nat \ {0} : r = smf_set_ppqn(s, n)
    PROVE  /\ Steady(r) /\ r.failed = s.failed
           /\ Begun(s) <=> Begun(r)
           /\ Placed(s) => Placed(r)
<1>1. Songlike(s) /\ IsSequence(s.tempos)
  BY DEF Steady, Orderly
<1>2. r = s \/ \E v : r \in {[s EXCEPT !.format = v], [s EXCEPT !.ppqn = v]}
  BY DEF smf_set_format, smf_set_ppqn
<1>3. /\ r.tracks = s.tracks /\ r.tempos = s.tempos /\ r.failed = s.failed
      /\ Orderly(r)
  BY <1>1, <1>2 DEF Steady, Orderly, Songlike, SongFields
<1> QED
  BY <1>1, <1>3 DEF Steady, Placed, Begun

LEMMA NewSteady ==
    ASSUME InitialPpqn \in Nat \ {0}
    PROVE  Steady(smf_new) /\ Placed(smf_new) /\ Begun(smf_new) /\ smf_new.failed = ""
<1> DEFINE blank == [tracks |-> << >>, tempos |-> << >>, format |-> 0, ppqn |-> InitialPpqn,
                     seek |-> 0, failed |-> ""]
           q == smf_set_format(smf_set_ppqn(blank, InitialPpqn), 0)
<1>1. smf_new = smf_init_tempo(q)
  BY DEF smf_new
<1>2. q.tracks = << >> /\ q.failed = "" /\ q.tempos = << >> /\ SongFields \subseteq DOMAIN q
  <2> DEFINE p == smf_set_ppqn(blank, InitialPpqn)
  <2>1. p = [blank EXCEPT !.ppqn = InitialPpqn]
    <3>1. ~(InitialPpqn <= 0)
      OBVIOUS
    <3> HIDE DEF blank
    <3> QED
      BY <3>1 DEF smf_set_ppqn
  <2>2. p.tracks = << >> /\ p.failed = "" /\ p.tempos = << >> /\ SongFields \subseteq DOMAIN p
    BY <2>1 DEF SongFields
  <2> HIDE DEF p
  <2>3. smf_set_format(p, 0) = p \/ smf_set_format(p, 0) = [p EXCEPT !.format = 0]
    BY DEF smf_set_format
  <2> QED
    BY <2>2, <2>3 DEF SongFields, p
<1> HIDE DEF q
<1>3. IsSequence(<< >>) /\ DOMAIN << >> = {}
  BY NewTrack_Empty
<1>4. Steady(q) /\ Placed(q)
  BY <1>2, <1>3 DEF Steady, Placed, Orderly, Songlike
<1>5. Songlike(q) /\ IsSequence(q.tempos)
  BY <1>4 DEF Steady, Orderly
<1>6. Retuned(smf_new, q) /\ Same(smf_new, q) /\ Begun(smf_new)
  BY <1>1, <1>5, TempoMapRetuned, TempoMapSame
<1> QED
  BY <1>2, <1>4, <1>6, RetunedSteady DEF Retuned

-----------------------------------------------------------------------------
(* Where a seek lands.                                                      *)

\* What is left of the song to play.
Left(s) == {e \in EventsIn(s) : ~Past(s.tracks[e[1]], e[2])}

LEMMA EventsAre ==
    ASSUME NEW s, Steady(s)
    PROVE  /\ \A e \in EventsIn(s) : /\ e[1] \in DOMAIN s.tracks /\ e[2] \in DOMAIN s.tracks[e[1]].events
                                     /\ e = << e[1], e[2] >> /\ EventAt(s, e).pulses \in Nat
           /\ \A t \in DOMAIN s.tracks : \A i \in DOMAIN s.tracks[t].events : << t, i >> \in EventsIn(s)
BY DEF EventsIn, EventAt, Steady, Orderly, InOrder

\* Playing one event takes that event from what is left.
LEMMA OneFewer ==
    ASSUME NEW s, Steady(s), Placed(s), smf_find_track_with_next_event(s) # 0
    PROVE  LET t == smf_find_track_with_next_event(s)
               e == << t, s.tracks[t].next >>
           IN  /\ e \in Left(s)
               /\ EventsIn(smf_get_next_event(s)) = EventsIn(s)
               /\ Left(smf_get_next_event(s)) = Left(s) \ {e}
               /\ \A f \in EventsIn(s) : EventAt(smf_get_next_event(s), f) = EventAt(s, f)
               /\ smf_get_next_event(s).tempos = s.tempos /\ smf_get_next_event(s).ppqn = s.ppqn
<1> DEFINE t == smf_find_track_with_next_event(s)
           n == s.tracks[t].next
           tr == smf_track_get_next_event(s.tracks[t])
           r == smf_get_next_event(s)
<1>1. t \in DOMAIN s.tracks /\ n >= 1
  BY NextTrack
<1>2. /\ Tracklike(s.tracks[t]) /\ InOrder(s.tracks[t].events) /\ Ready(s.tracks[t])
      /\ n # -1 => n <= Len(s.tracks[t].events)
  BY <1>1 DEF Steady, Orderly, Songlike, Placed, OnEvent
<1>3. n \in DOMAIN s.tracks[t].events /\ n \in Nat /\ n # -1
  BY <1>1, <1>2, SequenceFacts DEF Ready, Tracklike
<1>4. /\ tr.events = s.tracks[t].events
      /\ \A i \in DOMAIN tr.events : Past(tr, i) <=> Past(s.tracks[t], i) \/ i = n
  <2> HIDE DEF t
  <2> QED
    BY <1>1, <1>2, <1>3, OneTrackOn
<1>5. r.tracks = [s.tracks EXCEPT ![t] = tr] /\ r.tempos = s.tempos /\ r.ppqn = s.ppqn
  <2>1. ~Astray(s)
    BY NeverAstray
  <2> QED
    BY <2>1 DEF smf_get_next_event, Steady, Orderly, Songlike, SongFields
<1> HIDE DEF tr, r, n, t
<1>6. /\ DOMAIN r.tracks = DOMAIN s.tracks
      /\ \A u \in DOMAIN s.tracks : /\ r.tracks[u].events = s.tracks[u].events
                                    /\ u # t => r.tracks[u] = s.tracks[u]
      /\ r.tracks[t] = tr
  BY <1>1, <1>4, <1>5
<1>7. EventsIn(r) = EventsIn(s)
  BY <1>6 DEF EventsIn
<1>8. << t, n >> \in Left(s)
  <2>1. ~Past(s.tracks[t], n)
    BY <1>3 DEF Past, n
  <2> QED
    BY <1>1, <1>3, <2>1, EventsAre DEF Left
<1>9. ASSUME NEW e \in EventsIn(s)
      PROVE  Past(r.tracks[e[1]], e[2]) <=> Past(s.tracks[e[1]], e[2]) \/ e = << t, n >>
  <2>1. e[1] \in DOMAIN s.tracks /\ e[2] \in DOMAIN s.tracks[e[1]].events /\ e = << e[1], e[2] >>
    BY EventsAre
  <2>2. CASE e[1] = t
    BY <1>4, <1>6, <2>1, <2>2
  <2>3. CASE e[1] # t
    BY <1>6, <2>1, <2>3
  <2> QED
    BY <2>2, <2>3
<1>10. Left(r) = Left(s) \ {<< t, n >>}
  BY <1>7, <1>9 DEF Left
<1>11. \A f \in EventsIn(s) : EventAt(r, f) = EventAt(s, f)
  BY <1>6, EventsAre DEF EventAt
<1> QED
  BY <1>5, <1>7, <1>8, <1>10, <1>11 DEF r, n, t

\* Nothing that is left is earlier than the event that is next.
LEMMA NextIsFirst ==
    ASSUME NEW s, Steady(s), Placed(s), NEW e \in Left(s)
    PROVE  LET t == smf_find_track_with_next_event(s)
           IN  /\ t # 0 /\ << t, s.tracks[t].next >> \in Left(s)
               /\ EventAt(s, << t, s.tracks[t].next >>).pulses <= EventAt(s, e).pulses
<1> DEFINE t == smf_find_track_with_next_event(s)
           n == s.tracks[t].next
           u == e[1]
           m == s.tracks[u].next
<1>1. /\ u \in DOMAIN s.tracks /\ e[2] \in DOMAIN s.tracks[u].events
      /\ e = << u, e[2] >> /\ ~Past(s.tracks[u], e[2])
  BY EventsAre DEF Left
<1>2. /\ InOrder(s.tracks[u].events) /\ Ready(s.tracks[u]) /\ OnEvent(s.tracks[u])
  BY <1>1 DEF Steady, Orderly, Placed
<1>3. m \in DOMAIN s.tracks[u].events /\ m # -1 /\ m <= e[2]
  <2>1. m # -1 /\ ~(e[2] < m)
    BY <1>1 DEF Past
  <2>2. m \in DOMAIN s.tracks[u].events
    BY <1>2, <2>1 DEF OnEvent, Ready
  <2>3. DOMAIN s.tracks[u].events \subseteq Nat
    BY <1>2, SequenceFacts DEF InOrder
  <2> HIDE DEF m
  <2>4. e[2] \in Nat /\ m \in Nat
    BY <1>1, <2>2, <2>3
  <2> QED
    BY <2>1, <2>2, <2>4
<1>4. s.tracks[u].time = s.tracks[u].events[m].pulses /\ s.tracks[u].time \in Nat
  BY <1>2, <1>3 DEF OnEvent, Ready
<1>5. s.tracks[u].events[m].pulses <= s.tracks[u].events[e[2]].pulses
  BY <1>1, <1>2, <1>3, NoneEarlier
<1>6. t # 0 /\ << t, n >> \in Left(s)
  <2>1. t # 0
    BY <1>1, <1>3, NextTrack
  <2> QED
    BY <2>1, OneFewer
<1>7. t \in DOMAIN s.tracks /\ n >= 1 /\ s.tracks[t].time <= s.tracks[u].time
  BY <1>1, <1>3, <1>6, NextTrack
<1>8. n # -1
  BY <1>7
<1>9. s.tracks[t].time = s.tracks[t].events[n].pulses /\ s.tracks[t].time \in Nat
  BY <1>7, <1>8 DEF Placed, OnEvent, Steady, Ready
<1>10. s.tracks[u].events[e[2]].pulses \in Nat
  BY <1>1, <1>2 DEF InOrder
<1>11. s.tracks[t].events[n].pulses <= s.tracks[u].events[e[2]].pulses
  <2> HIDE DEF t, n, u, m
  <2> QED
    BY <1>4, <1>5, <1>7, <1>9, <1>10
<1> QED
  BY <1>6, <1>11 DEF EventAt

LEMMA SkipsOnly ==
    ASSUME NEW s, Steady(s), NEW before
    PROVE  LET r == SkipFromStart(s, before)
               t == smf_find_track_with_next_event(r)
           IN  /\ EventsIn(r) = EventsIn(s) /\ EventsIn(s) \ Left(r) \subseteq before
               /\ t = 0 \/ << t, r.tracks[t].next >> \notin before
<1> DEFINE all == EventsIn(s)
           first == smf_rewind(s)
           m == Cardinality(all)
           n == m + 1
           h == CHOOSE g : Skipping(g, before, first, n)
           Stands(r) == LET t == smf_find_track_with_next_event(r)
                        IN  t = 0 \/ << t, r.tracks[t].next >> \notin before
           Good(r) == /\ Steady(r) /\ Placed(r) /\ EventsIn(r) = all /\ all \ Left(r) \subseteq before
           S == {k \in 0 .. n : /\ Good(h[k])
                                /\ Stands(h[k]) \/ Cardinality(Left(h[k])) <= m - k}
<1>1. IsFiniteSet(all) /\ m \in Nat /\ n \in Nat /\ n = m + 1
  BY FinitelyManyEvents DEF Steady, Orderly
<1>2. Good(first) /\ Cardinality(Left(first)) <= m
  <2>1. Steady(first) /\ Placed(first)
    BY smf_rewindSteady
  <2>2. first.tracks = [t \in DOMAIN s.tracks |-> FromStart(s.tracks[t])]
    BY DEF smf_rewind, Steady, Orderly, Songlike, SongFields
  <2>3. \A t \in DOMAIN s.tracks :
           /\ first.tracks[t].events = s.tracks[t].events
           /\ \A i \in DOMAIN s.tracks[t].events : ~Past(first.tracks[t], i)
    BY <2>2, FromStartReady DEF Steady, Orderly, Songlike
  <2> HIDE DEF first
  <2>4. EventsIn(first) = all
    BY <2>2, <2>3 DEF EventsIn
  <2>5. Left(first) = all
    BY <2>3, <2>4, EventsAre DEF Left
  <2> QED
    BY <1>1, <2>1, <2>4, <2>5
<1>3. SkipFromStart(s, before) = h[n]
  BY DEF SkipFromStart, Iterate, Skipping, Skip
<1> HIDE DEF n, first, m
<1>4. h = [k \in 0 .. n |-> IF k = 0 THEN first ELSE Skip(h[k - 1], before)]
  <2>1. Skipping(h, before, first, n)
    BY <1>1, SkipIterated
  <2> HIDE DEF h
  <2> QED
    BY <2>1 DEF Skipping
<1> HIDE DEF h, all
<1>5. ASSUME NEW r, Good(r), ~Stands(r)
      PROVE  LET q == Skip(r, before)
             IN  /\ Good(q)
                 /\ \E e \in Left(r) : Left(q) = Left(r) \ {e}
  <2> DEFINE t == smf_find_track_with_next_event(r)
             e == << t, r.tracks[t].next >>
  <2>1. t # 0 /\ e \in before
    BY <1>5
  <2>2. Skip(r, before) = smf_get_next_event(r)
    BY <2>1 DEF Skip
  <2>3. e \in Left(r) /\ EventsIn(smf_get_next_event(r)) = all /\ Left(smf_get_next_event(r)) = Left(r) \ {e}
    BY <1>5, <2>1, OneFewer
  <2>4. Steady(smf_get_next_event(r)) /\ Placed(smf_get_next_event(r))
    BY <1>5, smf_get_next_eventSteady
  <2>5. all \ Left(r) \subseteq before
    BY <1>5
  <2> HIDE DEF e
  <2> QED
    BY <2>1, <2>2, <2>3, <2>4, <2>5
<1>6. ASSUME NEW r, Good(r), Stands(r)
      PROVE  Skip(r, before) = r
  BY <1>6, NeverAstray DEF Skip
<1>7. ASSUME NEW r, Good(r)
      PROVE  IsFiniteSet(Left(r))
  BY <1>1, <1>7, FS_Subset DEF Left
<1> HIDE DEF Good, Stands
<1>8. \A k \in S : k < n => k + 1 \in S
  <2> TAKE k \in S
  <2> HAVE k < n
  <2>1. k \in Nat /\ k + 1 \in 0 .. n /\ h[k + 1] = Skip(h[k], before) /\ Good(h[k])
    BY <1>1, <1>4
  <2>2. CASE Stands(h[k])
    BY <1>6, <2>1, <2>2
  <2>3. CASE ~Stands(h[k])
    <3>1. Good(h[k + 1]) /\ \E e \in Left(h[k]) : Left(h[k + 1]) = Left(h[k]) \ {e}
      BY <1>5, <2>1, <2>3
    <3>2. PICK e \in Left(h[k]) : Left(h[k + 1]) = Left(h[k]) \ {e}
      BY <3>1
    <3>3. IsFiniteSet(Left(h[k]))
      BY <1>7, <2>1
    <3>4. /\ Cardinality(Left(h[k]) \ {e}) = Cardinality(Left(h[k])) - 1
          /\ Cardinality(Left(h[k])) \in Nat
      BY <3>3, FS_RemoveElement, FS_CardinalityType
    <3>5. Cardinality(Left(h[k])) <= m - k
      BY <2>3
    <3> QED
      BY <1>1, <2>1, <3>1, <3>2, <3>4, <3>5
  <2> QED
    BY <2>2, <2>3
<1>9. 0 \in S
  BY <1>1, <1>2, <1>4
<1>10. S = 0 .. n
  <2> HIDE DEF S
  <2>1. S \in SUBSET (0 .. n)
    BY DEF S
  <2> QED
    BY <1>1, <1>8, <1>9, <2>1, Induction
<1>11. n \in S
  <2>1. n \in 0 .. n
    BY <1>1
  <2> HIDE DEF S
  <2> QED
    BY <1>10, <2>1
<1>12. Good(h[n]) /\ Stands(h[n])
  <2>1. Good(h[n]) /\ (Stands(h[n]) \/ Cardinality(Left(h[n])) <= m - n)
    BY <1>11
  <2>2. Cardinality(Left(h[n])) \in Nat
    BY <1>7, <2>1, FS_CardinalityType
  <2>3. m - n < 0
    BY <1>1
  <2> QED
    BY <1>1, <2>1, <2>2, <2>3
<1> QED
  BY <1>3, <1>12 DEF Good, Stands, all

\* What is left after a seek is what was not to be skipped, if that is all that
\* is later than some of it.
LEMMA SkipLands ==
    ASSUME NEW s, Steady(s), NEW before,
           \A d, e \in EventsIn(s) : d \notin before /\ EventAt(s, d).pulses <= EventAt(s, e).pulses
                                       => e \notin before
    PROVE  Left(SkipFromStart(s, before)) = EventsIn(s) \ before
<1> DEFINE r == SkipFromStart(s, before)
           t == smf_find_track_with_next_event(r)
           f == << t, r.tracks[t].next >>
<1>1. /\ EventsIn(r) = EventsIn(s) /\ EventsIn(s) \ Left(r) \subseteq before
      /\ t = 0 \/ f \notin before
  BY SkipsOnly
<1>2. Steady(r) /\ Placed(r) /\ Same(r, s)
  BY SkipFromStartSteady, SkipFromStartSame DEF Steady, Orderly
<1>3. ASSUME NEW e \in EventsIn(s)
      PROVE  EventAt(r, e).pulses = EventAt(s, e).pulses
  <2>1. e[1] \in DOMAIN s.tracks /\ e[2] \in DOMAIN s.tracks[e[1]].events
    BY EventsAre
  <2>2. SameEvent(EventAt(r, e), EventAt(s, e))
    BY <1>2, <2>1 DEF Same, SameEvents, EventAt
  <2>3. "pulses" \in DOMAIN EventAt(s, e)
    BY <2>1 DEF Steady, Orderly, InOrder, EventFields, EventAt
  <2> QED
    BY <2>2, <2>3 DEF SameEvent
<1> HIDE DEF r
<1>4. ASSUME NEW e \in Left(r)
      PROVE  e \notin before
  <2>1. t # 0 /\ f \in Left(r) /\ EventAt(r, f).pulses <= EventAt(r, e).pulses
    BY <1>2, <1>4, NextIsFirst
  <2>2. e \in EventsIn(s) /\ f \in EventsIn(s)
    BY <1>1, <1>4, <2>1 DEF Left
  <2>3. f \notin before
    BY <1>1, <2>1
  <2> HIDE DEF f, t
  <2> QED
    BY <1>3, <2>1, <2>2, <2>3
<1>5. Left(r) \subseteq EventsIn(s)
  BY <1>1 DEF Left
<1> QED
  BY <1>1, <1>4, <1>5 DEF r

LEMMA LeftOf ==
    ASSUME NEW s, Songlike(s), NEW v
    PROVE  /\ Left([s EXCEPT !.seek = v]) = Left(s)
           /\ smf_find_track_with_next_event([s EXCEPT !.seek = v]) = smf_find_track_with_next_event(s)
           /\ [s EXCEPT !.seek = v].tracks = s.tracks
<1> DEFINE r == [s EXCEPT !.seek = v]
<1>1. r.tracks = s.tracks
  BY DEF Songlike, SongFields
<1> HIDE DEF r
<1>2. Left(r) = Left(s) /\ smf_find_track_with_next_event(r) = smf_find_track_with_next_event(s)
  BY <1>1 DEF Left, EventsIn, smf_find_track_with_next_event
<1> QED
  BY <1>1, <1>2 DEF r

LEMMA SeekLands ==
    ASSUME NEW s, Steady(s)
    PROVE  /\ \A p \in Nat : Left(smf_seek_to_pulses(s, p)) =
                               {e \in EventsIn(s) : EventAt(s, e).pulses >= p}
           /\ \A x \in Nat :
                 /\ s.seek # x
                 /\ \A d, e \in EventsIn(s) :
                       /\ EventAt(s, d).seconds \in Int
                       /\ EventAt(s, d).pulses <= EventAt(s, e).pulses
                             => EventAt(s, d).seconds <= EventAt(s, e).seconds
                 => Left(smf_seek_to_seconds(s, x)) =
                       {e \in EventsIn(s) : EventAt(s, e).seconds >= x}
           /\ \A e \in EventsIn(s) :
                 /\ smf_find_track_with_next_event(smf_seek_to_event(s, e)) = e[1]
                 /\ smf_seek_to_event(s, e).tracks[e[1]].next = e[2]
<1>1. \A before : Songlike(SkipFromStart(s, before)) /\ Steady(SkipFromStart(s, before))
  BY SkipFromStartSteady DEF Steady, Orderly
<1>2. ASSUME NEW p \in Nat
      PROVE  Left(smf_seek_to_pulses(s, p)) = {e \in EventsIn(s) : EventAt(s, e).pulses >= p}
  <2> DEFINE before == {e \in EventsIn(s) : EventAt(s, e).pulses < p}
             r == SkipFromStart(s, before)
  <2>1. \A e \in EventsIn(s) : EventAt(s, e).pulses \in Nat
    BY EventsAre
  <2>2. Left(r) = EventsIn(s) \ before
    <3>1. \A d, e \in EventsIn(s) : d \notin before /\ EventAt(s, d).pulses <= EventAt(s, e).pulses
                                       => e \notin before
      BY <2>1
    <3> HIDE DEF before
    <3> QED
      BY <3>1, SkipLands
  <2>3. EventsIn(s) \ before = {e \in EventsIn(s) : EventAt(s, e).pulses >= p}
    BY <2>1
  <2>4. \E v : smf_seek_to_pulses(s, p) \in {r, [r EXCEPT !.seek = v]}
    BY DEF smf_seek_to_pulses
  <2> HIDE DEF before
  <2> QED
    BY <1>1, <2>2, <2>3, <2>4, LeftOf
<1>3. ASSUME NEW x \in Nat, s.seek # x,
             \A d, e \in EventsIn(s) :
                /\ EventAt(s, d).seconds \in Int
                /\ EventAt(s, d).pulses <= EventAt(s, e).pulses
                      => EventAt(s, d).seconds <= EventAt(s, e).seconds
      PROVE  Left(smf_seek_to_seconds(s, x)) = {e \in EventsIn(s) : EventAt(s, e).seconds >= x}
  <2> DEFINE before == {e \in EventsIn(s) : EventAt(s, e).seconds < x}
             r == SkipFromStart(s, before)
  <2>1. \A e \in EventsIn(s) : EventAt(s, e).seconds \in Int
    BY <1>3
  <2>2. Left(r) = EventsIn(s) \ before
    <3>1. \A d, e \in EventsIn(s) : d \notin before /\ EventAt(s, d).pulses <= EventAt(s, e).pulses
                                       => e \notin before
      BY <1>3
    <3> HIDE DEF before
    <3> QED
      BY <3>1, SkipLands
  <2>3. EventsIn(s) \ before = {e \in EventsIn(s) : EventAt(s, e).seconds >= x}
    BY <2>1
  <2>4. \E v : smf_seek_to_seconds(s, x) \in {r, [r EXCEPT !.seek = v]}
    BY <1>3 DEF smf_seek_to_seconds
  <2> HIDE DEF before
  <2> QED
    BY <1>1, <2>2, <2>3, <2>4, LeftOf
<1>4. ASSUME NEW e \in EventsIn(s)
      PROVE  /\ smf_find_track_with_next_event(smf_seek_to_event(s, e)) = e[1]
             /\ smf_seek_to_event(s, e).tracks[e[1]].next = e[2]
  <2> DEFINE r == SkipFromStart(s, EventsIn(s) \ {e})
             t == smf_find_track_with_next_event(r)
             f == << t, r.tracks[t].next >>
  <2>1. /\ EventsIn(r) = EventsIn(s) /\ EventsIn(s) \ Left(r) \subseteq EventsIn(s) \ {e}
        /\ t = 0 \/ f \notin EventsIn(s) \ {e}
    BY SkipsOnly
  <2>2. Steady(r) /\ Placed(r) /\ Songlike(r)
    BY <1>1, SkipFromStartSteady
  <2>3. smf_seek_to_event(s, e) = [r EXCEPT !.seek = EventAt(s, e).seconds]
    BY DEF smf_seek_to_event
  <2> HIDE DEF r
  <2>4. e \in Left(r)
    BY <2>1
  <2>5. t # 0 /\ f \in Left(r)
    BY <2>2, <2>4, NextIsFirst
  <2>6. f \in EventsIn(s)
    BY <2>1, <2>5 DEF Left
  <2>7. f = e
    BY <2>1, <2>5, <2>6
  <2>8. t = e[1] /\ r.tracks[t].next = e[2]
    <3> HIDE DEF t
    <3> QED
      BY <2>7
  <2> QED
    BY <2>2, <2>3, <2>8, LeftOf
<1> QED
  BY <1>2, <1>3, <1>4

-----------------------------------------------------------------------------
(* The tempo map tells every event's time.                                  *)

\* A tempo map that starts at the start, in which every entry starts when the
\* one before it says.
Linked(s) ==
    /\ IsSequence(s.tempos) /\ Begun(s) /\ s.ppqn \in Nat \ {0}
    /\ \A i \in DOMAIN s.tempos :
          /\ TempoFields \subseteq DOMAIN s.tempos[i]
          /\ s.tempos[i].pulses \in Nat /\ s.tempos[i].seconds \in Nat
          /\ s.tempos[i].usec \in Nat \ {0}
    /\ \A i \in DOMAIN s.tempos : i > 1 =>
          /\ s.tempos[i - 1].pulses < s.tempos[i].pulses
          /\ s.tempos[i].seconds = SecondsSince(s.tempos[i - 1], s, s.tempos[i].pulses)

LEMMA Multiplied ==
    ASSUME NEW a \in Int, NEW b \in Int, NEW n \in Nat, a <= b
    PROVE  a * n <= b * n /\ a * n \in Int /\ 0 * n = 0 /\ (a >= 0 => a * n \in Nat)
OBVIOUS

\* How many seconds it is goes up with the pulses.
LEMMA SinceGrows ==
    ASSUME NEW s, s.ppqn \in Nat \ {0}, NEW tempo, tempo.usec \in Nat \ {0},
           tempo.pulses \in Nat, tempo.seconds \in Nat,
           NEW p \in Nat, NEW q \in Nat, tempo.pulses <= p, p <= q
    PROVE  /\ SecondsSince(tempo, s, p) \in Nat /\ SecondsSince(tempo, s, q) \in Nat
           /\ tempo.seconds <= SecondsSince(tempo, s, p)
           /\ SecondsSince(tempo, s, p) <= SecondsSince(tempo, s, q)
           /\ SecondsSince(tempo, s, tempo.pulses) = tempo.seconds
<1> DEFINE u == tempo.usec
           n == s.ppqn
           x == p - tempo.pulses
           y == q - tempo.pulses
<1>1. x \in Nat /\ y \in Nat /\ x <= y /\ u \in Nat /\ n \in Nat \ {0}
  OBVIOUS
<1>2. /\ SecondsSince(tempo, s, p) = tempo.seconds + (x * u) \div n
      /\ SecondsSince(tempo, s, q) = tempo.seconds + (y * u) \div n
      /\ SecondsSince(tempo, s, tempo.pulses) = tempo.seconds + (0 * u) \div n
  BY DEF SecondsSince
<1> HIDE DEF x, y, u, n
<1>3. x * u \in Nat /\ y * u \in Nat /\ x * u <= y * u /\ 0 * u = 0
  BY <1>1, Multiplied
<1>4. (x * u) \div n \in Nat /\ (y * u) \div n \in Nat /\ (x * u) \div n <= (y * u) \div n
      /\ 0 \div n = 0
  <2> DEFINE a == x * u
             b == y * u
  <2>1. a \in Nat /\ b \in Nat /\ a <= b
    BY <1>3
  <2> HIDE DEF a, b
  <2>2. a \div n \in Nat /\ a \div n <= b \div n /\ 0 \div n = 0
    BY <1>1, <2>1
  <2>3. b \div n \in Nat
    BY <1>1, <2>1
  <2> QED
    BY <2>2, <2>3 DEF a, b
<1> QED
  BY <1>2, <1>3, <1>4

\* The entry that tells the time at a pulse.
LEMMA EntryAt ==
    ASSUME NEW s, Linked(s), NEW p \in Nat
    PROVE  \E i \in DOMAIN s.tempos :
              /\ i = Max(BeforePulses(s, p)) /\ s.tempos[i].pulses <= p
              /\ i \in BeforePulses(s, p)
              /\ i + 1 \in DOMAIN s.tempos => p <= s.tempos[i + 1].pulses
              /\ seconds_from_pulses(s, p) = SecondsSince(s.tempos[i], s, p)
<1> DEFINE n == Len(s.tempos)
           B == BeforePulses(s, p)
           i == Max(B)
<1>1. n \in Nat /\ n >= 1 /\ DOMAIN s.tempos = 1 .. n /\ s.tempos[1].pulses = 0
  BY SequenceFacts DEF Linked, Begun
<1> HIDE DEF n
<1>2. B = {j \in 1 .. n : IF p = 0 THEN j = 1 ELSE s.tempos[j].pulses < p}
  BY <1>1 DEF BeforePulses
<1>3. 1 \in B /\ B \subseteq 1 .. n
  BY <1>1, <1>2
<1> HIDE DEF B
<1>4. i \in B /\ \A j \in B : j <= i
  <2> DEFINE L == B \cup {0}
             top == Max(L)
  <2>1. L \in SUBSET Nat /\ 0 \in L /\ \A x \in L : x <= n
    BY <1>1, <1>3
  <2> HIDE DEF L
  <2>2. top \in L /\ \A x \in L : x <= top
    BY <1>1, <2>1, GreatestOf
  <2> HIDE DEF top
  <2>3. \A x \in L : x \in B \/ x = 0
    BY DEF L
  <2>4. B \subseteq L
    BY DEF L
  <2>5. top \in B
    BY <1>3, <2>2, <2>3, <2>4
  <2>6. top \in B /\ \A x \in B : top >= x
    BY <1>3, <2>1, <2>2, <2>4, <2>5
  <2>7. i \in B /\ \A x \in B : i >= x
    BY <2>6 DEF Max
  <2> HIDE DEF i
  <2> QED
    BY <1>3, <2>7
<1>5. seconds_from_pulses(s, p) = SecondsSince(s.tempos[i], s, p)
  BY DEF seconds_from_pulses, smf_get_tempo_by_pulses, B
<1> HIDE DEF i
<1>6. i \in 1 .. n /\ s.tempos[i].pulses \in Nat /\ (i + 1 \in 1 .. n => s.tempos[i + 1].pulses \in Nat)
  BY <1>1, <1>3, <1>4 DEF Linked
<1>7. s.tempos[i].pulses <= p
  BY <1>1, <1>2, <1>4, <1>6
<1>8. ASSUME i + 1 \in 1 .. n PROVE p <= s.tempos[i + 1].pulses
  <2>1. i + 1 \notin B
    BY <1>4, <1>6
  <2> QED
    BY <1>2, <1>6, <1>8, <2>1
<1> QED
  BY <1>1, <1>4, <1>5, <1>6, <1>7, <1>8 DEF i, B

LEMMA LinkedOrder ==
    ASSUME NEW s, Linked(s)
    PROVE  \A i, j \in DOMAIN s.tempos : i <= j =>
              /\ s.tempos[i].pulses <= s.tempos[j].pulses
              /\ i < j => s.tempos[i].pulses < s.tempos[j].pulses
              /\ s.tempos[i].seconds <= s.tempos[j].seconds
<1> DEFINE n == Len(s.tempos)
           Ordered(i, j) == /\ s.tempos[i].pulses <= s.tempos[j].pulses
                            /\ i < j => s.tempos[i].pulses < s.tempos[j].pulses
                            /\ s.tempos[i].seconds <= s.tempos[j].seconds
           Upto(k) == \A i, j \in 1 .. k : i <= j => Ordered(i, j)
           S == {k \in 0 .. n : Upto(k)}
<1>1. n \in Nat /\ DOMAIN s.tempos = 1 .. n
  BY SequenceFacts DEF Linked
<1> HIDE DEF n
<1>2. \A j \in 1 .. n : s.tempos[j].pulses \in Nat /\ s.tempos[j].seconds \in Nat
  BY <1>1 DEF Linked
<1>3. ASSUME NEW j \in 2 .. n
      PROVE  s.tempos[j - 1].pulses < s.tempos[j].pulses /\ s.tempos[j - 1].seconds <= s.tempos[j].seconds
  <2>1. j \in 1 .. n /\ j - 1 \in 1 .. n /\ j > 1
    BY <1>1
  <2>2. s.tempos[j - 1].pulses < s.tempos[j].pulses
    BY <1>1, <2>1 DEF Linked
  <2>3. s.tempos[j].seconds = SecondsSince(s.tempos[j - 1], s, s.tempos[j].pulses)
    BY <1>1, <2>1 DEF Linked
  <2>4. s.ppqn \in Nat \ {0} /\ s.tempos[j - 1].usec \in Nat \ {0}
    BY <1>1, <2>1 DEF Linked
  <2>5. /\ s.tempos[j - 1].pulses \in Nat /\ s.tempos[j - 1].seconds \in Nat
        /\ s.tempos[j].pulses \in Nat
    BY <1>2, <2>1
  <2>6. s.tempos[j - 1].pulses <= s.tempos[j].pulses
    BY <2>2, <2>5
  <2> QED
    BY <2>2, <2>3, <2>4, <2>5, <2>6, SinceGrows
<1>4. ASSUME NEW k \in S, k < n
      PROVE  k + 1 \in S
  <2>1. k \in 0 .. n /\ Upto(k)
    OBVIOUS
  <2>2. ASSUME NEW i \in 1 .. k + 1, NEW j \in 1 .. k + 1, i <= j
        PROVE  Ordered(i, j)
    <3>1. CASE j \in 1 .. k
      BY <1>1, <2>1, <2>2, <3>1
    <3>2. CASE j = k + 1 /\ i = j
      BY <1>1, <1>2, <1>4, <2>1, <3>2
    <3>3. CASE j = k + 1 /\ i # j
      <4>1. i \in 1 .. k /\ k \in 1 .. k /\ i <= k /\ i \in 1 .. n /\ k \in 1 .. n
            /\ j \in 2 .. n /\ j - 1 = k /\ j \in 1 .. n
        BY <1>1, <1>4, <2>1, <2>2, <3>3
      <4>2. Ordered(i, k)
        BY <2>1, <4>1
      <4>3. s.tempos[k].pulses < s.tempos[j].pulses /\ s.tempos[k].seconds <= s.tempos[j].seconds
        BY <1>3, <4>1
      <4> QED
        BY <1>2, <4>1, <4>2, <4>3
    <3> QED
      BY <1>1, <2>1, <2>2, <3>1, <3>2, <3>3
  <2> QED
    BY <1>1, <1>4, <2>1, <2>2
<1>5. 0 \in S
  BY <1>1
<1>6. S = 0 .. n
  <2>1. S \in SUBSET (0 .. n)
    OBVIOUS
  <2> HIDE DEF S
  <2> QED
    BY <1>1, <1>4, <1>5, <2>1, Induction
<1>7. n \in S
  <2>1. n \in 0 .. n
    BY <1>1
  <2> HIDE DEF S
  <2> QED
    BY <1>6, <2>1
<1>8. Upto(n)
  BY <1>7
<1> QED
  BY <1>1, <1>8

\* The time does not go back.
LEMMA TimeGrows ==
    ASSUME NEW s, Linked(s), NEW p \in Nat, NEW q \in Nat, p <= q
    PROVE  /\ seconds_from_pulses(s, p) \in Nat /\ seconds_from_pulses(s, q) \in Nat
           /\ seconds_from_pulses(s, p) <= seconds_from_pulses(s, q)
<1>1. PICK i \in DOMAIN s.tempos :
         /\ s.tempos[i].pulses <= p
         /\ i + 1 \in DOMAIN s.tempos => p <= s.tempos[i + 1].pulses
         /\ seconds_from_pulses(s, p) = SecondsSince(s.tempos[i], s, p)
  BY EntryAt
<1>2. PICK j \in DOMAIN s.tempos :
         /\ s.tempos[j].pulses <= q
         /\ j + 1 \in DOMAIN s.tempos => q <= s.tempos[j + 1].pulses
         /\ seconds_from_pulses(s, q) = SecondsSince(s.tempos[j], s, q)
  BY EntryAt
<1>3. /\ s.ppqn \in Nat \ {0}
      /\ \A k \in DOMAIN s.tempos : /\ s.tempos[k].pulses \in Nat /\ s.tempos[k].seconds \in Nat
                                    /\ s.tempos[k].usec \in Nat \ {0} /\ k \in Nat
  BY SequenceFacts DEF Linked
<1>4. /\ SecondsSince(s.tempos[i], s, p) \in Nat /\ SecondsSince(s.tempos[j], s, q) \in Nat
      /\ s.tempos[j].seconds <= SecondsSince(s.tempos[j], s, q)
  BY <1>1, <1>2, <1>3, SinceGrows
<1>5. CASE i = j
  <2>1. SecondsSince(s.tempos[i], s, p) <= SecondsSince(s.tempos[i], s, q)
    BY <1>1, <1>3, SinceGrows
  <2> QED
    BY <1>1, <1>2, <1>4, <1>5, <2>1
<1>6. CASE i < j
  <2>1. i + 1 \in DOMAIN s.tempos /\ i + 1 <= j
    BY <1>3, <1>6, SequenceFacts DEF Linked
  <2>2. s.tempos[i + 1].seconds = SecondsSince(s.tempos[i], s, s.tempos[i + 1].pulses)
    <3> DEFINE k == i + 1
    <3>1. k \in DOMAIN s.tempos /\ k > 1 /\ k - 1 = i
      BY <1>3, <2>1, SequenceFacts DEF Linked
    <3> HIDE DEF k
    <3>2. s.tempos[k].seconds = SecondsSince(s.tempos[k - 1], s, s.tempos[k].pulses)
      BY <3>1 DEF Linked
    <3> QED
      BY <3>1, <3>2 DEF k
  <2>3. s.tempos[i + 1].seconds <= s.tempos[j].seconds
    BY <2>1, LinkedOrder
  <2>4. SecondsSince(s.tempos[i], s, p) <= SecondsSince(s.tempos[i], s, s.tempos[i + 1].pulses)
    BY <1>1, <1>3, <2>1, SinceGrows
  <2> QED
    BY <1>1, <1>2, <1>3, <1>4, <2>1, <2>2, <2>3, <2>4
<1>7. CASE j < i
  <2>1. j + 1 \in DOMAIN s.tempos /\ j + 1 <= i
    BY <1>3, <1>7, SequenceFacts DEF Linked
  <2>2. s.tempos[j + 1].pulses <= s.tempos[i].pulses
    BY <2>1, LinkedOrder
  <2>3. p = q
    BY <1>1, <1>2, <1>3, <2>1, <2>2
  <2> QED
    BY <1>1, <1>4, <2>3
<1> QED
  BY <1>3, <1>5, <1>6, <1>7

\* Two tempo maps tell the same times up to a pulse if they have the same
\* entries before it.
Agree(r, s, p) ==
    /\ r.ppqn = s.ppqn
    /\ \A i \in DOMAIN s.tempos :
          s.tempos[i].pulses < p => i \in DOMAIN r.tempos /\ r.tempos[i] = s.tempos[i]
    /\ \A i \in DOMAIN r.tempos :
          r.tempos[i].pulses < p => i \in DOMAIN s.tempos /\ r.tempos[i] = s.tempos[i]

LEMMA NoTimeYet ==
    ASSUME NEW s, Linked(s)
    PROVE  seconds_from_pulses(s, 0) = 0
<1>1. PICK i \in DOMAIN s.tempos : /\ i = Max(BeforePulses(s, 0)) /\ i \in BeforePulses(s, 0)
                                   /\ seconds_from_pulses(s, 0) = SecondsSince(s.tempos[i], s, 0)
  BY EntryAt
<1>2. i = 1
  BY <1>1 DEF BeforePulses
<1>3. /\ s.tempos[i].pulses = 0 /\ s.tempos[i].seconds = 0 /\ s.tempos[i].usec \in Nat \ {0}
      /\ s.ppqn \in Nat \ {0}
  BY <1>2 DEF Linked, Begun
<1>4. SecondsSince(s.tempos[i], s, s.tempos[i].pulses) = s.tempos[i].seconds
  BY <1>3, SinceGrows
<1> QED
  BY <1>1, <1>3, <1>4

LEMMA SameTime ==
    ASSUME NEW s, Linked(s), NEW r, Linked(r), NEW last \in Nat, Agree(r, s, last),
           NEW p \in Nat, p <= last
    PROVE  seconds_from_pulses(r, p) = seconds_from_pulses(s, p)
<1>1. CASE p = 0
  BY <1>1, NoTimeYet
<1>2. CASE p # 0
  <2>1. /\ \A i \in DOMAIN s.tempos : s.tempos[i].pulses \in Nat
        /\ \A i \in DOMAIN r.tempos : r.tempos[i].pulses \in Nat
    BY DEF Linked
  <2>2. BeforePulses(s, p) = BeforePulses(r, p)
    BY <1>2, <2>1 DEF BeforePulses, Agree
  <2>3. PICK i \in DOMAIN s.tempos : /\ i = Max(BeforePulses(s, p)) /\ i \in BeforePulses(s, p)
                                     /\ seconds_from_pulses(s, p) = SecondsSince(s.tempos[i], s, p)
    BY EntryAt
  <2>4. PICK j \in DOMAIN r.tempos : /\ j = Max(BeforePulses(r, p))
                                     /\ seconds_from_pulses(r, p) = SecondsSince(r.tempos[j], r, p)
    BY EntryAt
  <2>5. i = j /\ s.tempos[i].pulses < p
    BY <1>2, <2>2, <2>3, <2>4 DEF BeforePulses
  <2>6. r.tempos[i] = s.tempos[i] /\ r.ppqn = s.ppqn
    BY <2>1, <2>3, <2>5 DEF Agree
  <2> QED
    BY <2>3, <2>4, <2>5, <2>6 DEF SecondsSince
<1> QED
  BY <1>1, <1>2

\* A map with the same first entries, of which the last may have another tempo.
LEMMA LinkedFrom ==
    ASSUME NEW s, Linked(s), NEW r, r.ppqn = s.ppqn, IsSequence(r.tempos),
           Len(r.tempos) >= 1, DOMAIN r.tempos \subseteq DOMAIN s.tempos,
           \A i \in DOMAIN r.tempos : /\ TempoFields \subseteq DOMAIN r.tempos[i]
                                      /\ r.tempos[i].pulses = s.tempos[i].pulses
                                      /\ r.tempos[i].seconds = s.tempos[i].seconds
                                      /\ r.tempos[i].usec \in Nat \ {0}
                                      /\ i < Len(r.tempos) => r.tempos[i].usec = s.tempos[i].usec
    PROVE  Linked(r)
<1> DEFINE m == Len(r.tempos)
<1>1. m \in Nat /\ m >= 1 /\ DOMAIN r.tempos = 1 .. m /\ \A i \in 1 .. m : i \in DOMAIN s.tempos
  BY SequenceFacts
<1>2. ASSUME NEW i \in 1 .. m
      PROVE  /\ TempoFields \subseteq DOMAIN r.tempos[i]
             /\ r.tempos[i].pulses = s.tempos[i].pulses /\ r.tempos[i].seconds = s.tempos[i].seconds
             /\ r.tempos[i].usec \in Nat \ {0}
             /\ i < m => r.tempos[i].usec = s.tempos[i].usec
             /\ r.tempos[i].pulses \in Nat /\ r.tempos[i].seconds \in Nat
  BY <1>1, <1>2 DEF Linked
<1> HIDE DEF m
<1>3. Begun(r)
  BY <1>1, <1>2 DEF Linked, Begun, m
<1>4. ASSUME NEW i \in 1 .. m, i > 1
      PROVE  /\ r.tempos[i - 1].pulses < r.tempos[i].pulses
             /\ r.tempos[i].seconds = SecondsSince(r.tempos[i - 1], r, r.tempos[i].pulses)
  <2>1. i - 1 \in 1 .. m /\ i - 1 < m /\ i \in DOMAIN s.tempos
    BY <1>1, <1>4
  <2>2. /\ s.tempos[i - 1].pulses < s.tempos[i].pulses
        /\ s.tempos[i].seconds = SecondsSince(s.tempos[i - 1], s, s.tempos[i].pulses)
    BY <1>4, <2>1 DEF Linked
  <2>3. /\ r.tempos[i - 1].pulses = s.tempos[i - 1].pulses /\ r.tempos[i - 1].seconds = s.tempos[i - 1].seconds
        /\ r.tempos[i - 1].usec = s.tempos[i - 1].usec
    BY <1>2, <2>1
  <2>4. r.tempos[i].pulses = s.tempos[i].pulses /\ r.tempos[i].seconds = s.tempos[i].seconds
    BY <1>2
  <2> QED
    BY <2>2, <2>3, <2>4 DEF SecondsSince
<1>5. \A i \in DOMAIN r.tempos : /\ TempoFields \subseteq DOMAIN r.tempos[i]
                                 /\ r.tempos[i].pulses \in Nat /\ r.tempos[i].seconds \in Nat
                                 /\ r.tempos[i].usec \in Nat \ {0}
  BY <1>1, <1>2
<1> QED
  BY <1>1, <1>3, <1>4, <1>5 DEF Linked

\* An entry more at a later pulse, that starts when the last one says.
LEMMA LinkedMore ==
    ASSUME NEW s, Linked(s), NEW p \in Nat, s.tempos[Len(s.tempos)].pulses < p, NEW entry,
           TempoFields \subseteq DOMAIN entry, entry.usec \in Nat \ {0}, entry.pulses = p,
           entry.seconds = SecondsSince(s.tempos[Len(s.tempos)], s, p),
           NEW r, r.ppqn = s.ppqn, r.tempos = Append(s.tempos, entry)
    PROVE  Linked(r)
<1> DEFINE n == Len(s.tempos)
<1>1. n \in Nat /\ n >= 1 /\ DOMAIN s.tempos = 1 .. n
  BY SequenceFacts DEF Linked, Begun
<1>2. /\ IsSequence(r.tempos) /\ Len(r.tempos) = n + 1 /\ r.tempos[n + 1] = entry
      /\ \A i \in 1 .. n : r.tempos[i] = s.tempos[i]
  BY AppendedSequence DEF Linked
<1>3. DOMAIN r.tempos = 1 .. n + 1
  BY <1>2, SequenceFacts
<1>4. s.tempos[n].seconds \in Nat /\ entry.seconds \in Nat
  <2>1. /\ s.tempos[n].pulses \in Nat /\ s.tempos[n].seconds \in Nat
        /\ s.tempos[n].usec \in Nat \ {0} /\ s.ppqn \in Nat \ {0}
    BY <1>1 DEF Linked
  <2> QED
    BY <2>1, SinceGrows
<1> HIDE DEF n
<1>5. \A i \in 1 .. n + 1 : i \in 1 .. n \/ i = n + 1
  BY <1>1
<1>6. Begun(r)
  BY <1>1, <1>2 DEF Linked, Begun
<1>7. ASSUME NEW i \in 1 .. n + 1
      PROVE  /\ TempoFields \subseteq DOMAIN r.tempos[i] /\ r.tempos[i].usec \in Nat \ {0}
             /\ r.tempos[i].pulses \in Nat /\ r.tempos[i].seconds \in Nat
  BY <1>1, <1>2, <1>4, <1>5 DEF Linked
<1>8. ASSUME NEW i \in 1 .. n + 1, i > 1
      PROVE  /\ r.tempos[i - 1].pulses < r.tempos[i].pulses
             /\ r.tempos[i].seconds = SecondsSince(r.tempos[i - 1], r, r.tempos[i].pulses)
  <2>1. i - 1 \in 1 .. n
    BY <1>1, <1>8
  <2>2. \A tempo, q : SecondsSince(tempo, r, q) = SecondsSince(tempo, s, q)
    BY DEF SecondsSince
  <2>3. CASE i \in 1 .. n
    <3>1. /\ s.tempos[i - 1].pulses < s.tempos[i].pulses
          /\ s.tempos[i].seconds = SecondsSince(s.tempos[i - 1], s, s.tempos[i].pulses)
      BY <1>1, <1>8, <2>3 DEF Linked
    <3>2. r.tempos[i] = s.tempos[i] /\ r.tempos[i - 1] = s.tempos[i - 1]
      BY <1>2, <2>1, <2>3
    <3> QED
      BY <2>2, <3>1, <3>2
  <2>4. CASE i = n + 1
    <3>1. i - 1 = n
      BY <1>1, <2>4
    <3> QED
      BY <1>2, <2>1, <2>2, <2>4, <3>1 DEF n
  <2> QED
    BY <1>5, <2>3, <2>4
<1> QED
  BY <1>2, <1>3, <1>6, <1>7, <1>8 DEF Linked

\* The time at the end of the map, or later.
LEMMA TimeAtEnd ==
    ASSUME NEW s, Linked(s), NEW p \in Nat, s.tempos[Len(s.tempos)].pulses < p
    PROVE  seconds_from_pulses(s, p) = SecondsSince(s.tempos[Len(s.tempos)], s, p)
<1> DEFINE n == Len(s.tempos)
<1>1. n \in Nat /\ n >= 1 /\ DOMAIN s.tempos = 1 .. n
  BY SequenceFacts DEF Linked, Begun
<1>2. PICK i \in DOMAIN s.tempos :
         /\ i + 1 \in DOMAIN s.tempos => p <= s.tempos[i + 1].pulses
         /\ seconds_from_pulses(s, p) = SecondsSince(s.tempos[i], s, p)
  BY EntryAt
<1>3. i = n
  <2> SUFFICES ASSUME i # n PROVE FALSE
    OBVIOUS
  <2>1. i + 1 \in 1 .. n /\ n \in 1 .. n /\ i + 1 <= n
    BY <1>1
  <2>2. s.tempos[i + 1].pulses <= s.tempos[n].pulses
    BY <1>1, <2>1, LinkedOrder
  <2>3. p <= s.tempos[i + 1].pulses /\ s.tempos[i + 1].pulses \in Nat /\ s.tempos[n].pulses \in Nat
    BY <1>1, <1>2, <2>1 DEF Linked
  <2> QED
    BY <2>2, <2>3
<1> QED
  BY <1>2, <1>3

LEMMA AgreeReflexive ==
    \A s, p : Agree(s, s, p)
BY DEF Agree

LEMMA AgreeTransitive ==
    ASSUME NEW q, NEW r, NEW s, NEW p, Agree(q, r, p), Agree(r, s, p)
    PROVE  Agree(q, s, p)
BY DEF Agree

\* What a tempo map becomes when it is to have an entry at its end.
Extended(r, s, p) ==
    /\ Linked(r) /\ Agree(r, s, p) /\ r.tracks = s.tracks
    /\ \A i \in DOMAIN r.tempos :
          \/ i \in DOMAIN s.tempos /\ r.tempos[i].pulses = s.tempos[i].pulses
          \/ r.tempos[i].pulses = p

LEMMA new_tempoLinked ==
    ASSUME NEW s, Songlike(s), Linked(s), NEW p \in Nat, s.tempos[Len(s.tempos)].pulses <= p
    PROVE  /\ Extended(new_tempo(s, p), s, p)
           /\ new_tempo(s, p).tempos[Len(new_tempo(s, p).tempos)].pulses = p
<1> DEFINE n == Len(s.tempos)
           last == s.tempos[n]
           entry == [last EXCEPT !.pulses = p,
                        !.seconds = IF p = 0 THEN 0 ELSE seconds_from_pulses(s, p)]
           r == [s EXCEPT !.tempos = Append(s.tempos, entry)]
<1>1. n \in Nat /\ n >= 1 /\ DOMAIN s.tempos = 1 .. n /\ s.tempos # << >>
  BY SequenceFacts, EmptySequence DEF Linked, Begun
<1>2. last.pulses \in Nat /\ TempoFields \subseteq DOMAIN last /\ last.usec \in Nat \ {0}
  BY <1>1 DEF Linked
<1>3. CASE last.pulses = p
  <2>1. new_tempo(s, p) = s
    BY <1>1, <1>3 DEF new_tempo
  <2> QED
    BY <1>3, <2>1, AgreeReflexive DEF Extended
<1>4. CASE last.pulses # p
  <2>1. new_tempo(s, p) = r
    BY <1>1, <1>4 DEF new_tempo, Songlike, SongFields
  <2>2. last.pulses < p /\ p # 0
    BY <1>2, <1>4
  <2>3. seconds_from_pulses(s, p) = SecondsSince(last, s, p)
    BY <2>2, TimeAtEnd
  <2>4. /\ TempoFields \subseteq DOMAIN entry /\ entry.usec = last.usec /\ entry.pulses = p
        /\ entry.seconds = SecondsSince(last, s, p)
    BY <1>2, <2>2, <2>3 DEF TempoFields
  <2>5. r.tracks = s.tracks /\ r.ppqn = s.ppqn /\ r.tempos = Append(s.tempos, entry)
    BY DEF Songlike, SongFields
  <2> HIDE DEF entry, r
  <2>6. Linked(r)
    BY <1>2, <2>2, <2>4, <2>5, LinkedMore
  <2>7. /\ IsSequence(r.tempos) /\ Len(r.tempos) = n + 1 /\ r.tempos[n + 1] = entry
        /\ \A i \in 1 .. n : r.tempos[i] = s.tempos[i]
    BY <2>5, AppendedSequence DEF Linked
  <2>8. DOMAIN r.tempos = 1 .. n + 1 /\ \A i \in 1 .. n + 1 : i \in 1 .. n \/ i = n + 1
    BY <1>1, <2>7, SequenceFacts
  <2>9. Agree(r, s, p)
    BY <1>1, <2>4, <2>5, <2>7, <2>8 DEF Agree
  <2> QED
    BY <1>1, <2>1, <2>4, <2>5, <2>6, <2>7, <2>8, <2>9 DEF Extended
<1> QED
  BY <1>3, <1>4

LEMMA LastTempoLinked ==
    ASSUME NEW s, Songlike(s), Linked(s), NEW ev, ev.kind = "tempo" => ev.val \in Nat \ {0}
    PROVE  Extended(LastTempo(s, ev), s, s.tempos[Len(s.tempos)].pulses)
<1> DEFINE n == Len(s.tempos)
           p == s.tempos[n].pulses
           e == IF ev.kind = "tempo" THEN [s.tempos[n] EXCEPT !.usec = ev.val]
                ELSE [s.tempos[n] EXCEPT !.sig = ev.val]
           v == [s.tempos EXCEPT ![n] = e]
           r == [s EXCEPT !.tempos = v]
<1>1. n \in Nat /\ n >= 1 /\ DOMAIN s.tempos = 1 .. n
  BY SequenceFacts DEF Linked, Begun
<1>2. LastTempo(s, ev) = r
  BY DEF LastTempo, Songlike, SongFields
<1>3. r.tracks = s.tracks /\ r.ppqn = s.ppqn /\ r.tempos = v
  BY DEF Songlike, SongFields
<1>4. /\ TempoFields \subseteq DOMAIN e /\ e.pulses = s.tempos[n].pulses
      /\ e.seconds = s.tempos[n].seconds /\ e.usec \in Nat \ {0}
  BY <1>1 DEF Linked, TempoFields
<1> HIDE DEF e, r
<1>5. DOMAIN v = 1 .. n /\ v[n] = e /\ \A i \in 1 .. n : i # n => v[i] = s.tempos[i]
  BY <1>1
<1>6. IsSequence(v) /\ Len(v) = n
  <2>1. v = [i \in 1 .. n |-> v[i]]
    BY <1>1
  <2> HIDE DEF v, n
  <2> QED
    BY <1>1, <2>1, MadeSequence
<1> HIDE DEF v, n
<1>7. \A i \in 1 .. n : /\ TempoFields \subseteq DOMAIN v[i] /\ v[i].pulses = s.tempos[i].pulses
                        /\ v[i].seconds = s.tempos[i].seconds /\ v[i].usec \in Nat \ {0}
                        /\ s.tempos[i].pulses \in Nat
  BY <1>1, <1>4, <1>5 DEF Linked
<1>8. \A i \in 1 .. n - 1 : v[i].usec = s.tempos[i].usec
  <2>1. \A i \in 1 .. n - 1 : i \in 1 .. n /\ i # n
    BY <1>1
  <2> QED
    BY <1>5, <2>1
<1>9. \A i \in 1 .. n : i < n => i \in 1 .. n - 1
  BY <1>1
<1>10. Linked(r)
  <2>1. /\ DOMAIN r.tempos = 1 .. n /\ Len(r.tempos) >= 1 /\ DOMAIN r.tempos \subseteq DOMAIN s.tempos
        /\ IsSequence(r.tempos) /\ Len(r.tempos) = n
    BY <1>1, <1>3, <1>5, <1>6
  <2>2. \A i \in DOMAIN r.tempos : /\ TempoFields \subseteq DOMAIN r.tempos[i]
                                   /\ r.tempos[i].pulses = s.tempos[i].pulses
                                   /\ r.tempos[i].seconds = s.tempos[i].seconds
                                   /\ r.tempos[i].usec \in Nat \ {0}
                                   /\ i < Len(r.tempos) => r.tempos[i].usec = s.tempos[i].usec
    BY <1>3, <1>7, <1>8, <1>9, <2>1
  <2> QED
    BY <1>3, <2>1, <2>2, LinkedFrom
<1>11. Agree(r, s, p)
  <2>1. \A i \in 1 .. n : s.tempos[i].pulses < s.tempos[n].pulses => i # n
    BY <1>1, <1>7
  <2> QED
    BY <1>1, <1>3, <1>5, <1>7, <2>1 DEF Agree
<1>12. Extended(r, s, p)
  BY <1>1, <1>3, <1>5, <1>7, <1>10, <1>11 DEF Extended
<1> QED
  BY <1>2, <1>12 DEF n

LEMMA ExtendedTransitive ==
    ASSUME NEW q, NEW r, NEW s, NEW p, Extended(q, r, p), Extended(r, s, p)
    PROVE  Extended(q, s, p)
BY AgreeTransitive DEF Extended

\* A change of the tempo or of the time signature that comes last.
LEMMA TempoMapLinked ==
    ASSUME NEW s, Songlike(s), Linked(s), NEW ev, ev.pulses \in Nat,
           ev.kind = "tempo" => ev.val \in Nat,
           s.tempos[Len(s.tempos)].pulses <= ev.pulses
    PROVE  /\ Extended(maybe_add_to_tempo_map(s, ev), s, ev.pulses)
           /\ ~smf_event_is_tempo_change_or_time_signature(ev) => maybe_add_to_tempo_map(s, ev) = s
<1> DEFINE q == new_tempo(s, ev.pulses)
           p == ev.pulses
<1>1. Extended(q, s, p) /\ q.tempos[Len(q.tempos)].pulses = p
  BY new_tempoLinked
<1>2. Songlike(q) /\ Linked(q)
  BY <1>1, new_tempoSame, SameSonglike DEF Extended
<1> HIDE DEF q
<1>3. CASE ev.kind \in {"tempo", "sig"} /\ ev.val # 0
  <2>1. Extended(LastTempo(q, ev), q, p)
    BY <1>1, <1>2, <1>3, LastTempoLinked
  <2> QED
    BY <1>1, <1>3, <2>1, ExtendedTransitive
    DEF maybe_add_to_tempo_map, q, smf_event_is_tempo_change_or_time_signature
<1>4. CASE ~(ev.kind \in {"tempo", "sig"} /\ ev.val # 0)
  <2>1. maybe_add_to_tempo_map(s, ev) = s
    BY <1>4 DEF maybe_add_to_tempo_map
  <2> QED
    BY <2>1, AgreeReflexive DEF Extended
<1> QED
  BY <1>3, <1>4

\* The first entry alone.
LEMMA smf_init_tempoLinked ==
    ASSUME NEW s, Songlike(s), s.ppqn \in Nat \ {0}, InitialTempo \in Nat \ {0}
    PROVE  /\ Linked(smf_init_tempo(s)) /\ smf_init_tempo(s).tracks = s.tracks
           /\ Len(smf_init_tempo(s).tempos) = 1
<1> DEFINE q == [s EXCEPT !.tempos = << >>]
           first == [pulses |-> 0, seconds |-> 0, usec |-> InitialTempo, sig |-> 0]
           one == << first >>
           r == [q EXCEPT !.tempos = one]
<1>1. q.tracks = s.tracks /\ q.ppqn = s.ppqn /\ q.tempos = << >> /\ "tempos" \in DOMAIN q
  BY DEF Songlike, SongFields
<1> HIDE DEF q
<1>2. smf_init_tempo(s) = r
  BY <1>1 DEF smf_init_tempo, new_tempo, q
<1>3. r.tracks = s.tracks /\ r.ppqn = s.ppqn /\ r.tempos = one
  BY <1>1
<1>4. IsSequence(one) /\ Len(one) = 1 /\ one[1] = first /\ DOMAIN one = 1 .. 1
  <2>1. one = [i \in 1 .. 1 |-> one[i]] /\ one[1] = first
    OBVIOUS
  <2> HIDE DEF one
  <2> QED
    BY <2>1, MadeSequence
<1>5. /\ TempoFields \subseteq DOMAIN first /\ first.pulses = 0 /\ first.seconds = 0
      /\ first.usec = InitialTempo
  BY DEF TempoFields
<1> HIDE DEF first, one, r
<1>6. \A i \in DOMAIN r.tempos : i = 1
  BY <1>3, <1>4
<1>7. Linked(r)
  BY <1>3, <1>4, <1>5, <1>6 DEF Linked, Begun
<1> QED
  BY <1>2, <1>3, <1>4, <1>7

\* The last entry gone.
LEMMA remove_last_tempoLinked ==
    ASSUME NEW s, Songlike(s), Linked(s), NEW p \in Nat, p # 0
    PROVE  LET r == remove_last_tempo_with_pulses(s, p)
           IN  /\ Linked(r) /\ Agree(r, s, p) /\ r.tracks = s.tracks
               /\ \A i \in DOMAIN r.tempos : i \in DOMAIN s.tempos /\ r.tempos[i] = s.tempos[i]
               /\ s.tempos[Len(s.tempos)].pulses <= p =>
                     \A i \in DOMAIN r.tempos : r.tempos[i].pulses < p
<1> DEFINE n == Len(s.tempos)
           v == SubSeq(s.tempos, 1, n - 1)
           r == remove_last_tempo_with_pulses(s, p)
<1>1. n \in Nat /\ n >= 1 /\ DOMAIN s.tempos = 1 .. n /\ s.tempos # << >>
  BY SequenceFacts, EmptySequence DEF Linked, Begun
<1>2. ASSUME NEW i \in 1 .. n PROVE s.tempos[i].pulses \in Nat /\ s.tempos[i].pulses <= s.tempos[n].pulses
                                    /\ (i # n => s.tempos[i].pulses < s.tempos[n].pulses)
  <2>1. s.tempos[i].pulses \in Nat
    BY <1>1 DEF Linked
  <2>2. n \in 1 .. n /\ i <= n /\ (i # n => i < n)
    BY <1>1
  <2> QED
    BY <1>1, <2>1, <2>2, LinkedOrder
<1>3. CASE s.tempos[n].pulses # p
  <2>1. r = s
    BY <1>1, <1>3 DEF remove_last_tempo_with_pulses
  <2>2. n \in 1 .. n
    BY <1>1
  <2>3. s.tempos[n].pulses <= p => \A i \in 1 .. n : s.tempos[i].pulses < p
    BY <1>2, <1>3, <2>2
  <2> QED
    BY <1>1, <2>1, <2>3, AgreeReflexive
<1>4. CASE s.tempos[n].pulses = p
  <2>1. n # 1
    BY <1>4 DEF Linked, Begun
  <2>2. IsSequence(v) /\ Len(v) = n - 1 /\ \A i \in 1 .. n - 1 : v[i] = s.tempos[i]
    <3>1. v = [i \in 1 .. n - 1 |-> s.tempos[i]]
      BY <1>1
    <3>2. v = [i \in 1 .. n - 1 |-> v[i]]
      BY <3>1
    <3> HIDE DEF v, n
    <3> QED
      BY <1>1, <3>1, <3>2, MadeSequence
  <2>3. r = [s EXCEPT !.tempos = v]
    BY <1>1, <1>4 DEF remove_last_tempo_with_pulses, Front, Songlike, SongFields
  <2>4. r.tracks = s.tracks /\ r.ppqn = s.ppqn /\ r.tempos = v
    BY <2>3 DEF Songlike, SongFields
  <2> HIDE DEF v, r
  <2>5. DOMAIN v = 1 .. n - 1 /\ n - 1 \in Nat /\ n - 1 >= 1 /\ n - 1 <= n
    <3>1. DOMAIN v = 1 .. Len(v)
      BY <2>2, SequenceFacts
    <3> HIDE DEF n
    <3> QED
      BY <1>1, <2>1, <2>2, <3>1
  <2>6. \A i \in 1 .. n - 1 : i \in 1 .. n /\ i # n
    BY <1>1
  <2>7. Linked(r)
    <3>1. \A i \in DOMAIN r.tempos : /\ TempoFields \subseteq DOMAIN r.tempos[i]
                                     /\ r.tempos[i].pulses = s.tempos[i].pulses
                                     /\ r.tempos[i].seconds = s.tempos[i].seconds
                                     /\ r.tempos[i].usec \in Nat \ {0}
                                     /\ i < Len(r.tempos) => r.tempos[i].usec = s.tempos[i].usec
      BY <1>1, <2>2, <2>4, <2>5, <2>6 DEF Linked
    <3>2. /\ Len(r.tempos) >= 1 /\ IsSequence(r.tempos)
          /\ DOMAIN r.tempos \subseteq DOMAIN s.tempos
      BY <1>1, <2>2, <2>4, <2>5, <2>6
    <3> QED
      BY <2>4, <3>1, <3>2, LinkedFrom
  <2>8. Agree(r, s, p)
    <3>1. \A i \in 1 .. n : s.tempos[i].pulses < p => i \in 1 .. n - 1
      BY <1>1, <1>4, <1>2
    <3> QED
      BY <1>1, <2>2, <2>4, <2>5, <2>6, <3>1 DEF Agree
  <2>9. \A i \in 1 .. n - 1 : r.tempos[i] = s.tempos[i] /\ r.tempos[i].pulses < p
    BY <1>2, <1>4, <2>2, <2>4, <2>6
  <2> QED
    BY <1>1, <2>4, <2>5, <2>6, <2>7, <2>8, <2>9 DEF r
<1> QED
  BY <1>3, <1>4

\* What an event tells the tempo map, and what it is told.
Mark(ev) == [kind |-> ev.kind, val |-> ev.val, pulses |-> ev.pulses, seconds |-> ev.seconds]
Marks(s) == {Mark(EventAt(s, e)) : e \in EventsIn(s)}

\* A tempo is a number; every event is at the time the map tells; every entry of
\* the map, but for the first, is at a change in the song.
Valued(s) == \A m \in Marks(s) : m.kind = "tempo" => m.val \in Nat
InStep(s) == \A m \in Marks(s) : m.seconds = seconds_from_pulses(s, m.pulses)
Known(s) ==
    \A i \in DOMAIN s.tempos :
        \/ s.tempos[i].pulses = 0
        \/ \E m \in Marks(s) : /\ smf_event_is_tempo_change_or_time_signature(m)
                               /\ m.pulses = s.tempos[i].pulses
Synced(s) == Linked(s) /\ InStep(s) /\ Known(s)

LEMMA SameMap ==
    ASSUME NEW s, NEW r, r.tempos = s.tempos, r.ppqn = s.ppqn
    PROVE  /\ \A p : seconds_from_pulses(r, p) = seconds_from_pulses(s, p)
           /\ Linked(s) => Linked(r)
<1>1. \A p : BeforePulses(r, p) = BeforePulses(s, p)
  BY DEF BeforePulses
<1>2. \A tempo, p : SecondsSince(tempo, r, p) = SecondsSince(tempo, s, p)
  BY DEF SecondsSince
<1>3. \A p : seconds_from_pulses(r, p) = seconds_from_pulses(s, p)
  BY <1>1, <1>2 DEF seconds_from_pulses, smf_get_tempo_by_pulses
<1>4. Linked(s) => Linked(r)
  BY <1>2 DEF Linked, Begun
<1> QED
  BY <1>3, <1>4

\* Setting the seconds of one event.
LEMMA TimedMeans ==
    ASSUME NEW s, Steady(s), NEW t, NEW i, << t, i >> \in EventsIn(s)
    PROVE  LET r == Timed(s, t, i)
           IN  /\ r.tempos = s.tempos /\ r.ppqn = s.ppqn
               /\ EventsIn(r) = EventsIn(s) /\ Left(r) = Left(s)
               /\ \A e \in EventsIn(s) :
                     /\ e # << t, i >> => EventAt(r, e) = EventAt(s, e)
                     /\ EventAt(r, e).kind = EventAt(s, e).kind
                     /\ EventAt(r, e).val = EventAt(s, e).val
                     /\ EventAt(r, e).pulses = EventAt(s, e).pulses
               /\ EventAt(r, << t, i >>).seconds = seconds_from_pulses(s, EventAt(s, << t, i >>).pulses)
<1> DEFINE ev == s.tracks[t].events[i]
           v == seconds_from_pulses(s, ev.pulses)
           r == Timed(s, t, i)
<1>1. t \in DOMAIN s.tracks /\ i \in DOMAIN s.tracks[t].events /\ EventFields \subseteq DOMAIN ev
  BY DEF EventsIn, Steady, Orderly, InOrder
<1>2. r = [s EXCEPT !.tracks[t].events[i].seconds = v]
  BY DEF Timed
<1> HIDE DEF v, r
<1>3. /\ r.tempos = s.tempos /\ r.ppqn = s.ppqn
      /\ r.tracks = [s.tracks EXCEPT ![t].events[i].seconds = v]
  BY <1>2 DEF Steady, Orderly, Songlike, SongFields
<1>4. /\ DOMAIN r.tracks = DOMAIN s.tracks
      /\ \A u \in DOMAIN s.tracks : u # t => r.tracks[u] = s.tracks[u]
      /\ r.tracks[t] = [s.tracks[t] EXCEPT !.events[i].seconds = v]
  BY <1>1, <1>3
<1>5. /\ r.tracks[t].next = s.tracks[t].next
      /\ r.tracks[t].events = [s.tracks[t].events EXCEPT ![i].seconds = v]
  BY <1>1, <1>4 DEF Steady, Orderly, Songlike, Tracklike, TrackFields
<1>6. /\ DOMAIN r.tracks[t].events = DOMAIN s.tracks[t].events
      /\ \A j \in DOMAIN s.tracks[t].events : j # i => r.tracks[t].events[j] = s.tracks[t].events[j]
      /\ r.tracks[t].events[i] = [ev EXCEPT !.seconds = v]
  BY <1>1, <1>5
<1>7. EventsIn(r) = EventsIn(s)
  <2>1. \A u \in DOMAIN s.tracks : DOMAIN r.tracks[u].events = DOMAIN s.tracks[u].events
    BY <1>4, <1>6
  <2> QED
    BY <1>4, <2>1 DEF EventsIn
<1>8. Left(r) = Left(s)
  <2>1. \A u \in DOMAIN s.tracks : \A j : Past(r.tracks[u], j) <=> Past(s.tracks[u], j)
    BY <1>4, <1>5 DEF Past
  <2> QED
    BY <1>7, <2>1, EventsAre DEF Left
<1>9. ASSUME NEW e \in EventsIn(s), e # << t, i >>
      PROVE  EventAt(r, e) = EventAt(s, e)
  <2>1. e[1] \in DOMAIN s.tracks /\ e[2] \in DOMAIN s.tracks[e[1]].events /\ e = << e[1], e[2] >>
    BY EventsAre
  <2>2. e[1] # t \/ e[2] # i
    BY <1>9, <2>1
  <2> QED
    BY <1>4, <1>6, <2>1, <2>2 DEF EventAt
<1>10. /\ EventAt(r, << t, i >>).kind = ev.kind /\ EventAt(r, << t, i >>).val = ev.val
       /\ EventAt(r, << t, i >>).pulses = ev.pulses /\ EventAt(r, << t, i >>).seconds = v
       /\ EventAt(s, << t, i >>) = ev
  BY <1>1, <1>6 DEF EventFields, EventAt
<1> QED
  BY <1>3, <1>7, <1>8, <1>9, <1>10 DEF r, v

\* Playing the next event to set its time: what is behind is in step.
Going(r, s) ==
    /\ Steady(r) /\ Placed(r) /\ Linked(r) /\ Valued(r) /\ Known(r)
    /\ EventsIn(r) = EventsIn(s)
    /\ \A e \in Left(r), i \in DOMAIN r.tempos : r.tempos[i].pulses <= EventAt(r, e).pulses
    /\ \A e \in EventsIn(r) \ Left(r) :
          EventAt(r, e).seconds = seconds_from_pulses(r, EventAt(r, e).pulses)

LEMMA MarksAre ==
    ASSUME NEW s
    PROVE  /\ Valued(s) <=> \A e \in EventsIn(s) :
                               EventAt(s, e).kind = "tempo" => EventAt(s, e).val \in Nat
           /\ InStep(s) <=> \A e \in EventsIn(s) :
                               EventAt(s, e).seconds = seconds_from_pulses(s, EventAt(s, e).pulses)
           /\ Known(s) <=> \A i \in DOMAIN s.tempos :
                 \/ s.tempos[i].pulses = 0
                 \/ \E e \in EventsIn(s) :
                       /\ smf_event_is_tempo_change_or_time_signature(EventAt(s, e))
                       /\ EventAt(s, e).pulses = s.tempos[i].pulses
<1>1. \A e \in EventsIn(s) : /\ Mark(EventAt(s, e)) \in Marks(s)
                             /\ Mark(EventAt(s, e)).kind = EventAt(s, e).kind
                             /\ Mark(EventAt(s, e)).val = EventAt(s, e).val
                             /\ Mark(EventAt(s, e)).pulses = EventAt(s, e).pulses
                             /\ Mark(EventAt(s, e)).seconds = EventAt(s, e).seconds
  BY DEF Marks, Mark
<1>2. \A m \in Marks(s) : \E e \in EventsIn(s) : m = Mark(EventAt(s, e))
  BY DEF Marks
<1>3. /\ Valued(s) <=> \A e \in EventsIn(s) :
                               EventAt(s, e).kind = "tempo" => EventAt(s, e).val \in Nat
  BY <1>1, <1>2 DEF Valued
<1>4. InStep(s) <=> \A e \in EventsIn(s) :
                               EventAt(s, e).seconds = seconds_from_pulses(s, EventAt(s, e).pulses)
  BY <1>1, <1>2 DEF InStep
<1>5. Known(s) <=> \A i \in DOMAIN s.tempos :
                 \/ s.tempos[i].pulses = 0
                 \/ \E e \in EventsIn(s) :
                       /\ smf_event_is_tempo_change_or_time_signature(EventAt(s, e))
                       /\ EventAt(s, e).pulses = s.tempos[i].pulses
  <2>1. \A m : smf_event_is_tempo_change_or_time_signature(m) <=> m.kind \in {"tempo", "sig"}
    BY DEF smf_event_is_tempo_change_or_time_signature
  <2> QED
    BY <1>1, <1>2, <2>1 DEF Known
<1> QED
  BY <1>3, <1>4, <1>5

LEMMA PlayTimedGoing ==
    ASSUME NEW s, NEW r, Going(r, s), Left(r) # {}
    PROVE  Going(PlayTimed(r), s) /\ \E e \in Left(r) : Left(PlayTimed(r)) = Left(r) \ {e}
<1> DEFINE t == smf_find_track_with_next_event(r)
           i == r.tracks[t].next
           e == << t, i >>
           ev == EventAt(r, e)
           p == ev.pulses
           q == smf_get_next_event(r)
           a == maybe_add_to_tempo_map(q, ev)
           u == Timed(a, t, i)
<1>1. /\ t # 0 /\ e \in Left(r)
      /\ \A f \in Left(r) : p <= EventAt(r, f).pulses
  BY NextIsFirst DEF Going
<1>2. PlayTimed(r) = u
  BY <1>1 DEF PlayTimed, smf_peek_next_event, EventAt
<1>3. Steady(u) /\ Placed(u)
  BY <1>2, PlayTimedSteady DEF Going, Linked
<1>4. e \in EventsIn(r) /\ p \in Nat
  BY <1>1, EventsAre DEF Going, Left
<1>5. /\ EventsIn(q) = EventsIn(r) /\ Left(q) = Left(r) \ {e}
      /\ \A f \in EventsIn(r) : EventAt(q, f) = EventAt(r, f)
      /\ q.tempos = r.tempos /\ q.ppqn = r.ppqn /\ Steady(q) /\ Placed(q)
  BY <1>1, OneFewer, smf_get_next_eventSteady DEF Going
<1>6. Linked(q) /\ \A x \in Nat : seconds_from_pulses(q, x) = seconds_from_pulses(r, x)
  BY <1>5, SameMap DEF Going
<1>7. Extended(a, q, p) /\ (~smf_event_is_tempo_change_or_time_signature(ev) => a = q) /\ Steady(a)
  <2>1. Songlike(q) /\ IsSequence(q.tempos)
    BY <1>5 DEF Steady, Orderly
  <2>2. q.tempos[Len(q.tempos)].pulses <= p
    <3>1. Len(q.tempos) \in DOMAIN q.tempos
      BY <1>6, SequenceFacts DEF Linked, Begun
    <3> QED
      BY <1>1, <1>5, <3>1 DEF Going
  <2>3. ev.kind = "tempo" => ev.val \in Nat
    BY <1>4, MarksAre DEF Going
  <2> HIDE DEF q, e, ev
  <2>4. Retuned(a, q) /\ Same(a, q)
    BY <2>1, TempoMapRetuned, TempoMapSame
  <2> QED
    BY <1>4, <1>5, <1>6, <2>1, <2>2, <2>3, <2>4, TempoMapLinked, RetunedSteady
<1> HIDE DEF u, a, q, p, ev, t, i, e
<1>8. /\ EventsIn(a) = EventsIn(r) /\ Left(a) = Left(r) \ {e}
      /\ \A f \in EventsIn(r) : EventAt(a, f) = EventAt(r, f)
  BY <1>5, <1>7 DEF Extended, EventsIn, Left, EventAt
<1>9. /\ u.tempos = a.tempos /\ u.ppqn = a.ppqn /\ EventsIn(u) = EventsIn(r) /\ Left(u) = Left(r) \ {e}
      /\ \A f \in EventsIn(r) : /\ f # e => EventAt(u, f) = EventAt(r, f)
                                /\ EventAt(u, f).kind = EventAt(r, f).kind
                                /\ EventAt(u, f).val = EventAt(r, f).val
                                /\ EventAt(u, f).pulses = EventAt(r, f).pulses
      /\ EventAt(u, e).seconds = seconds_from_pulses(a, p)
  BY <1>4, <1>7, <1>8, TimedMeans DEF u, p, ev, e
<1>10. Linked(u) /\ \A x \in Nat : seconds_from_pulses(u, x) = seconds_from_pulses(a, x)
  BY <1>7, <1>9, SameMap DEF Extended
<1>11. Valued(u)
  BY <1>9, MarksAre DEF Going
<1>12. \A j \in DOMAIN u.tempos : \/ j \in DOMAIN r.tempos /\ u.tempos[j].pulses = r.tempos[j].pulses
                                  \/ u.tempos[j].pulses = p /\ smf_event_is_tempo_change_or_time_signature(ev)
  BY <1>5, <1>7, <1>9 DEF Extended
<1>13. Known(u)
  <2> SUFFICES ASSUME NEW j \in DOMAIN u.tempos
               PROVE  \/ u.tempos[j].pulses = 0
                      \/ \E f \in EventsIn(u) :
                            /\ smf_event_is_tempo_change_or_time_signature(EventAt(u, f))
                            /\ EventAt(u, f).pulses = u.tempos[j].pulses
    BY MarksAre
  <2>1. \A f \in EventsIn(r) : smf_event_is_tempo_change_or_time_signature(EventAt(u, f))
                                 <=> smf_event_is_tempo_change_or_time_signature(EventAt(r, f))
    BY <1>9 DEF smf_event_is_tempo_change_or_time_signature
  <2>2. CASE j \in DOMAIN r.tempos /\ u.tempos[j].pulses = r.tempos[j].pulses
    <3>1. \/ r.tempos[j].pulses = 0
          \/ \E f \in EventsIn(r) : /\ smf_event_is_tempo_change_or_time_signature(EventAt(r, f))
                                    /\ EventAt(r, f).pulses = r.tempos[j].pulses
      BY <2>2, MarksAre DEF Going
    <3> QED
      BY <1>9, <2>1, <2>2, <3>1
  <2>3. CASE u.tempos[j].pulses = p /\ smf_event_is_tempo_change_or_time_signature(ev)
    BY <1>4, <1>9, <2>1, <2>3 DEF ev, p
  <2> QED
    BY <1>12, <2>2, <2>3
<1>14. \A f \in Left(u), j \in DOMAIN u.tempos : u.tempos[j].pulses <= EventAt(u, f).pulses
  <2> TAKE f \in Left(u), j \in DOMAIN u.tempos
  <2>1. f \in Left(r) /\ f \in EventsIn(r) /\ EventAt(u, f).pulses = EventAt(r, f).pulses
    BY <1>9 DEF Left
  <2> QED
    BY <1>1, <1>12, <2>1 DEF Going
<1>15. \A f \in EventsIn(u) \ Left(u) :
          EventAt(u, f).seconds = seconds_from_pulses(u, EventAt(u, f).pulses)
  <2> TAKE f \in EventsIn(u) \ Left(u)
  <2>1. f \in EventsIn(r) /\ (f = e \/ f \notin Left(r))
    BY <1>9
  <2>2. EventAt(r, f).pulses \in Nat
    BY <2>1, EventsAre DEF Going
  <2>3. CASE f = e
    BY <1>4, <1>9, <1>10, <2>3 DEF p, ev
  <2>4. CASE f # e /\ f \notin Left(r)
    <3>1. EventAt(r, f).seconds = seconds_from_pulses(r, EventAt(r, f).pulses)
      BY <2>1, <2>4 DEF Going
    <3>2. EventAt(r, f).pulses <= p
      <4>1. /\ f[1] \in DOMAIN r.tracks /\ f[2] \in DOMAIN r.tracks[f[1]].events
            /\ e[1] \in DOMAIN r.tracks /\ e[2] \in DOMAIN r.tracks[e[1]].events
            /\ Past(r.tracks[f[1]], f[2]) /\ ~Past(r.tracks[e[1]], e[2])
        BY <1>1, <1>4, <2>1, <2>4, EventsAre DEF Going, Left
      <4> QED
        BY <4>1 DEF Going, Placed, Behind, p, ev, EventAt
    <3>3. seconds_from_pulses(a, EventAt(r, f).pulses) = seconds_from_pulses(q, EventAt(r, f).pulses)
      BY <1>4, <1>6, <1>7, <2>2, <3>2, SameTime DEF Extended
    <3> QED
      BY <1>6, <1>9, <1>10, <2>1, <2>2, <2>4, <3>1, <3>3
  <2> QED
    BY <2>1, <2>3, <2>4
<1>16. Going(u, s)
  BY <1>3, <1>9, <1>10, <1>11, <1>13, <1>14, <1>15 DEF Going
<1> QED
  BY <1>1, <1>2, <1>9, <1>16

\* The numbers a song counts with: a division, and tempos.
Counted(s) == s.ppqn \in Nat \ {0} /\ Valued(s)

LEMMA MarksKept ==
    ASSUME NEW s, NEW r, r.tempos = s.tempos, r.ppqn = s.ppqn, Marks(r) \subseteq Marks(s)
    PROVE  /\ Counted(s) => Counted(r)
           /\ /\ Synced(s)
              /\ \A m \in Marks(s) : smf_event_is_tempo_change_or_time_signature(m) => m \in Marks(r)
              => Synced(r)
<1>1. Counted(s) => Counted(r)
  BY DEF Counted, Valued
<1>2. \A p : seconds_from_pulses(r, p) = seconds_from_pulses(s, p)
  BY SameMap
<1>3. InStep(s) => InStep(r)
  BY <1>2 DEF InStep
<1>4. Known(s) /\ (\A m \in Marks(s) : smf_event_is_tempo_change_or_time_signature(m) => m \in Marks(r))
         => Known(r)
  BY DEF Known
<1>5. Linked(s) => Linked(r)
  BY SameMap
<1> QED
  BY <1>1, <1>3, <1>4, <1>5 DEF Synced

\* A call that moves the position leaves the events and the tempo map alone.
Unmoved(r, s) ==
    /\ r.tempos = s.tempos /\ r.ppqn = s.ppqn /\ DOMAIN r.tracks = DOMAIN s.tracks
    /\ \A t \in DOMAIN s.tracks : r.tracks[t].events = s.tracks[t].events

LEMMA UnmovedMarks ==
    ASSUME NEW s, NEW r, Unmoved(r, s)
    PROVE  /\ EventsIn(r) = EventsIn(s) /\ \A e \in EventsIn(s) : EventAt(r, e) = EventAt(s, e)
           /\ Counted(s) => Counted(r)
           /\ Synced(s) => Synced(r)
<1>1. EventsIn(r) = EventsIn(s)
  BY DEF EventsIn, Unmoved
<1>2. \A e \in EventsIn(s) : EventAt(r, e) = EventAt(s, e)
  BY DEF EventsIn, EventAt, Unmoved
<1>3. Marks(r) = Marks(s)
  BY <1>1, <1>2 DEF Marks
<1> QED
  BY <1>1, <1>2, <1>3, MarksKept DEF Unmoved

LEMMA PositionUnmoved ==
    ASSUME NEW s, Songlike(s)
    PROVE  /\ Unmoved(s, s) /\ Unmoved(smf_rewind(s), s) /\ Unmoved(smf_get_next_event(s), s)
           /\ \A why : Unmoved(Abort(s, why), s)
           /\ \A v : Unmoved([s EXCEPT !.seek = v], s)
<1>1. Unmoved(s, s)
  BY DEF Unmoved
<1>2. Unmoved(smf_rewind(s), s)
  <2>1. \A t \in DOMAIN s.tracks : FromStart(s.tracks[t]).events = s.tracks[t].events
    BY DEF FromStart, Songlike, Tracklike, TrackFields
  <2>2. /\ smf_rewind(s).tracks = [t \in DOMAIN s.tracks |-> FromStart(s.tracks[t])]
        /\ smf_rewind(s).tempos = s.tempos /\ smf_rewind(s).ppqn = s.ppqn
    BY DEF smf_rewind, Songlike, SongFields
  <2> QED
    BY <2>1, <2>2 DEF Unmoved
<1>3. ASSUME NEW why PROVE Unmoved(Abort(s, why), s)
  BY DEF Abort, Unmoved, Songlike, SongFields
<1>4. Unmoved(smf_get_next_event(s), s)
  <2> DEFINE t == smf_find_track_with_next_event(s)
             tr == smf_track_get_next_event(s.tracks[t])
             r == [s EXCEPT !.tracks[t] = smf_track_get_next_event(@), !.seek = -1]
  <2>1. smf_get_next_event(s) = IF t = 0 THEN s ELSE IF Astray(s) THEN Abort(s, "event") ELSE r
    BY DEF smf_get_next_event
  <2>2. r.tempos = s.tempos /\ r.ppqn = s.ppqn /\ r.tracks = [s.tracks EXCEPT ![t] = tr]
    BY DEF Songlike, SongFields
  <2>3. t \in DOMAIN s.tracks => tr.events = s.tracks[t].events
    BY DEF smf_track_get_next_event, Songlike, Tracklike, TrackFields
  <2> HIDE DEF t, tr, r
  <2>4. Unmoved(r, s)
    BY <2>2, <2>3 DEF Unmoved
  <2> QED
    BY <1>1, <1>3, <2>1, <2>4
<1>5. ASSUME NEW v PROVE Unmoved([s EXCEPT !.seek = v], s)
  BY DEF Unmoved, Songlike, SongFields
<1> QED
  BY <1>1, <1>2, <1>3, <1>4, <1>5

LEMMA SkipUnmoved ==
    ASSUME NEW s, Songlike(s), NEW before
    PROVE  Unmoved(SkipFromStart(s, before), s) /\ Songlike(SkipFromStart(s, before))
<1> DEFINE first == smf_rewind(s)
           n == Cardinality(EventsIn(s)) + 1
           h == CHOOSE g : Skipping(g, before, first, n)
           Good(r) == Unmoved(r, s) /\ Songlike(r)
           S == {k \in 0 .. n : Good(h[k])}
<1>1. n \in Nat
  BY FinitelyManyEvents
<1>2. Good(first)
  BY PositionUnmoved, smf_rewindSame, SameSonglike
<1>3. SkipFromStart(s, before) = h[n]
  BY DEF SkipFromStart, Iterate, Skipping, Skip
<1> HIDE DEF n, first
<1>4. h = [k \in 0 .. n |-> IF k = 0 THEN first ELSE Skip(h[k - 1], before)]
  <2>1. Skipping(h, before, first, n)
    BY <1>1, SkipIterated
  <2> HIDE DEF h
  <2> QED
    BY <2>1 DEF Skipping
<1> HIDE DEF h
<1>5. ASSUME NEW r, Good(r)
      PROVE  Good(Skip(r, before))
  <2>1. /\ Unmoved(smf_get_next_event(r), r) /\ Songlike(smf_get_next_event(r))
    BY <1>5, PositionUnmoved, smf_get_next_eventSame, SameSonglike
  <2>2. Good(smf_get_next_event(r))
    BY <1>5, <2>1 DEF Unmoved
  <2> HIDE DEF Good
  <2> QED
    BY <1>5, <2>2 DEF Skip
<1> HIDE DEF Good
<1>6. \A k \in S : k < n => k + 1 \in S
  BY <1>1, <1>4, <1>5
<1>7. 0 \in S
  BY <1>1, <1>2, <1>4
<1>8. S = 0 .. n
  <2> HIDE DEF S
  <2>1. S \in SUBSET (0 .. n)
    BY DEF S
  <2> QED
    BY <1>1, <1>6, <1>7, <2>1, Induction
<1>9. Good(h[n])
  BY <1>1, <1>8
<1> QED
  BY <1>3, <1>9 DEF Good

LEMMA SeekUnmoved ==
    ASSUME NEW s, Songlike(s), NEW r,
           \/ \E e : r = smf_seek_to_event(s, e)
           \/ \E p : r = smf_seek_to_pulses(s, p)
           \/ \E x : r = smf_seek_to_seconds(s, x)
    PROVE  Unmoved(r, s)
<1>1. r = s \/ \E before, v : r \in {SkipFromStart(s, before), [SkipFromStart(s, before) EXCEPT !.seek = v]}
  BY DEF smf_seek_to_event, smf_seek_to_pulses, smf_seek_to_seconds
<1>2. CASE r = s
  BY <1>2, PositionUnmoved
<1>3. CASE \E before, v : r \in {SkipFromStart(s, before), [SkipFromStart(s, before) EXCEPT !.seek = v]}
  <2>1. PICK before, v : r \in {SkipFromStart(s, before), [SkipFromStart(s, before) EXCEPT !.seek = v]}
    BY <1>3
  <2> DEFINE q == SkipFromStart(s, before)
  <2>2. Unmoved(q, s) /\ Songlike(q)
    BY SkipUnmoved
  <2> HIDE DEF q
  <2>3. Unmoved(q, q) /\ Unmoved([q EXCEPT !.seek = v], q)
    BY <2>2, PositionUnmoved
  <2> QED
    BY <2>1, <2>2, <2>3 DEF Unmoved, q
<1> QED
  BY <1>1, <1>2, <1>3

\* The map made anew: the song is gone through from its start to its end, and
\* then all of it is in step.
LEMMA smf_create_tempo_mapSynced ==
    ASSUME NEW s, Steady(s), Counted(s), InitialTempo \in Nat \ {0}
    PROVE  /\ Synced(smf_create_tempo_map_and_compute_seconds(s))
           /\ Counted(smf_create_tempo_map_and_compute_seconds(s))
<1> DEFINE all == EventsIn(s)
           q == smf_rewind(s)
           first == smf_init_tempo(q)
           n == Cardinality(all)
           h == CHOOSE g : Timing(g, first, n)
           Good(r, m) == Going(r, s) /\ IsFiniteSet(Left(r)) /\ Cardinality(Left(r)) = m
           S == {k \in 0 .. n : Good(h[k], n - k)}
<1>1. n \in Nat /\ IsFiniteSet(all)
  BY FinitelyManyEvents DEF Steady, Orderly
<1>2. Good(first, n)
  <2>1. /\ Steady(q) /\ Placed(q) /\ Songlike(q) /\ Unmoved(q, s) /\ Counted(q)
    BY smf_rewindSteady, PositionUnmoved, UnmovedMarks DEF Steady, Orderly
  <2>2. \A t \in DOMAIN s.tracks : \A i \in DOMAIN s.tracks[t].events : ~Past(q.tracks[t], i)
    <3>1. q.tracks = [t \in DOMAIN s.tracks |-> FromStart(s.tracks[t])]
      BY DEF smf_rewind, Steady, Orderly, Songlike, SongFields
    <3> QED
      BY <3>1, FromStartReady DEF Steady, Orderly, Songlike
  <2> HIDE DEF q
  <2>3. EventsIn(q) = all /\ \A e \in all : EventAt(q, e) = EventAt(s, e)
    BY <2>1, UnmovedMarks
  <2>4. Left(q) = all
    BY <2>2, <2>3, EventsAre DEF Left
  <2>5. Retuned(first, q) /\ Same(first, q)
    BY <2>1, TempoMapRetuned, TempoMapSame DEF Steady, Orderly
  <2>6. Steady(first) /\ Placed(first)
    BY <2>1, <2>5, RetunedSteady
  <2>7. /\ Linked(first) /\ first.tracks = q.tracks /\ Len(first.tempos) = 1
    BY <2>1, smf_init_tempoLinked DEF Counted
  <2> HIDE DEF first
  <2>8. /\ EventsIn(first) = all /\ Left(first) = all
        /\ \A e \in all : EventAt(first, e) = EventAt(s, e)
    BY <2>3, <2>4, <2>7 DEF EventsIn, EventAt, Left
  <2>9. \A i \in DOMAIN first.tempos : first.tempos[i].pulses = 0
    <3>1. DOMAIN first.tempos = 1 .. 1
      BY <2>7, SequenceFacts DEF Linked
    <3> QED
      BY <2>7, <3>1 DEF Linked, Begun
  <2>10. Valued(first) /\ Known(first)
    BY <2>8, <2>9, MarksAre DEF Counted
  <2>11. \A e \in all : EventAt(first, e).pulses \in Nat
    BY <2>8, EventsAre
  <2>12. Going(first, s)
    BY <2>6, <2>7, <2>8, <2>9, <2>10, <2>11 DEF Going
  <2> QED
    BY <1>1, <2>8, <2>12
<1>3. smf_create_tempo_map_and_compute_seconds(s) = h[n]
  BY DEF smf_create_tempo_map_and_compute_seconds, Iterate, Timing
<1> HIDE DEF n, first
<1>4. h = [k \in 0 .. n |-> IF k = 0 THEN first ELSE PlayTimed(h[k - 1])]
  <2>1. Timing(h, first, n)
    BY <1>1, PlayTimedIterated
  <2> HIDE DEF h
  <2> QED
    BY <2>1 DEF Timing
<1> HIDE DEF h
<1>5. ASSUME NEW r, NEW m \in Nat, m # 0, Good(r, m)
      PROVE  Good(PlayTimed(r), m - 1)
  <2>1. Left(r) # {}
    BY <1>5, FS_EmptySet
  <2>2. Going(PlayTimed(r), s) /\ \E e \in Left(r) : Left(PlayTimed(r)) = Left(r) \ {e}
    BY <1>5, <2>1, PlayTimedGoing
  <2> QED
    BY <1>5, <2>2, FS_RemoveElement
<1> HIDE DEF Good
<1>6. \A k \in S : k < n => k + 1 \in S
  <2> TAKE k \in S
  <2> HAVE k < n
  <2>1. k + 1 \in 0 .. n /\ h[k + 1] = PlayTimed(h[k])
    BY <1>1, <1>4
  <2>2. n - k \in Nat /\ n - k # 0 /\ (n - k) - 1 = n - (k + 1)
    BY <1>1
  <2> QED
    BY <1>5, <2>1, <2>2
<1>7. 0 \in S
  BY <1>1, <1>2, <1>4
<1>8. S = 0 .. n
  <2> HIDE DEF S
  <2>1. S \in SUBSET (0 .. n)
    BY DEF S
  <2> QED
    BY <1>1, <1>6, <1>7, <2>1, Induction
<1>9. Good(h[n], 0)
  <2>1. n \in S /\ n - n = 0
    BY <1>1, <1>8
  <2> QED
    BY <2>1
<1>10. Going(h[n], s) /\ Left(h[n]) = {}
  BY <1>9, FS_EmptySet DEF Good
<1>11. InStep(h[n])
  BY <1>10, MarksAre DEF Going
<1> QED
  BY <1>3, <1>10, <1>11 DEF Going, Synced, Counted, Linked

\* The marks of a song, track by track.
LEMMA MarksOf ==
    ASSUME NEW s
    PROVE  /\ \A m \in Marks(s) : \E t \in DOMAIN s.tracks : \E i \in DOMAIN s.tracks[t].events :
                 m = Mark(s.tracks[t].events[i])
           /\ \A t \in DOMAIN s.tracks : \A i \in DOMAIN s.tracks[t].events :
                 Mark(s.tracks[t].events[i]) \in Marks(s)
<1>1. \A t \in DOMAIN s.tracks : \A i \in DOMAIN s.tracks[t].events :
          << t, i >> \in EventsIn(s) /\ EventAt(s, << t, i >>) = s.tracks[t].events[i]
  BY DEF EventsIn, EventAt
<1>2. \A e \in EventsIn(s) : /\ e[1] \in DOMAIN s.tracks /\ e[2] \in DOMAIN s.tracks[e[1]].events
                             /\ EventAt(s, e) = s.tracks[e[1]].events[e[2]]
  BY DEF EventsIn, EventAt
<1>3. ASSUME NEW m \in Marks(s)
      PROVE  \E t \in DOMAIN s.tracks : \E i \in DOMAIN s.tracks[t].events : m = Mark(s.tracks[t].events[i])
  <2>1. PICK e \in EventsIn(s) : m = Mark(EventAt(s, e))
    BY <1>3 DEF Marks
  <2> QED
    BY <1>2, <2>1
<1>4. ASSUME NEW t \in DOMAIN s.tracks, NEW i \in DOMAIN s.tracks[t].events
      PROVE  Mark(s.tracks[t].events[i]) \in Marks(s)
  BY <1>1, <1>4 DEF Marks
<1> QED
  BY <1>3, <1>4

\* A track without one of its events has the marks of the others.
LEMMA RestMarks ==
    ASSUME NEW es, InOrder(es), NEW i \in DOMAIN es
    PROVE  /\ \A j \in DOMAIN Rest(es, i) : \E k \in DOMAIN es : Mark(Rest(es, i)[j]) = Mark(es[k])
           /\ \A k \in DOMAIN es : k # i =>
                 \E j \in DOMAIN Rest(es, i) : Mark(Rest(es, i)[j]) = Mark(es[k])
           /\ i = Len(es) => \A j \in DOMAIN Rest(es, i) : j \in DOMAIN es /\ j # i /\ Rest(es, i)[j] = es[j]
<1> DEFINE n == Len(es)
           rest == Rest(es, i)
<1>1. n \in Nat /\ DOMAIN es = 1 .. n /\ DOMAIN rest = 1 .. n - 1
  BY SequenceFacts, RestSequence DEF InOrder
<1>2. ASSUME NEW j \in 1 .. n - 1
      PROVE  /\ j < i => rest[j] = es[j]
             /\ ~(j < i) => Mark(rest[j]) = Mark(es[j + 1])
  <2>1. j < i => rest[j] = es[j]
    BY DEF Rest
  <2>2. ASSUME ~(j < i) PROVE Mark(rest[j]) = Mark(es[j + 1])
    <3> DEFINE e == es[j + 1]
               d == IF j + 1 = i + 1 THEN e.delta + es[i].delta ELSE e.delta
    <3>1. EventFields \subseteq DOMAIN e
      BY <1>1 DEF InOrder
    <3>2. rest[j] = [e EXCEPT !.number = (j + 1) - 1, !.delta = d]
      BY <2>2, <3>1 DEF Rest, EventFields
    <3> HIDE DEF rest, d, e
    <3>3. /\ rest[j].kind = e.kind /\ rest[j].val = e.val
          /\ rest[j].pulses = e.pulses /\ rest[j].seconds = e.seconds
      BY <3>1, <3>2 DEF EventFields
    <3> QED
      BY <3>3 DEF Mark, e
  <2> QED
    BY <2>1, <2>2
<1> HIDE DEF rest, n
<1>3. ASSUME NEW j \in 1 .. n - 1 PROVE \E k \in 1 .. n : Mark(rest[j]) = Mark(es[k])
  BY <1>1, <1>2
<1>4. ASSUME NEW k \in 1 .. n, k # i PROVE \E j \in 1 .. n - 1 : Mark(rest[j]) = Mark(es[k])
  <2>1. CASE k < i
    BY <1>1, <1>2, <2>1
  <2>2. CASE ~(k < i)
    <3>1. k - 1 \in 1 .. n - 1 /\ ~(k - 1 < i) /\ (k - 1) + 1 = k
      BY <1>1, <1>4, <2>2
    <3> QED
      BY <1>2, <3>1
  <2> QED
    BY <2>1, <2>2
<1>5. ASSUME i = n, NEW j \in 1 .. n - 1 PROVE j \in 1 .. n /\ j # i /\ rest[j] = es[j]
  BY <1>1, <1>2, <1>5
<1> QED
  BY <1>1, <1>3, <1>4, <1>5 DEF rest, n

LEMMA WithoutMarks ==
    ASSUME NEW s, Steady(s), NEW t \in DOMAIN s.tracks, NEW i \in DOMAIN s.tracks[t].events
    PROVE  /\ Without(s, t, i).tempos = s.tempos /\ Without(s, t, i).ppqn = s.ppqn
           /\ Marks(Without(s, t, i)) \subseteq Marks(s)
           /\ \A e \in EventsIn(s) : e # << t, i >> => Mark(EventAt(s, e)) \in Marks(Without(s, t, i))
<1> DEFINE q == Without(s, t, i)
           es == s.tracks[t].events
<1>1. q.tempos = s.tempos /\ q.ppqn = s.ppqn
  BY DEF Without, Steady, Orderly, Songlike, SongFields
<1>2. /\ DOMAIN q.tracks = DOMAIN s.tracks
      /\ \A u \in DOMAIN s.tracks :
            q.tracks[u].events = IF u = t THEN Rest(es, i) ELSE s.tracks[u].events
  BY WithoutSteady
<1>3. InOrder(es)
  BY DEF Steady, Orderly
<1> HIDE DEF q
<1>4. ASSUME NEW m \in Marks(q) PROVE m \in Marks(s)
  <2>1. PICK u, j : u \in DOMAIN s.tracks /\ j \in DOMAIN q.tracks[u].events /\ m = Mark(q.tracks[u].events[j])
    BY <1>2, MarksOf
  <2>2. \E k \in DOMAIN s.tracks[u].events : m = Mark(s.tracks[u].events[k])
    <3>1. CASE u = t
      BY <1>2, <1>3, <2>1, <3>1, RestMarks
    <3>2. CASE u # t
      BY <1>2, <2>1, <3>2
    <3> QED
      BY <3>1, <3>2
  <2> QED
    BY <2>1, <2>2, MarksOf
<1>5. ASSUME NEW e \in EventsIn(s), e # << t, i >> PROVE Mark(EventAt(s, e)) \in Marks(q)
  <2>1. /\ e[1] \in DOMAIN s.tracks /\ e[2] \in DOMAIN s.tracks[e[1]].events
        /\ e[1] # t \/ e[2] # i
    BY <1>5, EventsAre
  <2>2. \E j \in DOMAIN q.tracks[e[1]].events : Mark(q.tracks[e[1]].events[j]) = Mark(EventAt(s, e))
    <3>1. CASE e[1] = t
      BY <1>2, <1>3, <2>1, <3>1, RestMarks DEF EventAt
    <3>2. CASE e[1] # t
      BY <1>2, <2>1, <3>2 DEF EventAt
    <3> QED
      BY <3>1, <3>2
  <2> QED
    BY <1>2, <2>1, <2>2, MarksOf
<1> QED
  BY <1>1, <1>4, <1>5 DEF q

\* Renumbering the sorted events keeps the marks.
LEMMA NumberedMarks ==
    ASSUME NEW sorted, NEW at, NEW k \in DOMAIN sorted, EventFields \subseteq DOMAIN sorted[k]
    PROVE  k \in DOMAIN Numbered(sorted, at) /\ Mark(Numbered(sorted, at)[k]) = Mark(sorted[k])
<1> DEFINE g == Numbered(sorted, at)
           e == sorted[k]
           d == IF k = at THEN Gap(sorted, at) ELSE IF k = at + 1 THEN e.delta - Gap(sorted, at) ELSE e.delta
<1>1. k \in DOMAIN g /\ g[k] = [e EXCEPT !.number = k, !.delta = d]
  BY DEF Numbered, EventFields
<1> HIDE DEF g, d
<1>2. g[k].kind = e.kind /\ g[k].val = e.val /\ g[k].pulses = e.pulses /\ g[k].seconds = e.seconds
  BY <1>1 DEF EventFields
<1> QED
  BY <1>1, <1>2 DEF Mark, g

\* A track with one more event has its mark, and those it had.
LEMMA PlaceMarks ==
    ASSUME NEW es, InOrder(es), NEW ev, EventFields \subseteq DOMAIN ev,
           ev.pulses \in Nat, ev.number = 0, ev.delta = -1
    PROVE  /\ \A j \in DOMAIN Place(es, ev) :
                 \/ Mark(Place(es, ev)[j]) = Mark(ev)
                 \/ \E k \in DOMAIN es : Mark(Place(es, ev)[j]) = Mark(es[k])
           /\ \E j \in DOMAIN Place(es, ev) : Mark(Place(es, ev)[j]) = Mark(ev)
           /\ \A k \in DOMAIN es :
                 \E j \in DOMAIN Place(es, ev) : Mark(Place(es, ev)[j]) = Mark(es[k])
<1> DEFINE n == Len(es)
           before == IF es = << >> THEN 0 ELSE Last(es).pulses
           sorted == g_ptr_array_sort(Append(es, ev))
           at == CHOOSE k \in DOMAIN sorted : sorted[k].delta = -1
           new == [ev EXCEPT !.delta = ev.pulses - before, !.number = n + 1]
           longer == Append(es, new)
           more == Place(es, ev)
           Covers(fs) == /\ \A j \in DOMAIN fs : \/ Mark(fs[j]) = Mark(ev)
                                                 \/ \E k \in DOMAIN es : Mark(fs[j]) = Mark(es[k])
                         /\ \E j \in DOMAIN fs : Mark(fs[j]) = Mark(ev)
                         /\ \A k \in DOMAIN es : \E j \in DOMAIN fs : Mark(fs[j]) = Mark(es[k])
<1>1. n \in Nat /\ n = Len(es) /\ DOMAIN es = 1 .. n /\ (es = << >> <=> n = 0)
  BY SequenceFacts DEF InOrder
<1>2. more = IF before <= ev.pulses THEN longer ELSE Numbered(sorted, at)
  BY DEF Place
<1> HIDE DEF n
<1>3. CASE before <= ev.pulses
  <2>1. Mark(new) = Mark(ev)
    <3> DEFINE d == ev.pulses - before
               m == n + 1
    <3> HIDE DEF d, m
    <3>1. LET e == [ev EXCEPT !.delta = d, !.number = m]
          IN  e.kind = ev.kind /\ e.val = ev.val /\ e.pulses = ev.pulses /\ e.seconds = ev.seconds
      BY DEF EventFields
    <3> QED
      BY <3>1 DEF Mark, d, m
  <2> HIDE DEF new
  <2>2. DOMAIN longer = 1 .. n + 1 /\ (\A i \in 1 .. n : longer[i] = es[i]) /\ longer[n + 1] = new
    BY <1>1, AppendedSequence, SequenceFacts DEF InOrder
  <2> HIDE DEF longer
  <2>3. /\ \A j \in 1 .. n + 1 : j \in 1 .. n \/ j = n + 1
        /\ n + 1 \in 1 .. n + 1 /\ \A k \in 1 .. n : k \in 1 .. n + 1
    BY <1>1
  <2>4. Covers(longer)
    BY <1>1, <2>1, <2>2, <2>3
  <2> HIDE DEF Covers
  <2> QED
    BY <1>2, <1>3, <2>4 DEF Covers
<1>4. CASE ~(before <= ev.pulses)
  <2>1. es # << >> /\ n # 0 /\ n \in 1 .. n /\ es[n].pulses > ev.pulses
    <3>1. before = IF n = 0 THEN 0 ELSE es[n].pulses
      BY <1>1 DEF Last
    <3>2. n # 0
      BY <1>4, <3>1
    <3>3. n \in 1 .. n /\ es[n].pulses \in Nat
      BY <1>1, <3>2 DEF InOrder
    <3> QED
      BY <1>1, <1>4, <3>1, <3>2, <3>3
  <2>2. PICK m \in 0 .. Len(es) - 1 : Inserts(sorted, es, ev, m)
    BY <1>1, <2>1, SortInserts
  <2> HIDE DEF sorted
  <2>3. m \in 0 .. n - 1 /\ DOMAIN sorted = 1 .. n + 1
        /\ (\A k \in 1 .. m : sorted[k] = es[k]) /\ sorted[m + 1] = ev
        /\ (\A k \in m + 2 .. n + 1 : sorted[k] = es[k - 1])
    BY <1>1, <2>2 DEF Inserts
  <2>4. ASSUME NEW k \in 1 .. n + 1
        PROVE  sorted[k] = ev \/ \E i \in 1 .. n : sorted[k] = es[i]
    <3>1. CASE k \in 1 .. m
      BY <1>1, <2>3, <3>1
    <3>2. CASE k = m + 1
      BY <2>3, <3>2
    <3>3. CASE k \in m + 2 .. n + 1
      <4>1. k - 1 \in 1 .. n
        BY <1>1, <2>3, <3>3
      <4> QED
        BY <2>3, <3>3, <4>1
    <3> QED
      BY <1>1, <2>3, <3>1, <3>2, <3>3
  <2>5. ASSUME NEW i \in 1 .. n PROVE \E k \in 1 .. n + 1 : sorted[k] = es[i]
    <3>1. CASE i <= m
      <4>1. i \in 1 .. m /\ i \in 1 .. n + 1
        BY <1>1, <2>3, <3>1
      <4> QED
        BY <2>3, <4>1
    <3>2. CASE ~(i <= m)
      <4>1. i + 1 \in m + 2 .. n + 1 /\ i + 1 \in 1 .. n + 1 /\ (i + 1) - 1 = i
        BY <1>1, <2>3, <3>2
      <4> QED
        BY <2>3, <4>1
    <3> QED
      BY <3>1, <3>2
  <2>6. m + 1 \in 1 .. n + 1
    BY <1>1, <2>3
  <2>7. \A i \in 1 .. n : EventFields \subseteq DOMAIN es[i]
    BY <1>1 DEF InOrder
  <2>8. ASSUME NEW k \in 1 .. n + 1 PROVE EventFields \subseteq DOMAIN sorted[k]
    BY <2>4, <2>7
  <2>9. DOMAIN more = 1 .. n + 1 /\ \A k \in 1 .. n + 1 : Mark(more[k]) = Mark(sorted[k])
    <3>1. more = Numbered(sorted, at)
      BY <1>2, <1>4
    <3>2. DOMAIN more = 1 .. n + 1
      BY <2>3, <3>1 DEF Numbered
    <3> HIDE DEF more, at, before
    <3>3. ASSUME NEW k \in 1 .. n + 1 PROVE Mark(more[k]) = Mark(sorted[k])
      <4>1. k \in DOMAIN sorted /\ EventFields \subseteq DOMAIN sorted[k]
        BY <2>3, <2>8
      <4> QED
        BY <3>1, <4>1, NumberedMarks
    <3> QED
      BY <3>2, <3>3
  <2> HIDE DEF more
  <2>10. Covers(more)
    <3>1. \A j \in 1 .. n + 1 : \/ Mark(more[j]) = Mark(ev)
                                \/ \E k \in 1 .. n : Mark(more[j]) = Mark(es[k])
      BY <2>4, <2>9
    <3>2. Mark(more[m + 1]) = Mark(ev)
      BY <2>3, <2>6, <2>9
    <3>3. \A k \in 1 .. n : \E j \in 1 .. n + 1 : Mark(more[j]) = Mark(es[k])
      BY <2>5, <2>9
    <3>4. DOMAIN es = 1 .. n /\ DOMAIN more = 1 .. n + 1
      BY <1>1, <2>9
    <3>5. \E j \in 1 .. n + 1 : Mark(more[j]) = Mark(ev)
      BY <2>6, <3>2
    <3> HIDE DEF before, at
    <3>6. \A j \in DOMAIN more : \/ Mark(more[j]) = Mark(ev)
                                 \/ \E k \in DOMAIN es : Mark(more[j]) = Mark(es[k])
      BY <3>1, <3>4
    <3>7. \E j \in DOMAIN more : Mark(more[j]) = Mark(ev)
      BY <3>4, <3>5
    <3>8. \A k \in DOMAIN es : \E j \in DOMAIN more : Mark(more[j]) = Mark(es[k])
      BY <3>3, <3>4
    <3> QED
      BY <3>6, <3>7, <3>8
  <2> HIDE DEF Covers
  <2> QED
    BY <2>10 DEF Covers, more
<1> QED
  BY <1>3, <1>4

LEMMA WithMarks ==
    ASSUME NEW s, Steady(s), NEW t \in DOMAIN s.tracks, NEW ev, EventFields \subseteq DOMAIN ev,
           ev.pulses \in Nat, ev.number = 0, ev.delta = -1
    PROVE  /\ With(s, t, ev).tempos = s.tempos /\ With(s, t, ev).ppqn = s.ppqn
           /\ Marks(With(s, t, ev)) = Marks(s) \cup {Mark(ev)}
<1> DEFINE tr == s.tracks[t]
           own == tr.number
           mine == [ev EXCEPT !.track = own]
           es == Place(tr.events, mine)
           q == With(s, t, ev)
<1>1. Tracklike(tr) /\ InOrder(tr.events)
  BY DEF Steady, Orderly, Songlike
<1>2. /\ q.tempos = s.tempos /\ q.ppqn = s.ppqn /\ DOMAIN q.tracks = DOMAIN s.tracks
      /\ \A u \in DOMAIN s.tracks : u # t => q.tracks[u] = s.tracks[u]
      /\ q.tracks[t].events = es
  <2> DEFINE next == IF tr.events = << >> THEN 1 ELSE tr.next
             placed == [tr EXCEPT !.events = es, !.next = next]
  <2>1. q = [s EXCEPT !.tracks[t] = placed]
    BY <1>1 DEF With, Tracklike, TrackFields
  <2> HIDE DEF q, next, es, tr
  <2>2. placed.events = es
    BY <1>1 DEF Tracklike, TrackFields
  <2> HIDE DEF placed
  <2> QED
    BY <2>1, <2>2 DEF Steady, Orderly, Songlike, SongFields
<1>3. /\ EventFields \subseteq DOMAIN mine /\ mine.pulses = ev.pulses /\ mine.number = 0
      /\ mine.delta = -1 /\ Mark(mine) = Mark(ev)
  <2> HIDE DEF own
  <2>1. /\ EventFields \subseteq DOMAIN mine /\ mine.pulses = ev.pulses /\ mine.number = 0
        /\ mine.delta = -1 /\ mine.kind = ev.kind /\ mine.val = ev.val /\ mine.seconds = ev.seconds
    BY DEF EventFields
  <2> QED
    BY <2>1 DEF Mark
<1> HIDE DEF mine, q
<1>4. /\ \A j \in DOMAIN es : Mark(es[j]) = Mark(ev) \/ \E k \in DOMAIN tr.events : Mark(es[j]) = Mark(tr.events[k])
      /\ \E j \in DOMAIN es : Mark(es[j]) = Mark(ev)
      /\ \A k \in DOMAIN tr.events : \E j \in DOMAIN es : Mark(es[j]) = Mark(tr.events[k])
  BY <1>1, <1>3, PlaceMarks
<1> HIDE DEF es
<1>5. ASSUME NEW m \in Marks(q) PROVE m \in Marks(s) \cup {Mark(ev)}
  <2>1. PICK u, j : u \in DOMAIN s.tracks /\ j \in DOMAIN q.tracks[u].events /\ m = Mark(q.tracks[u].events[j])
    BY <1>2, MarksOf
  <2>2. CASE u = t
    BY <1>2, <1>4, <2>1, <2>2, MarksOf
  <2>3. CASE u # t
    BY <1>2, <2>1, <2>3, MarksOf
  <2> QED
    BY <2>2, <2>3
<1>6. Mark(ev) \in Marks(q)
  BY <1>2, <1>4, MarksOf
<1>7. ASSUME NEW m \in Marks(s) PROVE m \in Marks(q)
  <2>1. PICK u, j : u \in DOMAIN s.tracks /\ j \in DOMAIN s.tracks[u].events /\ m = Mark(s.tracks[u].events[j])
    BY MarksOf
  <2>2. CASE u = t
    BY <1>2, <1>4, <2>1, <2>2, MarksOf
  <2>3. CASE u # t
    BY <1>2, <2>1, <2>3, MarksOf
  <2> QED
    BY <2>2, <2>3
<1> QED
  BY <1>2, <1>5, <1>6, <1>7 DEF q

LEMMA MarksTimed ==
    ASSUME NEW s, Steady(s)
    PROVE  \A m \in Marks(s) : m.pulses \in Nat /\ m.pulses <= smf_get_length_pulses(s)
<1> TAKE m \in Marks(s)
<1>1. PICK t, i : t \in DOMAIN s.tracks /\ i \in DOMAIN s.tracks[t].events /\ m = Mark(s.tracks[t].events[i])
  BY MarksOf
<1> DEFINE es == s.tracks[t].events
           n == Len(es)
           length == smf_get_length_pulses(s)
<1>2. InOrder(es) /\ n \in Nat /\ DOMAIN es = 1 .. n
  BY <1>1, SequenceFacts DEF Steady, Orderly, InOrder
<1>3. i \in 1 .. n /\ n \in 1 .. n /\ es[i].pulses \in Nat /\ es[n].pulses \in Nat /\ es[i].pulses <= es[n].pulses
  BY <1>1, <1>2, NoneEarlier DEF InOrder
<1>4. last_event_pulses(s.tracks[t]) = es[n].pulses
  <2>1. es # << >>
    BY <1>2, <1>3
  <2> QED
    BY <2>1 DEF last_event_pulses, Last
<1>5. length \in Nat /\ ~(length < es[n].pulses)
  <2>1. length \in Nat /\ \A p \in Nat : (\E u \in DOMAIN s.tracks : last_event_pulses(s.tracks[u]) > p) => length > p
    BY LengthReached DEF Steady
  <2> HIDE DEF length
  <2> SUFFICES ASSUME length < es[n].pulses PROVE FALSE
    BY <2>1
  <2>2. last_event_pulses(s.tracks[t]) > length
    BY <1>3, <1>4, <2>1
  <2>3. length > length
    BY <1>1, <2>1, <2>2
  <2> QED
    BY <2>1, <2>3
<1>6. m.pulses = es[i].pulses
  BY <1>1 DEF Mark
<1> HIDE DEF length
<1> QED
  BY <1>3, <1>5, <1>6 DEF length

LEMMA TempoMapPpqn ==
    ASSUME NEW s, Songlike(s)
    PROVE  /\ \A ev : maybe_add_to_tempo_map(s, ev).ppqn = s.ppqn
           /\ \A p : remove_last_tempo_with_pulses(s, p).ppqn = s.ppqn
<1>1. ASSUME NEW ev PROVE maybe_add_to_tempo_map(s, ev).ppqn = s.ppqn
  <2> DEFINE q == new_tempo(s, ev.pulses)
  <2>1. q.ppqn = s.ppqn /\ SongFields \subseteq DOMAIN q
    BY DEF new_tempo, Songlike, SongFields
  <2> HIDE DEF q
  <2>2. LastTempo(q, ev).ppqn = q.ppqn
    BY <2>1 DEF LastTempo, SongFields
  <2> QED
    BY <2>1, <2>2 DEF maybe_add_to_tempo_map, q
<1>2. ASSUME NEW p PROVE remove_last_tempo_with_pulses(s, p).ppqn = s.ppqn
  BY DEF remove_last_tempo_with_pulses, Songlike, SongFields
<1> QED
  BY <1>1, <1>2

\* Another tempo map beside the same tracks.
LEMMA TracksMarks ==
    ASSUME NEW s, NEW r, r.tracks = s.tracks, r.ppqn = s.ppqn
    PROVE  Marks(r) = Marks(s) /\ (Counted(s) => Counted(r))
<1>1. Marks(r) = Marks(s)
  BY DEF Marks, EventsIn, EventAt
<1> QED
  BY <1>1 DEF Counted, Valued

\* No other event changes the tempo where this one does.
Alone(s, t, i) ==
    \A e \in EventsIn(s) :
        /\ smf_event_is_tempo_change_or_time_signature(EventAt(s, e))
        /\ EventAt(s, e).pulses = s.tracks[t].events[i].pulses
        => e = << t, i >>

\* An event is removed: the rest stays in step, if a change of the tempo was
\* the only one at its place and not at the start.
LEMMA smf_event_removeSynced ==
    ASSUME NEW s, Steady(s), Counted(s), InitialTempo \in Nat \ {0},
           NEW t \in DOMAIN s.tracks, NEW i \in DOMAIN s.tracks[t].events
    PROVE  LET r == smf_event_remove_from_track(s, t, i)
               ev == s.tracks[t].events[i]
               tempo == smf_event_is_tempo_change_or_time_signature(ev)
           IN  /\ Counted(r)
               /\ Synced(s) /\ (tempo => ev.pulses > 0 /\ Alone(s, t, i)) => Synced(r)
               /\ tempo /\ ~smf_event_is_last(s, ev) => Synced(r)
<1> DEFINE ev == s.tracks[t].events[i]
           p == ev.pulses
           q == Without(s, t, i)
           r == smf_event_remove_from_track(s, t, i)
           tempo == smf_event_is_tempo_change_or_time_signature(ev)
           last == smf_event_is_last(s, ev)
           sound == tempo => p > 0 /\ Alone(s, t, i)
<1>1. /\ Steady(q) /\ Songlike(q)
      /\ q.tempos = s.tempos /\ q.ppqn = s.ppqn /\ Marks(q) \subseteq Marks(s)
      /\ \A e \in EventsIn(s) : e # << t, i >> => Mark(EventAt(s, e)) \in Marks(q)
  BY WithoutSteady, WithoutMarks DEF Steady, Orderly
<1>2. r = IF ~tempo THEN q
          ELSE IF last THEN remove_last_tempo_with_pulses(q, p)
          ELSE smf_create_tempo_map_and_compute_seconds(q)
  BY RemovedShape DEF Steady, Orderly
<1>3. << t, i >> \in EventsIn(s) /\ EventAt(s, << t, i >>) = ev /\ p \in Nat
  <2>1. << t, i >> \in EventsIn(s) /\ EventAt(s, << t, i >>) = ev
    BY DEF EventsIn, EventAt
  <2> QED
    BY <2>1, EventsAre
<1>4. Counted(q)
  BY <1>1, MarksKept
<1> HIDE DEF q, r, ev, p, tempo, last
<1>5. CASE ~tempo
  <2>1. \A m \in Marks(s) : smf_event_is_tempo_change_or_time_signature(m) => m \in Marks(q)
    <3> SUFFICES ASSUME NEW m \in Marks(s), smf_event_is_tempo_change_or_time_signature(m)
                 PROVE  m \in Marks(q)
      OBVIOUS
    <3>1. PICK e \in EventsIn(s) : m = Mark(EventAt(s, e))
      BY DEF Marks
    <3>2. smf_event_is_tempo_change_or_time_signature(EventAt(s, e))
      BY <3>1 DEF smf_event_is_tempo_change_or_time_signature, Mark
    <3> QED
      BY <1>1, <1>3, <1>5, <3>1, <3>2 DEF tempo
  <2>2. Synced(s) => Synced(r)
    BY <1>1, <1>2, <1>5, <2>1, MarksKept
  <2> QED
    BY <1>2, <1>4, <1>5, <2>2 DEF r, ev, tempo
<1>6. CASE tempo /\ last
  <2>1. r = remove_last_tempo_with_pulses(q, p)
    BY <1>2, <1>6
  <2>2. r.tracks = q.tracks /\ r.ppqn = q.ppqn
    BY <1>1, <2>1, TempoMapRetuned, TempoMapPpqn DEF Steady
  <2>3. Marks(r) = Marks(q) /\ Counted(r)
    BY <1>4, <2>2, TracksMarks
  <2>4. ASSUME Synced(s), sound PROVE Synced(r)
    <3>1. \A m \in Marks(s) : m.pulses \in Nat /\ m.pulses <= p
      <4>1. smf_get_length_pulses(s) <= p /\ smf_get_length_pulses(s) \in Nat
        BY <1>6, LengthReached DEF last, smf_event_is_last, p, Steady
      <4> QED
        BY <1>3, <4>1, MarksTimed
    <3>2. Linked(q) /\ \A x : seconds_from_pulses(q, x) = seconds_from_pulses(s, x)
      BY <1>1, <2>4, SameMap DEF Synced
    <3>3. \A j \in DOMAIN q.tempos : q.tempos[j].pulses <= p
      BY <1>1, <1>3, <2>4, <3>1 DEF Synced, Known
    <3>4. q.tempos[Len(q.tempos)].pulses <= p
      <4>1. Len(q.tempos) \in DOMAIN q.tempos
        BY <3>2, SequenceFacts DEF Linked, Begun
      <4> QED
        BY <3>3, <4>1
    <3>5. /\ Linked(r) /\ Agree(r, q, p)
          /\ \A j \in DOMAIN r.tempos : /\ j \in DOMAIN q.tempos /\ r.tempos[j] = q.tempos[j]
                                        /\ r.tempos[j].pulses < p
      BY <1>1, <1>3, <1>6, <2>1, <2>4, <3>2, <3>4, remove_last_tempoLinked
    <3>6. InStep(r)
      <4> SUFFICES ASSUME NEW m \in Marks(r) PROVE m.seconds = seconds_from_pulses(r, m.pulses)
        BY DEF InStep
      <4>1. m \in Marks(s) /\ m.pulses \in Nat /\ m.pulses <= p
        BY <1>1, <2>3, <3>1
      <4>2. m.seconds = seconds_from_pulses(q, m.pulses)
        BY <2>4, <3>2, <4>1 DEF Synced, InStep
      <4> QED
        BY <1>3, <3>2, <3>5, <4>1, <4>2, SameTime
    <3>7. Known(r)
      <4> SUFFICES ASSUME NEW j \in DOMAIN r.tempos, r.tempos[j].pulses # 0
                   PROVE  \E m \in Marks(r) : /\ smf_event_is_tempo_change_or_time_signature(m)
                                              /\ m.pulses = r.tempos[j].pulses
        BY DEF Known
      <4>1. PICK m \in Marks(s) : /\ smf_event_is_tempo_change_or_time_signature(m)
                                  /\ m.pulses = r.tempos[j].pulses
        BY <1>1, <2>4, <3>5 DEF Synced, Known
      <4>2. PICK e \in EventsIn(s) : m = Mark(EventAt(s, e))
        BY DEF Marks
      <4>3. m.pulses # p
        BY <1>3, <3>1, <3>5, <4>1
      <4>4. e # << t, i >>
        BY <1>3, <4>2, <4>3 DEF Mark, p
      <4> QED
        BY <1>1, <2>3, <4>1, <4>2, <4>4
    <3> QED
      BY <3>5, <3>6, <3>7 DEF Synced
  <2> QED
    BY <1>6, <2>3, <2>4 DEF r, ev, p, tempo, last
<1>7. CASE tempo /\ ~last
  BY <1>1, <1>2, <1>4, <1>7, smf_create_tempo_mapSynced DEF r, ev, tempo, last
<1> QED
  BY <1>5, <1>6, <1>7

LEMMA remove_eotSynced ==
    ASSUME NEW s, Steady(s), Counted(s), NEW t \in DOMAIN s.tracks, NEW p \in Nat
    PROVE  LET r == remove_eot_if_before_pulses(s, t, p)
           IN  /\ Counted(r) /\ r.tempos = s.tempos /\ r.ppqn = s.ppqn
               /\ Synced(s) => Synced(r)
<1> DEFINE r == remove_eot_if_before_pulses(s, t, p)
           es == s.tracks[t].events
           n == Len(es)
<1>1. InOrder(es) /\ n \in Nat /\ DOMAIN es = 1 .. n /\ (es = << >> <=> n = 0)
  BY SequenceFacts, EmptySequence DEF Steady, Orderly, InOrder
<1>2. CASE ~(es # << >> /\ Last(es).kind = "eot" /\ Last(es).pulses <= p)
  <2>1. r = s
    BY <1>2 DEF remove_eot_if_before_pulses
  <2> QED
    BY <2>1
<1>3. CASE es # << >> /\ Last(es).kind = "eot" /\ Last(es).pulses <= p
  <2>1. n \in DOMAIN es /\ es[n].kind = "eot"
    BY <1>1, <1>3 DEF Last
  <2>2. r = smf_event_remove_from_track(s, t, n)
    BY <1>3 DEF remove_eot_if_before_pulses
  <2>3. ~smf_event_is_tempo_change_or_time_signature(es[n])
    BY <2>1 DEF smf_event_is_tempo_change_or_time_signature
  <2>4. r = Without(s, t, n)
    BY <2>2, <2>3, RemovedShape DEF Steady, Orderly
  <2> HIDE DEF r
  <2>5. /\ r.tempos = s.tempos /\ r.ppqn = s.ppqn /\ Marks(r) \subseteq Marks(s)
        /\ \A e \in EventsIn(s) : e # << t, n >> => Mark(EventAt(s, e)) \in Marks(r)
    BY <2>1, <2>4, WithoutMarks
  <2>6. ASSUME NEW m \in Marks(s), smf_event_is_tempo_change_or_time_signature(m)
        PROVE  m \in Marks(r)
    <3>1. PICK e \in EventsIn(s) : m = Mark(EventAt(s, e))
      BY DEF Marks
    <3>2. smf_event_is_tempo_change_or_time_signature(EventAt(s, e))
      BY <2>6, <3>1 DEF smf_event_is_tempo_change_or_time_signature, Mark
    <3>3. e # << t, n >>
      BY <2>3, <3>2 DEF EventAt
    <3> QED
      BY <2>5, <3>1, <3>3
  <2>7. Counted(r) /\ (Synced(s) => Synced(r))
    BY <2>5, <2>6, MarksKept
  <2> QED
    BY <2>5, <2>7 DEF r
<1> QED
  BY <1>2, <1>3

\* An event is added, with its time: all stays in step; and all is in step
\* again if the map is made anew.
LEMMA smf_track_add_eventSynced ==
    ASSUME NEW s, Steady(s), Counted(s), InitialTempo \in Nat \ {0}, NEW t \in DOMAIN s.tracks,
           NEW ev, EventFields \subseteq DOMAIN ev, ev.pulses \in Nat, ev.number = 0, ev.delta = -1,
           ev.kind = "tempo" => ev.val \in Nat
    PROVE  LET r == smf_track_add_event(s, t, ev)
           IN  /\ Counted(r)
               /\ Synced(s) /\ ev.seconds = seconds_from_pulses(s, ev.pulses) => Synced(r)
               /\ smf_event_is_tempo_change_or_time_signature(ev) /\ smf_get_length_pulses(s) > ev.pulses
                     => Synced(r)
<1> DEFINE p == ev.pulses
           r == remove_eot_if_before_pulses(s, t, p)
           q == With(r, t, ev)
           f == smf_track_add_event(s, t, ev)
           tempo == smf_event_is_tempo_change_or_time_signature(ev)
           last == smf_event_is_last(q, ev)
           given == ev.seconds = seconds_from_pulses(s, p)
<1>1. /\ Steady(r) /\ Songlike(r) /\ t \in DOMAIN r.tracks
      /\ smf_get_length_pulses(s) > p => smf_get_length_pulses(r) > p
      /\ Counted(r) /\ r.tempos = s.tempos /\ r.ppqn = s.ppqn
      /\ Synced(s) => Synced(r)
  BY remove_eotSteady, remove_eotSynced DEF Steady, Orderly
<1>2. f = IF ~tempo THEN q
          ELSE IF last THEN maybe_add_to_tempo_map(q, ev)
          ELSE smf_create_tempo_map_and_compute_seconds(q)
  BY <1>1, AddedShape
<1> HIDE DEF r
<1>3. /\ Steady(q) /\ Songlike(q) /\ (smf_get_length_pulses(r) > p => smf_get_length_pulses(q) > p)
      /\ q.tempos = r.tempos /\ q.ppqn = r.ppqn /\ Marks(q) = Marks(r) \cup {Mark(ev)}
  BY <1>1, WithSteady, WithMarks DEF Steady, Orderly
<1>4. smf_get_length_pulses(q) \in Nat
  <2> HIDE DEF q
  <2> QED
    BY <1>3, LengthReached DEF Steady
<1> HIDE DEF q, f, tempo, last, p, given
<1>5. /\ Mark(ev).pulses = p /\ Mark(ev).seconds = ev.seconds
      /\ Mark(ev).kind = ev.kind /\ Mark(ev).val = ev.val /\ p \in Nat
      /\ tempo <=> smf_event_is_tempo_change_or_time_signature(Mark(ev))
  BY DEF Mark, p, tempo, smf_event_is_tempo_change_or_time_signature
<1>6. Counted(q)
  BY <1>1, <1>3, <1>5 DEF Counted, Valued
<1>7. \A x : seconds_from_pulses(q, x) = seconds_from_pulses(s, x)
             /\ seconds_from_pulses(q, x) = seconds_from_pulses(r, x)
  BY <1>1, <1>3, SameMap
<1>8. Synced(s) /\ given => Linked(q) /\ InStep(q) /\ Known(q)
  <2> SUFFICES ASSUME Synced(s), given PROVE Linked(q) /\ InStep(q) /\ Known(q)
    OBVIOUS
  <2>1. Synced(r)
    BY <1>1
  <2>2. Linked(q)
    BY <1>3, <2>1, SameMap DEF Synced
  <2>3. InStep(q)
    BY <1>3, <1>5, <1>7, <2>1 DEF Synced, InStep, given, p
  <2>4. Known(q)
    BY <1>3, <2>1 DEF Synced, Known
  <2> QED
    BY <2>2, <2>3, <2>4
<1>9. CASE ~tempo
  BY <1>2, <1>6, <1>8, <1>9 DEF Synced, f, tempo, given, p
<1>10. CASE tempo /\ last
  <2>1. f = maybe_add_to_tempo_map(q, ev)
    BY <1>2, <1>10
  <2>2. f.tracks = q.tracks /\ f.ppqn = q.ppqn
    BY <1>3, <2>1, TempoMapRetuned, TempoMapPpqn DEF Steady, Retuned
  <2>3. Marks(f) = Marks(q) /\ Counted(f)
    BY <1>6, <2>2, TracksMarks
  <2>4. ~(smf_get_length_pulses(s) > p)
    <3>1. smf_get_length_pulses(q) <= p
      BY <1>10 DEF last, smf_event_is_last, p
    <3> QED
      BY <1>1, <1>3, <1>4, <1>5, <3>1
  <2>5. ASSUME Synced(s), given PROVE Synced(f)
    <3>1. \A m \in Marks(q) : m.pulses \in Nat /\ m.pulses <= p
      <4>1. smf_get_length_pulses(q) <= p
        BY <1>10 DEF last, smf_event_is_last, p
      <4> QED
        BY <1>3, <1>4, <1>5, <4>1, MarksTimed
    <3>2. Linked(q) /\ InStep(q) /\ Known(q)
      BY <1>8, <2>5
    <3>3. q.tempos[Len(q.tempos)].pulses <= p
      <4>1. Len(q.tempos) \in DOMAIN q.tempos
        BY <3>2, SequenceFacts DEF Linked, Begun
      <4> QED
        BY <1>5, <3>1, <3>2, <4>1 DEF Known
    <3>4. Extended(f, q, p)
      BY <1>3, <1>5, <2>1, <3>2, <3>3, TempoMapLinked DEF p
    <3>5. InStep(f)
      <4> SUFFICES ASSUME NEW m \in Marks(f) PROVE m.seconds = seconds_from_pulses(f, m.pulses)
        BY DEF InStep
      <4>1. m \in Marks(q) /\ m.pulses \in Nat /\ m.pulses <= p
        BY <2>3, <3>1
      <4>2. m.seconds = seconds_from_pulses(q, m.pulses)
        BY <3>2, <4>1 DEF InStep
      <4> QED
        BY <1>5, <3>2, <3>4, <4>1, <4>2, SameTime DEF Extended
    <3>6. Known(f)
      <4> SUFFICES ASSUME NEW j \in DOMAIN f.tempos, f.tempos[j].pulses # 0
                   PROVE  \E m \in Marks(f) : /\ smf_event_is_tempo_change_or_time_signature(m)
                                              /\ m.pulses = f.tempos[j].pulses
        BY DEF Known
      <4>1. \/ j \in DOMAIN q.tempos /\ f.tempos[j].pulses = q.tempos[j].pulses
            \/ f.tempos[j].pulses = p
        BY <3>4 DEF Extended
      <4>2. CASE j \in DOMAIN q.tempos /\ f.tempos[j].pulses = q.tempos[j].pulses
        BY <2>3, <3>2, <4>2 DEF Known
      <4>3. CASE f.tempos[j].pulses = p
        BY <1>3, <1>5, <1>10, <2>3, <4>3
      <4> QED
        BY <4>1, <4>2, <4>3
    <3> QED
      BY <3>4, <3>5, <3>6 DEF Synced, Extended
  <2> QED
    BY <2>3, <2>4, <2>5 DEF f, given, p
<1>11. CASE tempo /\ ~last
  BY <1>2, <1>3, <1>6, <1>11, smf_create_tempo_mapSynced DEF f
<1> QED
  BY <1>9, <1>10, <1>11

\* The functions that add an event: given its pulses they work out its seconds;
\* given seconds that no pulse has, nothing is said of the seconds after it.
LEMMA AddedSynced ==
    ASSUME NEW s, Steady(s), s.failed = "", Counted(s), InitialTempo \in Nat \ {0},
           NEW t \in DOMAIN s.tracks, NEW kind, NEW val, NEW tag, kind = "tempo" => val \in Nat
    PROVE  /\ \A p \in Nat :
                 LET r == smf_track_add_event_pulses(s, t, Event(kind, val, tag), p)
                 IN  /\ Counted(r) /\ (Synced(s) => Synced(r))
                     /\ kind \in {"tempo", "sig"} /\ p < smf_get_length_pulses(s) /\ r.failed = ""
                           => Synced(r)
           /\ \A x \in Nat : BeforeSeconds(s, x) = {} \/ pulses_from_seconds(s, x) \in Nat =>
                 LET r == smf_track_add_event_seconds(s, t, Event(kind, val, tag), x)
                 IN  /\ Counted(r)
                     /\ Synced(s) /\ seconds_from_pulses(s, pulses_from_seconds(s, x)) = x => Synced(r)
                     /\ kind \in {"tempo", "sig"} /\ pulses_from_seconds(s, x) < smf_get_length_pulses(s)
                        /\ r.failed = "" => Synced(r)
<1> DEFINE ev == Event(kind, val, tag)
           tempo == kind \in {"tempo", "sig"}
           a == Abort(s, "tempo")
<1>1. EventFields \subseteq DOMAIN ev /\ ev.number = 0 /\ ev.delta = -1 /\ ev.kind = kind /\ ev.val = val
  BY DEF Event, EventFields
<1>2. Counted(a) /\ (Synced(s) => Synced(a)) /\ a.failed # ""
  <2>1. Unmoved(a, s) /\ a.failed = "tempo"
    BY PositionUnmoved, AbortPlain DEF Steady, Orderly
  <2> HIDE DEF a
  <2> QED
    BY <2>1, UnmovedMarks
<1> HIDE DEF ev, a
<1>3. ASSUME NEW p \in Nat, NEW x
      PROVE  LET r == smf_track_add_event(s, t, [ev EXCEPT !.pulses = p, !.seconds = x])
             IN  /\ Counted(r) /\ (Synced(s) /\ x = seconds_from_pulses(s, p) => Synced(r))
                 /\ tempo /\ p < smf_get_length_pulses(s) => Synced(r)
  <2> DEFINE at == [ev EXCEPT !.pulses = p, !.seconds = x]
  <2>1. /\ EventFields \subseteq DOMAIN at /\ at.number = 0 /\ at.delta = -1 /\ at.pulses = p
        /\ at.kind = kind /\ at.val = val /\ at.seconds = x
    BY <1>1 DEF EventFields
  <2>2. smf_get_length_pulses(s) \in Nat
    BY LengthReached DEF Steady
  <2> HIDE DEF at
  <2>3. tempo <=> smf_event_is_tempo_change_or_time_signature(at)
    BY <2>1 DEF smf_event_is_tempo_change_or_time_signature
  <2>4. p < smf_get_length_pulses(s) => smf_get_length_pulses(s) > at.pulses
    BY <2>1, <2>2
  <2> HIDE DEF tempo
  <2>5. LET r == smf_track_add_event(s, t, at)
        IN  /\ Counted(r)
            /\ Synced(s) /\ at.seconds = seconds_from_pulses(s, at.pulses) => Synced(r)
            /\ smf_event_is_tempo_change_or_time_signature(at) /\ smf_get_length_pulses(s) > at.pulses
                  => Synced(r)
    BY <2>1, smf_track_add_eventSynced
  <2> QED
    BY <2>1, <2>3, <2>4, <2>5 DEF at
<1> HIDE DEF tempo
<1>4. ASSUME NEW p \in Nat
      PROVE  LET r == smf_track_add_event_pulses(s, t, ev, p)
             IN  /\ Counted(r) /\ (Synced(s) => Synced(r))
                 /\ tempo /\ p < smf_get_length_pulses(s) /\ r.failed = "" => Synced(r)
  <2>1. CASE BeforePulses(s, p) = {}
    BY <1>2, <2>1 DEF smf_track_add_event_pulses, a
  <2>2. CASE BeforePulses(s, p) # {}
    <3>1. smf_track_add_event_pulses(s, t, ev, p)
             = smf_track_add_event(s, t, [ev EXCEPT !.pulses = p, !.seconds = seconds_from_pulses(s, p)])
      BY <2>2 DEF smf_track_add_event_pulses
    <3> QED
      BY <1>3, <3>1
  <2> QED
    BY <2>1, <2>2
<1>5. ASSUME NEW x \in Nat, BeforeSeconds(s, x) = {} \/ pulses_from_seconds(s, x) \in Nat
      PROVE  LET r == smf_track_add_event_seconds(s, t, ev, x)
             IN  /\ Counted(r)
                 /\ Synced(s) /\ seconds_from_pulses(s, pulses_from_seconds(s, x)) = x => Synced(r)
                 /\ tempo /\ pulses_from_seconds(s, x) < smf_get_length_pulses(s)
                    /\ r.failed = "" => Synced(r)
  <2>1. CASE BeforeSeconds(s, x) = {}
    BY <1>2, <2>1 DEF smf_track_add_event_seconds, a
  <2>2. CASE BeforeSeconds(s, x) # {}
    <3> DEFINE p == pulses_from_seconds(s, x)
    <3>1. [ev EXCEPT !.seconds = x, !.pulses = p] = [ev EXCEPT !.pulses = p, !.seconds = x]
      BY <1>1 DEF EventFields
    <3>2. smf_track_add_event_seconds(s, t, ev, x)
             = smf_track_add_event(s, t, [ev EXCEPT !.pulses = p, !.seconds = x])
      BY <2>2, <3>1 DEF smf_track_add_event_seconds
    <3>3. p \in Nat
      BY <1>5, <2>2
    <3> HIDE DEF p
    <3> QED
      BY <1>3, <3>2, <3>3 DEF p
  <2> QED
    BY <2>1, <2>2
<1>6. ASSUME NEW p \in Nat
      PROVE  LET r == smf_track_add_event_pulses(s, t, Event(kind, val, tag), p)
             IN  /\ Counted(r) /\ (Synced(s) => Synced(r))
                 /\ kind \in {"tempo", "sig"} /\ p < smf_get_length_pulses(s) /\ r.failed = ""
                       => Synced(r)
  BY <1>4 DEF ev, tempo
<1>7. ASSUME NEW x \in Nat, BeforeSeconds(s, x) = {} \/ pulses_from_seconds(s, x) \in Nat
      PROVE  LET r == smf_track_add_event_seconds(s, t, Event(kind, val, tag), x)
             IN  /\ Counted(r)
                 /\ Synced(s) /\ seconds_from_pulses(s, pulses_from_seconds(s, x)) = x => Synced(r)
                 /\ kind \in {"tempo", "sig"} /\ pulses_from_seconds(s, x) < smf_get_length_pulses(s)
                    /\ r.failed = "" => Synced(r)
  BY <1>5, <1>7 DEF ev, tempo
<1> QED
  BY <1>6, <1>7

LEMMA EotSynced ==
    ASSUME NEW s, Steady(s), s.failed = "", Counted(s), InitialTempo \in Nat \ {0},
           NEW t \in DOMAIN s.tracks, NEW tag
    PROVE  /\ \A d : last_event_pulses(s.tracks[t]) + d \in Nat =>
                 LET r == smf_track_add_eot_delta_pulses(s, t, tag, d)
                 IN  Counted(r) /\ (Synced(s) => Synced(r))
           /\ \A p \in Nat :
                 LET r == smf_track_add_eot_pulses(s, t, tag, p)
                 IN  Counted(r) /\ (Synced(s) => Synced(r))
           /\ \A x \in Nat : BeforeSeconds(s, x) = {} \/ pulses_from_seconds(s, x) \in Nat =>
                 LET r == smf_track_add_eot_seconds(s, t, tag, x)
                 IN  /\ Counted(r)
                     /\ Synced(s) /\ seconds_from_pulses(s, pulses_from_seconds(s, x)) = x => Synced(r)
<1>1. /\ \A p \in Nat :
            LET r == smf_track_add_event_pulses(s, t, Event("eot", 0, tag), p)
            IN  Counted(r) /\ (Synced(s) => Synced(r))
      /\ \A x \in Nat : BeforeSeconds(s, x) = {} \/ pulses_from_seconds(s, x) \in Nat =>
            LET r == smf_track_add_event_seconds(s, t, Event("eot", 0, tag), x)
            IN  /\ Counted(r)
                /\ Synced(s) /\ seconds_from_pulses(s, pulses_from_seconds(s, x)) = x => Synced(r)
  BY AddedSynced
<1>2. ASSUME NEW d, last_event_pulses(s.tracks[t]) + d \in Nat
      PROVE  LET r == smf_track_add_eot_delta_pulses(s, t, tag, d)
             IN  Counted(r) /\ (Synced(s) => Synced(r))
  BY <1>1, <1>2 DEF smf_track_add_eot_delta_pulses, smf_track_add_event_delta_pulses
<1>3. ASSUME NEW p \in Nat
      PROVE  LET r == smf_track_add_eot_pulses(s, t, tag, p)
             IN  Counted(r) /\ (Synced(s) => Synced(r))
  BY <1>1 DEF smf_track_add_eot_pulses
<1>4. ASSUME NEW x \in Nat, BeforeSeconds(s, x) = {} \/ pulses_from_seconds(s, x) \in Nat
      PROVE  LET r == smf_track_add_eot_seconds(s, t, tag, x)
             IN  /\ Counted(r)
                 /\ Synced(s) /\ seconds_from_pulses(s, pulses_from_seconds(s, x)) = x => Synced(r)
  BY <1>1, <1>4 DEF smf_track_add_eot_seconds
<1> QED
  BY <1>2, <1>3, <1>4

\* The tempos of a track are numbers.
TempoValues(es) == \A i \in DOMAIN es : es[i].kind = "tempo" => es[i].val \in Nat

LEMMA TracksValued ==
    ASSUME NEW s
    PROVE  Valued(s) <=> \A t \in DOMAIN s.tracks : TempoValues(s.tracks[t].events)
<1>1. \A ev : Mark(ev).kind = ev.kind /\ Mark(ev).val = ev.val
  BY DEF Mark
<1>2. ASSUME Valued(s), NEW t \in DOMAIN s.tracks, NEW i \in DOMAIN s.tracks[t].events,
             s.tracks[t].events[i].kind = "tempo"
      PROVE  s.tracks[t].events[i].val \in Nat
  <2>1. Mark(s.tracks[t].events[i]) \in Marks(s)
    BY MarksOf
  <2> QED
    BY <1>1, <1>2, <2>1 DEF Valued
<1>3. ASSUME \A t \in DOMAIN s.tracks : TempoValues(s.tracks[t].events), NEW m \in Marks(s), m.kind = "tempo"
      PROVE  m.val \in Nat
  <2>1. PICK t, i : t \in DOMAIN s.tracks /\ i \in DOMAIN s.tracks[t].events /\ m = Mark(s.tracks[t].events[i])
    BY MarksOf
  <2> QED
    BY <1>1, <1>3, <2>1 DEF TempoValues
<1> QED
  BY <1>2, <1>3 DEF Valued, TempoValues

LEMMA AddTrackSynced ==
    ASSUME NEW s, Fits(s), Counted(s), NEW tr, Tracklike(tr), TempoValues(tr.events)
    PROVE  /\ Counted(smf_add_track(s, tr))
           /\ Synced(s) /\ tr.events = << >> => Synced(smf_add_track(s, tr))
<1> DEFINE n == Len(s.tracks) + 1
           new == [tr EXCEPT !.number = n]
           r == smf_add_track(s, tr)
           q == [s EXCEPT !.tracks = Append(s.tracks, new)]
<1>1. n \in Nat /\ n >= 1 /\ n - 1 = Len(s.tracks) /\ DOMAIN s.tracks = 1 .. n - 1
  BY SequenceFacts DEF Fits, Songlike
<1>2. r.tracks = Append(s.tracks, new) /\ IsSequence(s.tracks)
  BY AddTrackFits DEF Fits, Songlike
<1>3. r.tempos = s.tempos /\ r.ppqn = s.ppqn
  <2>1. r = q \/ r = [q EXCEPT !.format = 1]
    BY DEF smf_add_track, smf_set_format
  <2>2. q.tempos = s.tempos /\ q.ppqn = s.ppqn /\ DOMAIN q = DOMAIN s
    BY DEF Fits, Songlike, SongFields
  <2> HIDE DEF q, r
  <2> QED
    BY <2>1, <2>2 DEF Fits, Songlike, SongFields
<1>4. new.events = tr.events
  BY DEF Tracklike, TrackFields
<1> HIDE DEF new, n, r
<1>5. /\ DOMAIN r.tracks = 1 .. n /\ (\A i \in 1 .. n - 1 : r.tracks[i] = s.tracks[i])
      /\ r.tracks[n] = new
  <2>1. (n - 1) + 1 = n
    BY <1>1
  <2> QED
    BY <1>1, <1>2, <2>1, AppendedSequence, SequenceFacts
<1>6. \A i \in 1 .. n : i \in 1 .. n - 1 \/ i = n
  BY <1>1
<1>7. Counted(r)
  <2>1. \A i \in 1 .. n - 1 : TempoValues(s.tracks[i].events)
    BY <1>1, TracksValued DEF Counted
  <2>2. \A i \in 1 .. n : TempoValues(r.tracks[i].events)
    BY <1>4, <1>5, <1>6, <2>1
  <2> QED
    BY <1>3, <1>5, <2>2, TracksValued DEF Counted
<1>8. ASSUME Synced(s), tr.events = << >> PROVE Synced(r)
  <2>1. DOMAIN r.tracks[n].events = {}
    BY <1>4, <1>5, <1>8
  <2>2. ASSUME NEW m \in Marks(r) PROVE m \in Marks(s)
    <3>1. PICK i, j : i \in DOMAIN r.tracks /\ j \in DOMAIN r.tracks[i].events /\ m = Mark(r.tracks[i].events[j])
      BY MarksOf
    <3>2. i \in 1 .. n - 1
      BY <1>5, <1>6, <2>1, <3>1
    <3>3. r.tracks[i] = s.tracks[i] /\ i \in DOMAIN s.tracks
      BY <1>1, <1>5, <3>2
    <3> QED
      BY <3>1, <3>3, MarksOf
  <2>3. ASSUME NEW m \in Marks(s) PROVE m \in Marks(r)
    <3>1. PICK i, j : i \in DOMAIN s.tracks /\ j \in DOMAIN s.tracks[i].events /\ m = Mark(s.tracks[i].events[j])
      BY MarksOf
    <3>2. i \in 1 .. n - 1 /\ i \in 1 .. n
      BY <1>1, <3>1
    <3>3. r.tracks[i] = s.tracks[i] /\ i \in DOMAIN r.tracks
      BY <1>5, <3>2
    <3> QED
      BY <3>1, <3>3, MarksOf
  <2> QED
    BY <1>3, <1>8, <2>2, <2>3, MarksKept
<1> QED
  BY <1>7, <1>8 DEF r

\* A track that has left the song takes its marks with it.
LEMMA RemoveTrackMarks ==
    ASSUME NEW s, Fits(s), Steady(s), NEW t \in DOMAIN s.tracks
    PROVE  LET r == smf_track_remove_from_smf(s, t)
           IN  /\ r.tempos = s.tempos /\ r.ppqn = s.ppqn
               /\ Marks(r) \subseteq Marks(s)
               /\ \A e \in EventsIn(s) : e[1] # t => Mark(EventAt(s, e)) \in Marks(r)
<1> DEFINE n == Len(s.tracks)
           r == smf_track_remove_from_smf(s, t)
<1>1. n \in Nat /\ DOMAIN s.tracks = 1 .. n /\ t \in 1 .. n
  BY SequenceFacts DEF Fits, Songlike
<1>2. /\ r.tracks = [i \in 1 .. n - 1 |-> IF i < t THEN s.tracks[i] ELSE Renumber(s.tracks[i + 1], i)]
      /\ r.tempos = s.tempos /\ r.ppqn = s.ppqn
  BY DEF smf_track_remove_from_smf, Fits, Songlike, SongFields
<1> HIDE DEF r, n
<1>3. ASSUME NEW tr, Tracklike(tr), InOrder(tr.events), NEW i
      PROVE  /\ DOMAIN Renumber(tr, i).events = DOMAIN tr.events
             /\ \A j \in DOMAIN tr.events : Mark(Renumber(tr, i).events[j]) = Mark(tr.events[j])
  <2>1. Renumber(tr, i).events = [j \in DOMAIN tr.events |-> [tr.events[j] EXCEPT !.track = i]]
    BY <1>3 DEF Renumber, Tracklike, TrackFields
  <2>2. \A e : EventFields \subseteq DOMAIN e => Mark([e EXCEPT !.track = i]) = Mark(e)
    BY DEF Mark, EventFields
  <2> QED
    BY <1>3, <2>1, <2>2 DEF InOrder
<1> DEFINE Like(ur, tr) ==
             /\ DOMAIN ur.events = DOMAIN tr.events
             /\ \A j \in DOMAIN tr.events : Mark(ur.events[j]) = Mark(tr.events[j])
<1>4. \A j \in 1 .. n : Tracklike(s.tracks[j]) /\ InOrder(s.tracks[j].events)
  BY <1>1 DEF Steady, Orderly, Songlike
<1>5. ASSUME NEW i \in 1 .. n - 1
      PROVE  /\ i \in DOMAIN r.tracks
             /\ i < t => Like(r.tracks[i], s.tracks[i])
             /\ ~(i < t) => Like(r.tracks[i], s.tracks[i + 1])
  <2>1. i + 1 \in 1 .. n
    BY <1>1
  <2> QED
    BY <1>2, <1>3, <1>4, <2>1
<1> HIDE DEF Like
<1>6. ASSUME NEW m \in Marks(r) PROVE m \in Marks(s)
  <2>1. PICK i, j : i \in DOMAIN r.tracks /\ j \in DOMAIN r.tracks[i].events /\ m = Mark(r.tracks[i].events[j])
    BY MarksOf
  <2>2. i \in 1 .. n - 1
    BY <2>1, <1>2
  <2>3. \E k \in DOMAIN s.tracks : Like(r.tracks[i], s.tracks[k])
    <3>1. i \in DOMAIN s.tracks /\ i + 1 \in DOMAIN s.tracks
      BY <1>1, <2>2
    <3> QED
      BY <1>5, <2>2, <3>1
  <2> QED
    BY <2>1, <2>3, MarksOf DEF Like
<1>7. ASSUME NEW e \in EventsIn(s), e[1] # t PROVE Mark(EventAt(s, e)) \in Marks(r)
  <2>1. e[1] \in 1 .. n /\ e[2] \in DOMAIN s.tracks[e[1]].events
    BY <1>1, EventsAre
  <2>2. \E i \in DOMAIN r.tracks : Like(r.tracks[i], s.tracks[e[1]])
    <3>1. CASE e[1] < t
      BY <1>1, <1>5, <2>1, <3>1
    <3>2. CASE ~(e[1] < t)
      <4>1. e[1] - 1 \in 1 .. n - 1 /\ ~(e[1] - 1 < t) /\ (e[1] - 1) + 1 = e[1]
        BY <1>1, <1>7, <2>1, <3>2
      <4> QED
        BY <1>5, <4>1
    <3> QED
      BY <3>1, <3>2
  <2>3. PICK i \in DOMAIN r.tracks : Like(r.tracks[i], s.tracks[e[1]])
    BY <2>2
  <2>4. e[2] \in DOMAIN r.tracks[i].events /\ Mark(r.tracks[i].events[e[2]]) = Mark(EventAt(s, e))
    BY <2>1, <2>3 DEF Like, EventAt
  <2> QED
    BY <2>4, MarksOf
<1> QED
  BY <1>2, <1>6, <1>7 DEF r

LEMMA RemoveTrackSynced ==
    ASSUME NEW s, Fits(s), Steady(s), Counted(s), NEW t \in DOMAIN s.tracks
    PROVE  /\ Counted(smf_track_remove_from_smf(s, t))
           /\ /\ Synced(s)
              /\ \A e \in EventsIn(s) : smf_event_is_tempo_change_or_time_signature(EventAt(s, e)) => e[1] # t
              => Synced(smf_track_remove_from_smf(s, t))
<1> DEFINE r == smf_track_remove_from_smf(s, t)
           none == \A e \in EventsIn(s) :
                      smf_event_is_tempo_change_or_time_signature(EventAt(s, e)) => e[1] # t
<1>1. /\ r.tempos = s.tempos /\ r.ppqn = s.ppqn /\ Marks(r) \subseteq Marks(s)
      /\ \A e \in EventsIn(s) : e[1] # t => Mark(EventAt(s, e)) \in Marks(r)
  BY RemoveTrackMarks
<1> HIDE DEF r
<1>2. ASSUME none, NEW m \in Marks(s), smf_event_is_tempo_change_or_time_signature(m)
      PROVE  m \in Marks(r)
  <2>1. PICK e \in EventsIn(s) : m = Mark(EventAt(s, e))
    BY DEF Marks
  <2>2. smf_event_is_tempo_change_or_time_signature(EventAt(s, e))
    BY <1>2, <2>1 DEF smf_event_is_tempo_change_or_time_signature, Mark
  <2> QED
    BY <1>1, <1>2, <2>1, <2>2
<1> QED
  BY <1>1, <1>2, MarksKept DEF r

\* Every change of the tempo in a track is alone at its place, after the start.
AllAlone(s, t) ==
    \A i \in DOMAIN s.tracks[t].events :
        smf_event_is_tempo_change_or_time_signature(s.tracks[t].events[i])
        => s.tracks[t].events[i].pulses > 0 /\ Alone(s, t, i)

LEMMA LosesLastSynced ==
    ASSUME NEW s, Steady(s), Counted(s), InitialTempo \in Nat \ {0},
           NEW t \in DOMAIN s.tracks, NEW m \in Nat, m >= 1, Len(s.tracks[t].events) = m
    PROVE  /\ Counted(LosesLast(s, t))
           /\ AllAlone(s, t) => /\ AllAlone(LosesLast(s, t), t)
                                /\ Synced(s) => Synced(LosesLast(s, t))
<1> DEFINE es == s.tracks[t].events
           r == LosesLast(s, t)
           q == Without(s, t, m)
<1>1. InOrder(es) /\ IsSequence(es) /\ m \in DOMAIN es /\ Songlike(s)
  BY SequenceFacts DEF Steady, Orderly, InOrder
<1>2. r = smf_event_remove_from_track(s, t, m)
  BY DEF LosesLast
<1>3. Same(r, q)
  BY <1>1, <1>2, smf_event_removeSteady
<1>4. Counted(r) /\ (AllAlone(s, t) /\ Synced(s) => Synced(r))
  BY <1>1, <1>2, smf_event_removeSynced DEF AllAlone
<1>5. /\ Steady(q) /\ DOMAIN q.tracks = DOMAIN s.tracks
      /\ \A u \in DOMAIN s.tracks :
            q.tracks[u].events = IF u = t THEN Rest(es, m) ELSE s.tracks[u].events
  BY <1>1, WithoutSteady
<1> HIDE DEF r, q
<1>6. ASSUME NEW u \in DOMAIN s.tracks, NEW j \in DOMAIN r.tracks[u].events
      PROVE  /\ j \in DOMAIN s.tracks[u].events
             /\ r.tracks[u].events[j].kind = s.tracks[u].events[j].kind
             /\ r.tracks[u].events[j].pulses = s.tracks[u].events[j].pulses
  <2>1. /\ j \in DOMAIN q.tracks[u].events
        /\ SameEvent(r.tracks[u].events[j], q.tracks[u].events[j])
        /\ EventFields \subseteq DOMAIN q.tracks[u].events[j]
    BY <1>3, <1>5 DEF Same, SameEvents, Steady, Orderly, InOrder
  <2>2. /\ r.tracks[u].events[j].kind = q.tracks[u].events[j].kind
        /\ r.tracks[u].events[j].pulses = q.tracks[u].events[j].pulses
    BY <2>1 DEF SameEvent, EventFields
  <2>3. j \in DOMAIN s.tracks[u].events /\ q.tracks[u].events[j] = s.tracks[u].events[j]
    <3>1. CASE u = t
      <4>1. \A k \in DOMAIN Rest(es, m) : k \in DOMAIN es /\ Rest(es, m)[k] = es[k]
        BY <1>1, RestMarks
      <4>2. q.tracks[u].events = Rest(es, m) /\ s.tracks[u].events = es
        BY <1>5, <3>1
      <4> QED
        BY <2>1, <4>1, <4>2
    <3>2. CASE u # t
      BY <1>5, <2>1, <3>2
    <3> QED
      BY <3>1, <3>2
  <2> QED
    BY <2>2, <2>3
<1>7. ASSUME AllAlone(s, t) PROVE AllAlone(r, t)
  <2>1. DOMAIN r.tracks = DOMAIN s.tracks
    BY <1>3, <1>5 DEF Same, Alike
  <2> SUFFICES ASSUME NEW i \in DOMAIN r.tracks[t].events,
                      smf_event_is_tempo_change_or_time_signature(r.tracks[t].events[i])
               PROVE  r.tracks[t].events[i].pulses > 0 /\ Alone(r, t, i)
    BY DEF AllAlone
  <2>2. /\ i \in DOMAIN es /\ smf_event_is_tempo_change_or_time_signature(es[i])
        /\ r.tracks[t].events[i].pulses = es[i].pulses
    BY <1>6 DEF smf_event_is_tempo_change_or_time_signature
  <2>3. es[i].pulses > 0 /\ Alone(s, t, i)
    BY <1>7, <2>2 DEF AllAlone
  <2>4. ASSUME NEW e \in EventsIn(r), smf_event_is_tempo_change_or_time_signature(EventAt(r, e)),
               EventAt(r, e).pulses = es[i].pulses
        PROVE  e = << t, i >>
    <3>1. e[1] \in DOMAIN s.tracks /\ e[2] \in DOMAIN r.tracks[e[1]].events /\ e = << e[1], e[2] >>
      BY <2>1 DEF EventsIn
    <3>2. /\ e[2] \in DOMAIN s.tracks[e[1]].events
          /\ EventAt(r, e).kind = EventAt(s, e).kind /\ EventAt(r, e).pulses = EventAt(s, e).pulses
      BY <1>6, <3>1 DEF EventAt
    <3>3. e \in EventsIn(s)
      BY <3>1, <3>2 DEF EventsIn
    <3> QED
      BY <2>3, <2>4, <3>2, <3>3 DEF Alone, smf_event_is_tempo_change_or_time_signature
  <2> QED
    BY <2>2, <2>3, <2>4 DEF Alone
<1> QED
  BY <1>4, <1>7 DEF r

LEMMA TrackDeleteSynced ==
    ASSUME NEW s, Fits(s), Steady(s), Counted(s), InitialTempo \in Nat \ {0}, NEW t \in DOMAIN s.tracks
    PROVE  /\ Counted(smf_track_delete(s, t))
           /\ AllAlone(s, t) /\ Synced(s) => Synced(smf_track_delete(s, t))
<1> DEFINE n == Len(s.tracks[t].events)
           sound == AllAlone(s, t)
           h == CHOOSE g : Losing(g, t, s, n)
           Good(r, m) == /\ Steady(r) /\ Counted(r) /\ Alike(r, s)
                         /\ Len(r.tracks[t].events) = m
                         /\ sound => AllAlone(r, t) /\ (Synced(s) => Synced(r))
           S == {k \in 0 .. n : Good(h[k], n - k)}
<1>1. n \in Nat /\ n = Len(s.tracks[t].events)
  BY SequenceFacts DEF Fits, Songlike, Tracklike
<1>2. smf_track_delete(s, t) = smf_track_remove_from_smf(h[n], t)
  BY DEF smf_track_delete, Iterate, Losing
<1> HIDE DEF n
<1>3. h = [k \in 0 .. n |-> IF k = 0 THEN s ELSE LosesLast(h[k - 1], t)]
  <2>1. Losing(h, t, s, n)
    BY <1>1, LosingIterated
  <2> HIDE DEF h
  <2> QED
    BY <2>1 DEF Losing
<1> HIDE DEF h
<1>4. ASSUME NEW r, NEW m \in Nat, m >= 1, Good(r, m)
      PROVE  Good(LosesLast(r, t), m - 1)
  <2>1. t \in DOMAIN r.tracks
    BY <1>4 DEF Alike
  <2>2. /\ Steady(LosesLast(r, t)) /\ Alike(LosesLast(r, t), s)
        /\ Len(LosesLast(r, t).tracks[t].events) = m - 1
    BY <1>4, <2>1, LosesLastSteady, AlikeTransitive
  <2> HIDE DEF sound
  <2> QED
    BY <1>4, <2>1, <2>2, LosesLastSynced
<1>5. Good(s, n)
  BY <1>1, AlikeReflexive DEF Fits
<1> HIDE DEF Good, sound
<1>6. 0 \in S
  BY <1>1, <1>3, <1>5
<1>7. ASSUME NEW k \in S, k < n
      PROVE  k + 1 \in S
  <2>1. k + 1 \in 0 .. n /\ h[k + 1] = LosesLast(h[k], t)
    BY <1>1, <1>3, <1>7
  <2>2. n - k \in Nat /\ n - k >= 1 /\ (n - k) - 1 = n - (k + 1)
    BY <1>1, <1>7
  <2> QED
    BY <1>4, <2>1, <2>2
<1>8. S = 0 .. n
  <2> HIDE DEF S
  <2>1. S \in SUBSET (0 .. n)
    BY DEF S
  <2> QED
    BY <1>1, <1>6, <1>7, <2>1, Induction
<1>9. Good(h[n], 0)
  <2>1. n \in S /\ n - n = 0
    BY <1>1, <1>8
  <2> QED
    BY <2>1
<1>10. Fits(h[n]) /\ t \in DOMAIN h[n].tracks
  BY <1>9, FitsKept DEF Good, Alike
<1>11. \A e \in EventsIn(h[n]) : e[1] # t
  <2>1. DOMAIN h[n].tracks[t].events = {}
    <3>1. IsSequence(h[n].tracks[t].events) /\ Len(h[n].tracks[t].events) = 0
      BY <1>9, <1>10 DEF Good, Fits, Songlike, Tracklike
    <3> QED
      BY <3>1, SequenceFacts
  <2> QED
    BY <2>1 DEF EventsIn
<1> QED
  BY <1>2, <1>9, <1>10, <1>11, RemoveTrackSynced DEF Good, sound

\* The header is set; and its division only while there are no events.
LEMMA HeaderSynced ==
    ASSUME NEW s, Steady(s), Counted(s)
    PROVE  /\ \A f \in {0, 1} : /\ Counted(smf_set_format(s, f))
                                /\ Synced(s) => Synced(smf_set_format(s, f))
           /\ EventsIn(s) = {} =>
                 \A n \in Nat \ {0} : /\ Counted(smf_set_ppqn(s, n))
                                      /\ Synced(s) => Synced(smf_set_ppqn(s, n))
<1>1. Songlike(s)
  BY DEF Steady, Orderly
<1>2. ASSUME NEW f \in {0, 1}
      PROVE  Counted(smf_set_format(s, f)) /\ (Synced(s) => Synced(smf_set_format(s, f)))
  <2>1. Unmoved(smf_set_format(s, f), s)
    BY <1>1 DEF smf_set_format, Unmoved, Songlike, SongFields
  <2> QED
    BY <2>1, UnmovedMarks
<1>3. ASSUME EventsIn(s) = {}, NEW n \in Nat \ {0}
      PROVE  Counted(smf_set_ppqn(s, n)) /\ (Synced(s) => Synced(smf_set_ppqn(s, n)))
  <2> DEFINE r == smf_set_ppqn(s, n)
  <2>1. r = [s EXCEPT !.ppqn = n]
    <3>1. ~(n <= 0)
      OBVIOUS
    <3> QED
      BY <3>1 DEF smf_set_ppqn
  <2>2. r.tracks = s.tracks /\ r.tempos = s.tempos /\ r.ppqn = n
    BY <1>1, <2>1 DEF Songlike, SongFields
  <2> HIDE DEF r
  <2>3. Marks(s) = {} /\ Marks(r) = {}
    BY <1>3, <2>2 DEF Marks, EventsIn
  <2>4. Counted(r)
    BY <2>2, <2>3 DEF Counted, Valued
  <2>5. ASSUME Synced(s) PROVE Synced(r)
    <3>1. \A i \in DOMAIN s.tempos : s.tempos[i].pulses = 0
      BY <2>3, <2>5 DEF Synced, Known
    <3>2. \A i \in DOMAIN s.tempos : ~(i > 1)
      <4> SUFFICES ASSUME NEW i \in DOMAIN s.tempos, i > 1 PROVE FALSE
        OBVIOUS
      <4>1. Len(s.tempos) \in Nat /\ DOMAIN s.tempos = 1 .. Len(s.tempos)
        BY <2>5, SequenceFacts DEF Synced, Linked
      <4>2. i - 1 \in DOMAIN s.tempos
        BY <4>1
      <4>3. s.tempos[i - 1].pulses < s.tempos[i].pulses
        BY <2>5 DEF Synced, Linked
      <4> QED
        BY <3>1, <4>2, <4>3
    <3>3. Linked(r)
      BY <2>2, <2>5, <3>2 DEF Synced, Linked, Begun
    <3> QED
      BY <2>2, <2>3, <2>5, <3>1, <3>3 DEF Synced, InStep, Known
  <2> QED
    BY <2>4, <2>5 DEF r
<1> QED
  BY <1>2, <1>3

LEMMA NewSynced ==
    ASSUME InitialPpqn \in Nat \ {0}, InitialTempo \in Nat \ {0}
    PROVE  Counted(smf_new) /\ Synced(smf_new)
<1> DEFINE blank == [tracks |-> << >>, tempos |-> << >>, format |-> 0, ppqn |-> InitialPpqn,
                     seek |-> 0, failed |-> ""]
           q == smf_set_format(smf_set_ppqn(blank, InitialPpqn), 0)
<1>1. smf_new = smf_init_tempo(q)
  BY DEF smf_new
<1>2. q.tracks = << >> /\ q.ppqn = InitialPpqn /\ SongFields \subseteq DOMAIN q
  <2> DEFINE p == smf_set_ppqn(blank, InitialPpqn)
  <2>1. p = [blank EXCEPT !.ppqn = InitialPpqn]
    <3>1. ~(InitialPpqn <= 0)
      OBVIOUS
    <3> HIDE DEF blank
    <3> QED
      BY <3>1 DEF smf_set_ppqn
  <2>2. p.tracks = << >> /\ p.ppqn = InitialPpqn /\ SongFields \subseteq DOMAIN p
    BY <2>1 DEF SongFields
  <2> HIDE DEF p
  <2>3. smf_set_format(p, 0) = p \/ smf_set_format(p, 0) = [p EXCEPT !.format = 0]
    BY DEF smf_set_format
  <2> QED
    BY <2>2, <2>3 DEF SongFields, p
<1> HIDE DEF q
<1>3. IsSequence(<< >>) /\ DOMAIN << >> = {}
  BY NewTrack_Empty
<1>4. Songlike(q)
  BY <1>2, <1>3 DEF Songlike
<1>5. Linked(smf_new) /\ smf_new.tracks = << >> /\ Len(smf_new.tempos) = 1
  BY <1>1, <1>2, <1>4, smf_init_tempoLinked
<1> HIDE DEF smf_new
<1>6. Marks(smf_new) = {}
  BY <1>3, <1>5 DEF Marks, EventsIn
<1>7. \A i \in DOMAIN smf_new.tempos : smf_new.tempos[i].pulses = 0
  <2>1. DOMAIN smf_new.tempos = 1 .. 1
    BY <1>5, SequenceFacts DEF Linked
  <2> QED
    BY <1>5, <2>1 DEF Linked, Begun
<1> QED
  BY <1>5, <1>6, <1>7 DEF Counted, Synced, Valued, InStep, Known, Linked
=============================================================================
