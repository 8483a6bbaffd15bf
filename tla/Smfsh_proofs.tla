---------------------------- MODULE Smfsh_proofs ----------------------------
(***************************************************************************)
(* That the numbers of the tracks and the format of a song stay right      *)
(* whatever the shell is told: what loading does to the outline of a song, *)
(* and the commands.  Then that the selection stays right: what the        *)
(* library does to the tags of the events, the division and the entries of *)
(* the tempo map, and the commands again.                                  *)
(***************************************************************************)
EXTENDS Smfsh, SongData_proofs

-----------------------------------------------------------------------------
(* A song that is loaded.                                                   *)

\* The events of a track are loaded.
LoadingEvents(g, tr, first, n) ==
    g = [k \in 0 .. n |-> IF k = 0 THEN first ELSE LoadEvent(g[k - 1], tr, k)]

LEMMA EventsIterated ==
    ASSUME NEW tr, NEW first, NEW n \in Nat
    PROVE  \E g : LoadingEvents(g, tr, first, n)
<1> DEFINE Built(m) == \E g : LoadingEvents(g, tr, first, m)
           S == {m \in 0 .. n : Built(m)}
<1>1. Built(0)
  <2> DEFINE g == [k \in 0 .. 0 |-> first]
  <2>1. LoadingEvents(g, tr, first, 0)
    BY DEF LoadingEvents
  <2> HIDE DEF g
  <2> QED
    BY <2>1
<1>2. ASSUME NEW m \in 0 .. n, Built(m)
      PROVE  Built(m + 1)
  <2>1. PICK g : LoadingEvents(g, tr, first, m)
    BY <1>2
  <2> DEFINE f == [k \in 0 .. m + 1 |-> IF k = m + 1 THEN LoadEvent(g[m], tr, m + 1) ELSE g[k]]
  <2>2. LoadingEvents(f, tr, first, m + 1)
    BY <2>1 DEF LoadingEvents
  <2> HIDE DEF f
  <2> QED
    BY <2>2
<1> HIDE DEF Built
<1>3. 0 \in S /\ \A m \in S : m < n => m + 1 \in S
  BY <1>1, <1>2
<1>4. S = 0 .. n
  <2>1. S \in SUBSET (0 .. n)
    OBVIOUS
  <2> HIDE DEF S
  <2> QED
    BY <1>3, <2>1, Induction
<1> QED
  BY <1>4 DEF Built

LEMMA LoadTrackFits ==
    ASSUME NEW s, Fits(s), NEW file, NEW t, Len(file[t]) \in Nat
    PROVE  Fits(LoadTrack(s, file, t)) /\ Len(LoadTrack(s, file, t).tracks) = Len(s.tracks) + 1
<1> DEFINE tr == file[t]
           n == Len(tr)
           first == smf_add_track(s, smf_track_new)
           h == CHOOSE g : LoadingEvents(g, tr, first, n)
           S == {k \in 0 .. n : Alike(h[k], first)}
<1>1. n \in Nat
  OBVIOUS
<1>2. LoadTrack(s, file, t) = h[n]
  BY DEF LoadTrack, LoadingEvents
<1>3. Fits(first) /\ Len(first.tracks) = Len(s.tracks) + 1
  BY AddTrackFits, NewTrack_Empty
<1> HIDE DEF tr, n, first
<1>4. h = [k \in 0 .. n |-> IF k = 0 THEN first ELSE LoadEvent(h[k - 1], tr, k)]
  <2>1. LoadingEvents(h, tr, first, n)
    BY <1>1, EventsIterated
  <2> HIDE DEF h
  <2> QED
    BY <2>1 DEF LoadingEvents
<1>5. \A r, i : Songlike(r) => Alike(LoadEvent(r, tr, i), r)
  BY AddedOutline DEF LoadEvent
<1> HIDE DEF h
<1>6. 0 \in S
  BY <1>1, <1>3, <1>4, AlikeReflexive DEF Fits
<1>7. ASSUME NEW k \in S, k < n
      PROVE  k + 1 \in S
  <2>1. h[k + 1] = LoadEvent(h[k], tr, k + 1) /\ k + 1 \in 0 .. n
    BY <1>1, <1>4, <1>7
  <2>2. Alike(h[k], first) /\ Songlike(h[k])
    BY AlikeSonglike
  <2>3. Alike(h[k + 1], first)
    BY <1>5, <2>1, <2>2, AlikeTransitive
  <2> QED
    BY <2>1, <2>3
<1>8. S = 0 .. n
  <2>1. S \in SUBSET (0 .. n)
    OBVIOUS
  <2> HIDE DEF S
  <2> QED
    BY <1>1, <1>6, <1>7, <2>1, Induction
<1>9. Alike(h[n], first)
  BY <1>1, <1>8
<1> QED
  BY <1>2, <1>3, <1>9, FitsKept

\* The header says what it likes of the format: there is no track yet.
LEMMA HeaderRead ==
    ASSUME NEW format, NEW ppqn
    PROVE  LET s == [smf_new EXCEPT !.format = format, !.ppqn = ppqn]
           IN  Fits(s) /\ Len(s.tracks) = 0
<1> DEFINE new == smf_new
           s == [new EXCEPT !.format = format, !.ppqn = ppqn]
<1>1. Fits(new) /\ Len(new.tracks) = 0
  BY NewFits
<1> HIDE DEF new
<1>2. s.tracks = new.tracks /\ DOMAIN s = DOMAIN new
  BY <1>1 DEF Fits, Songlike, SongFields
<1> HIDE DEF s
<1>3. Fits(s) /\ Len(s.tracks) = 0
  <2>1. DOMAIN new.tracks = 1 .. 0
    BY <1>1, SequenceFacts DEF Fits, Songlike
  <2> QED
    BY <1>1, <1>2, <2>1 DEF Fits, Songlike
<1> QED
  BY <1>3 DEF s, new

\* The tracks of a file are loaded.
LoadingTracks(g, file, first, n) ==
    g = [k \in 0 .. n |-> IF k = 0 THEN first ELSE LoadTrack(g[k - 1], file, k)]

LEMMA TracksIterated ==
    ASSUME NEW file, NEW first, NEW n \in Nat
    PROVE  \E g : LoadingTracks(g, file, first, n)
<1> DEFINE Built(m) == \E g : LoadingTracks(g, file, first, m)
           S == {m \in 0 .. n : Built(m)}
<1>1. Built(0)
  <2> DEFINE g == [k \in 0 .. 0 |-> first]
  <2>1. LoadingTracks(g, file, first, 0)
    BY DEF LoadingTracks
  <2> HIDE DEF g
  <2> QED
    BY <2>1
<1>2. ASSUME NEW m \in 0 .. n, Built(m)
      PROVE  Built(m + 1)
  <2>1. PICK g : LoadingTracks(g, file, first, m)
    BY <1>2
  <2> DEFINE f == [k \in 0 .. m + 1 |-> IF k = m + 1 THEN LoadTrack(g[m], file, m + 1) ELSE g[k]]
  <2>2. LoadingTracks(f, file, first, m + 1)
    BY <2>1 DEF LoadingTracks
  <2> HIDE DEF f
  <2> QED
    BY <2>2
<1> HIDE DEF Built
<1>3. 0 \in S /\ \A m \in S : m < n => m + 1 \in S
  BY <1>1, <1>2
<1>4. S = 0 .. n
  <2>1. S \in SUBSET (0 .. n)
    OBVIOUS
  <2> HIDE DEF S
  <2> QED
    BY <1>3, <2>1, Induction
<1> QED
  BY <1>4 DEF Built

Readable(file) == Len(file) \in Nat /\ \A t \in 1 .. Len(file) : Len(file[t]) \in Nat

LEMMA LoadFits ==
    ASSUME NEW file, Readable(file), NEW format, NEW ppqn
    PROVE  /\ Fits(smf_load(file, format, ppqn))
           /\ Len(smf_load(file, format, ppqn).tracks) = Len(file)
<1> DEFINE n == Len(file)
           first == [smf_new EXCEPT !.format = format, !.ppqn = ppqn]
           h == CHOOSE g : LoadingTracks(g, file, first, n)
           S == {k \in 0 .. n : Fits(h[k]) /\ Len(h[k].tracks) = k}
<1>1. n \in Nat /\ \A t \in 1 .. n : Len(file[t]) \in Nat
  BY DEF Readable
<1>2. smf_load(file, format, ppqn) = smf_rewind(h[n])
  BY DEF smf_load, LoadingTracks
<1>3. Len(file) = n
  OBVIOUS
<1>4. Fits(first) /\ Len(first.tracks) = 0
  BY HeaderRead
<1> HIDE DEF n, first
<1>5. h = [k \in 0 .. n |-> IF k = 0 THEN first ELSE LoadTrack(h[k - 1], file, k)]
  <2>1. LoadingTracks(h, file, first, n)
    BY <1>1, TracksIterated
  <2> HIDE DEF h
  <2> QED
    BY <2>1 DEF LoadingTracks
<1> HIDE DEF h
<1>6. 0 \in S
  BY <1>1, <1>5, <1>4
<1>7. ASSUME NEW k \in S, k < n
      PROVE  k + 1 \in S
  <2>1. h[k + 1] = LoadTrack(h[k], file, k + 1) /\ k + 1 \in 0 .. n /\ k + 1 \in 1 .. n
    BY <1>1, <1>5, <1>7
  <2>2. Fits(h[k]) /\ Len(h[k].tracks) = k
    OBVIOUS
  <2>3. Fits(h[k + 1]) /\ Len(h[k + 1].tracks) = k + 1
    BY <1>1, <2>1, <2>2, LoadTrackFits
  <2> QED
    BY <2>1, <2>3
<1>8. S = 0 .. n
  <2>1. S \in SUBSET (0 .. n)
    OBVIOUS
  <2> HIDE DEF S
  <2> QED
    BY <1>1, <1>6, <1>7, <2>1, Induction
<1>9. Fits(h[n]) /\ Len(h[n].tracks) = n
  BY <1>1, <1>8
<1>10. Alike(smf_rewind(h[n]), h[n])
  BY <1>9, smf_rewindSame, SameAlike DEF Fits
<1> QED
  BY <1>2, <1>3, <1>9, <1>10, FitsKept

-----------------------------------------------------------------------------
(* The commands.                                                            *)

ShellInv == Fits(smf) /\ selected_track \in {NoTrack} \cup DOMAIN smf.tracks

LEMMA Places ==
    ASSUME NEW s, Fits(s)
    PROVE  Len(s.tracks) \in Nat /\ DOMAIN s.tracks = 1 .. Len(s.tracks)
BY SequenceFacts DEF Fits, Songlike

\* A song of the same outline keeps the track that is selected.
LEMMA AlikeStep ==
    ASSUME ShellInv, Alike(smf', smf), UNCHANGED selected_track
    PROVE  ShellInv'
<1>1. Fits(smf')
  BY FitsKept DEF ShellInv
<1>2. DOMAIN smf'.tracks = DOMAIN smf.tracks
  BY DEF Alike
<1> QED
  BY <1>1, <1>2 DEF ShellInv

LEMMA Loaded ==
    ASSUME NEW file \in Files, NEW format, NEW ppqn
    PROVE  /\ Fits(smf_load(file, format, ppqn))
           /\ file # << >> => 1 \in DOMAIN smf_load(file, format, ppqn).tracks
<1>1. file \in Seq(Seq(Nat \X [kind : Kind, val : Nat]))
  BY SmfshAssumption
<1>2. Readable(file)
  BY <1>1 DEF Readable
<1>3. file # << >> => Len(file) >= 1
  BY <1>1
<1> QED
  BY <1>2, <1>3, LoadFits, Places

LEMMA StartInv == Init => ShellInv
<1> SUFFICES ASSUME Init PROVE ShellInv
  OBVIOUS
<1>1. CASE smf = smf_add_track(smf_new, smf_track_new) /\ selected_track = 1
  <2> DEFINE r == smf_new
  <2>1. Fits(r) /\ Len(r.tracks) = 0
    BY NewFits
  <2>2. smf = smf_add_track(r, smf_track_new)
    BY <1>1
  <2> HIDE DEF r
  <2>3. /\ Fits(smf_add_track(r, smf_track_new))
        /\ Len(smf_add_track(r, smf_track_new).tracks) = Len(r.tracks) + 1
    BY <2>1, AddTrackFits, NewTrack_Empty
  <2>4. Fits(smf) /\ Len(smf.tracks) = 1
    BY <2>1, <2>2, <2>3
  <2> QED
    BY <1>1, <2>4, Places DEF ShellInv
<1>2. CASE \E file \in Files, h \in Headers :
              /\ smf = smf_load(file, h[1], h[2])
              /\ selected_track = IF file = << >> THEN NoTrack ELSE 1
  BY <1>2, Loaded DEF ShellInv
<1>3. CASE smf = smf_new /\ selected_track = NoTrack
  BY <1>3, NewFits DEF ShellInv
<1> QED
  BY <1>1, <1>2, <1>3 DEF Init

LEMMA LoadStep ==
    ASSUME ShellInv, cmd_load
    PROVE  ShellInv'
<1>1. CASE Selects(smf_delete(smf), NoTrack, NoEvent)
  BY <1>1, DeleteFits DEF ShellInv, Selects
<1>2. CASE \E file \in Files, h \in Headers :
              Selects(smf_load(file, h[1], h[2]), IF file = << >> THEN NoTrack ELSE 1, NoEvent)
  BY <1>2, Loaded DEF ShellInv, Selects
<1>3. CASE Selects(smf_new, NoTrack, NoEvent)
  BY <1>3, NewFits DEF ShellInv, Selects
<1> QED
  BY <1>1, <1>2, <1>3 DEF cmd_load

LEMMA SaveStep ==
    ASSUME ShellInv, cmd_save
    PROVE  ShellInv'
<1> DEFINE valid == smf_validate(smf_rewind(smf), {}, [t \in DOMAIN smf.tracks |-> Fresh(t)])
           s == IF valid.ok THEN WrittenOut(valid.song) ELSE valid.song
<1>1. Songlike(smf)
  BY DEF ShellInv, Fits
<1>2. Alike(valid.song, smf) /\ Songlike(valid.song)
  <2>1. Alike(smf_rewind(smf), smf) /\ Songlike(smf_rewind(smf))
    BY <1>1, smf_rewindSame, SameAlike, AlikeSonglike
  <2> QED
    BY <2>1, smf_validateOutline, AlikeTransitive, AlikeSonglike
<1> HIDE DEF valid
<1>3. Alike(s, smf) /\ Songlike(s)
  BY <1>2, WrittenOutSame, SameAlike, AlikeTransitive, AlikeSonglike
<1>4. smf' \in {s, Abort(s, "identical")} /\ UNCHANGED selected_track
  BY DEF cmd_save, Selects, valid
<1> HIDE DEF s
<1>5. Alike(smf', smf)
  BY <1>3, <1>4, AbortSame, SameAlike, AlikeTransitive
<1> QED
  BY <1>4, <1>5, AlikeStep

LEMMA HeaderStep ==
    ASSUME ShellInv, NEW n, cmd_ppqn(n) \/ cmd_format(n)
    PROVE  ShellInv'
<1>1. Fits(smf') /\ UNCHANGED selected_track
  BY HeaderFits DEF ShellInv, cmd_ppqn, cmd_format, Selects
<1>2. smf'.tracks = smf.tracks
  <2>1. {"tracks", "failed", "format", "ppqn"} \subseteq DOMAIN smf
    BY DEF ShellInv, Fits, Songlike, SongFields
  <2> QED
    BY <2>1 DEF cmd_ppqn, cmd_format, Selects, smf_set_ppqn, smf_set_format, Abort
<1> QED
  BY <1>1, <1>2 DEF ShellInv

LEMMA ParsedTrack ==
    ASSUME ShellInv, NEW arg, parse_track_number(arg) # -1
    PROVE  parse_track_number(arg) \in DOMAIN smf.tracks
<1>1. selected_track # NoTrack => smf.tracks[selected_track].number = selected_track
  BY DEF ShellInv, Fits
<1> QED
  BY <1>1 DEF ShellInv, parse_track_number

LEMMA TrackStep ==
    ASSUME ShellInv, NEW arg, cmd_track(arg)
    PROVE  ShellInv'
BY ParsedTrack DEF cmd_track, Selects, ShellInv

LEMMA TrackAddStep ==
    ASSUME ShellInv, cmd_trackadd
    PROVE  ShellInv'
<1> DEFINE r == smf_add_track(smf, smf_track_new)
<1>1. Fits(r) /\ Len(r.tracks) = Len(smf.tracks) + 1
  BY AddTrackFits, NewTrack_Empty DEF ShellInv
<1>2. Len(smf.tracks) \in Nat
  BY Places DEF ShellInv
<1>3. DOMAIN r.tracks = 1 .. Len(r.tracks)
  <2> HIDE DEF r
  <2> QED
    BY <1>1, Places
<1> HIDE DEF r
<1>4. smf' = r /\ selected_track' = Len(smf.tracks) + 1
  BY DEF cmd_trackadd, Selects, r
<1> QED
  BY <1>1, <1>2, <1>3, <1>4 DEF ShellInv

LEMMA TrackRemoveStep ==
    ASSUME ShellInv, NEW arg, cmd_trackrm(arg)
    PROVE  ShellInv'
<1> DEFINE num == parse_track_number(arg)
           s == smf_track_delete(smf, num)
           n == Len(smf.tracks)
<1>1. num \in DOMAIN smf.tracks
  BY ParsedTrack DEF cmd_trackrm
<1>2. n \in Nat /\ DOMAIN smf.tracks = 1 .. n
  BY Places DEF ShellInv
<1>3. Fits(s) /\ Len(s.tracks) = n - 1
  <2> HIDE DEF num
  <2> QED
    BY <1>1, TrackDeleteFits DEF ShellInv
<1>4. DOMAIN s.tracks = 1 .. n - 1
  <2> HIDE DEF s
  <2> QED
    BY <1>3, Places
<1>5. selected_track # NoTrack =>
         selected_track \in 1 .. n /\ smf.tracks[selected_track].number = selected_track
  BY <1>2 DEF ShellInv, Fits
<1>6. smf' = s /\ \/ selected_track' = NoTrack
                  \/ /\ selected_track = NoTrack \/ num # smf.tracks[selected_track].number
                     /\ selected_track' = IF num < selected_track THEN selected_track - 1
                                                                  ELSE selected_track
  BY DEF cmd_trackrm, Selects
<1> HIDE DEF num, s, n
<1>7. selected_track' \in {NoTrack} \cup 1 .. n - 1
  <2>1. CASE selected_track = NoTrack
    BY <1>1, <1>2, <1>6, <2>1 DEF NoTrack
  <2>2. CASE selected_track # NoTrack
    BY <1>1, <1>2, <1>5, <1>6, <2>2
  <2> QED
    BY <2>1, <2>2
<1> QED
  BY <1>3, <1>4, <1>6, <1>7 DEF ShellInv

LEMMA EventStep ==
    ASSUME ShellInv,
           \/ cmd_events
           \/ \E arg \in Args : cmd_event(arg) \/ cmd_eventrm(arg)
           \/ \E x \in Seconds : \/ \E m \in Messages : cmd_eventadd(m, x)
                                 \/ cmd_text(x) \/ cmd_eventaddeot(x)
    PROVE  ShellInv'
<1>1. Songlike(smf)
  BY DEF ShellInv, Fits
<1>2. \A ev, x : AddSelected(ev, x) => Alike(smf', smf) /\ UNCHANGED selected_track
  BY <1>1, AddedOutline DEF AddSelected, Selects
<1>3. CASE cmd_events
  BY <1>1, <1>3, smf_rewindSame, SameAlike, AlikeStep DEF cmd_events, Selects
<1>4. CASE \E arg \in Args : cmd_event(arg)
  BY <1>1, <1>4, AlikeReflexive, AlikeStep DEF cmd_event, Selects
<1>5. CASE \E arg \in Args : cmd_eventrm(arg)
  BY <1>1, <1>5, smf_event_removeOutline, AlikeStep DEF cmd_eventrm, Selects
<1>6. CASE \E x \in Seconds : \E m \in Messages : cmd_eventadd(m, x)
  BY <1>1, <1>2, <1>6, AlikeReflexive, AbortSame, SameAlike, AlikeStep DEF cmd_eventadd, Selects
<1>7. CASE \E x \in Seconds : cmd_text(x)
  BY <1>1, <1>2, <1>7, AbortSame, SameAlike, AlikeStep DEF cmd_text, Selects
<1>8. CASE \E x \in Seconds : cmd_eventaddeot(x)
  BY <1>1, <1>8, AddedOutline, AlikeStep DEF cmd_eventaddeot, Selects
<1> QED
  BY <1>3, <1>4, <1>5, <1>6, <1>7, <1>8

LEMMA ShellStep ==
    ShellInv /\ [Next]_vars => ShellInv'
<1> SUFFICES ASSUME ShellInv, [Next]_vars PROVE ShellInv'
  OBVIOUS
<1>1. CASE UNCHANGED vars
  BY <1>1 DEF vars, ShellInv
<1>2. CASE Next
  BY <1>2, LoadStep, SaveStep, HeaderStep, TrackStep, TrackAddStep, TrackRemoveStep, EventStep
     DEF Next
<1> QED
  BY <1>1, <1>2

LEMMA ShellInvariant == Spec => []ShellInv
BY StartInv, ShellStep, PTL DEF Spec

\* However tracks are added, removed, loaded and saved, and whatever format is
\* asked for, every number of a track is its place, so that `trackrm' with the
\* number of the selected track (smfsh.c:319) removes that one, and a song that
\* says it has format 0 has one track at most.
THEOREM OutlineCorrect == Spec => []TracksFitFormat
<1>1. ShellInv => TracksFitFormat
  BY DEF ShellInv, Fits, TracksFitFormat
<1> QED
  BY <1>1, ShellInvariant, PTL

-----------------------------------------------------------------------------
(* Which event is which.                                                    *)

\* The tags of a track's events, and that they tell them apart.
TagSet(es) == {es[i].tag : i \in DOMAIN es}
Distinct(es) == \A i, j \in DOMAIN es : es[i].tag = es[j].tag => i = j
Kinds(es) == \A i \in DOMAIN es : es[i].kind \in Kind

\* The events of a song are told apart by their tags, and are of some kind.
Named(s) ==
    /\ \A t \in DOMAIN s.tracks : Distinct(s.tracks[t].events) /\ Kinds(s.tracks[t].events)
    /\ \A t, u \in DOMAIN s.tracks :
          t # u => TagSet(s.tracks[t].events) \cap TagSet(s.tracks[u].events) = {}

LEMMA TagsAre ==
    ASSUME NEW s
    PROVE  /\ \A x \in Tags(s) : \E t \in DOMAIN s.tracks : x \in TagSet(s.tracks[t].events)
           /\ \A t \in DOMAIN s.tracks : TagSet(s.tracks[t].events) \subseteq Tags(s)
<1>1. ASSUME NEW x \in Tags(s)
      PROVE  \E t \in DOMAIN s.tracks : x \in TagSet(s.tracks[t].events)
  <2>1. PICK e \in EventsIn(s) : x = EventAt(s, e).tag
    BY DEF Tags
  <2>2. PICK t \in DOMAIN s.tracks : e \in {t} \X DOMAIN s.tracks[t].events
    BY DEF EventsIn
  <2> QED
    BY <2>1, <2>2 DEF EventAt, TagSet
<1>2. ASSUME NEW t \in DOMAIN s.tracks, NEW i \in DOMAIN s.tracks[t].events
      PROVE  s.tracks[t].events[i].tag \in Tags(s)
  <2>1. << t, i >> \in EventsIn(s)
    BY DEF EventsIn
  <2>2. EventAt(s, << t, i >>) = s.tracks[t].events[i]
    BY DEF EventAt
  <2> QED
    BY <2>1, <2>2 DEF Tags
<1>3. ASSUME NEW t \in DOMAIN s.tracks, NEW x \in TagSet(s.tracks[t].events)
      PROVE  x \in Tags(s)
  BY <1>2 DEF TagSet
<1> QED
  BY <1>1, <1>3

LEMMA SameNames ==
    ASSUME NEW es, InOrder(es), NEW fs, SameEvents(fs, es)
    PROVE  /\ TagSet(fs) = TagSet(es)
           /\ Distinct(es) => Distinct(fs)
           /\ Kinds(es) => Kinds(fs)
<1>1. DOMAIN fs = DOMAIN es
  BY DEF SameEvents
<1>2. \A i \in DOMAIN es : fs[i].tag = es[i].tag /\ fs[i].kind = es[i].kind
  BY DEF SameEvents, SameEvent, InOrder, EventFields
<1> QED
  BY <1>1, <1>2 DEF TagSet, Distinct, Kinds

\* One event goes: it takes its own tag with it.
LEMMA RestNames ==
    ASSUME NEW es, InOrder(es), NEW i \in DOMAIN es
    PROVE  /\ TagSet(Rest(es, i)) \subseteq TagSet(es)
           /\ \A j \in DOMAIN es : j # i => es[j].tag \in TagSet(Rest(es, i))
           /\ Distinct(es) => Distinct(Rest(es, i))
           /\ Kinds(es) => Kinds(Rest(es, i))
<1> DEFINE n == Len(es)
           fs == Rest(es, i)
           From(j) == IF j < i THEN j ELSE j + 1
<1>1. n \in Nat /\ DOMAIN es = 1 .. n /\ i \in 1 .. n
  BY SequenceFacts DEF InOrder
<1>2. DOMAIN fs = 1 .. n - 1
  BY RestSequence DEF InOrder
<1>3. ASSUME NEW j \in 1 .. n - 1
      PROVE  From(j) \in 1 .. n /\ fs[j].tag = es[From(j)].tag /\ fs[j].kind = es[From(j)].kind
  <2>1. j \in 1 .. n /\ j + 1 \in 1 .. n /\ From(j) \in 1 .. n
    BY <1>1
  <2>2. CASE j < i
    BY <2>1, <2>2 DEF Rest
  <2>3. CASE ~(j < i)
    <3> DEFINE e == es[j + 1]
               d == IF j + 1 = i + 1 THEN e.delta + es[i].delta ELSE e.delta
    <3>1. fs[j] = [e EXCEPT !.number = (j + 1) - 1, !.delta = d]
      BY <2>3 DEF Rest
    <3>2. EventFields \subseteq DOMAIN e
      BY <1>1, <2>1 DEF InOrder
    <3> HIDE DEF d, e, fs
    <3>3. fs[j].tag = e.tag /\ fs[j].kind = e.kind
      BY <3>1, <3>2 DEF EventFields
    <3>4. From(j) = j + 1
      BY <2>3
    <3> QED
      BY <2>1, <3>3, <3>4 DEF e
  <2> QED
    BY <2>2, <2>3
<1>4. \A j, k \in 1 .. n - 1 : From(j) = From(k) => j = k
  BY <1>1
<1>5. \A j \in 1 .. n : j # i => \E k \in 1 .. n - 1 : From(k) = j
  <2> SUFFICES ASSUME NEW j \in 1 .. n, j # i PROVE \E k \in 1 .. n - 1 : From(k) = j
    OBVIOUS
  <2>1. CASE j < i
    <3>1. j \in 1 .. n - 1 /\ From(j) = j
      BY <1>1, <2>1
    <3> QED
      BY <3>1
  <2>2. CASE j > i
    <3>1. j - 1 \in 1 .. n - 1 /\ From(j - 1) = j
      BY <1>1, <2>2
    <3> QED
      BY <3>1
  <2> QED
    BY <1>1, <2>1, <2>2
<1> HIDE DEF fs, From, n
<1>6. TagSet(fs) \subseteq TagSet(es)
  BY <1>1, <1>2, <1>3 DEF TagSet
<1>7. \A j \in DOMAIN es : j # i => es[j].tag \in TagSet(fs)
  BY <1>1, <1>2, <1>3, <1>5 DEF TagSet
<1>8. Distinct(es) => Distinct(fs)
  BY <1>1, <1>2, <1>3, <1>4 DEF Distinct
<1>9. Kinds(es) => Kinds(fs)
  BY <1>1, <1>2, <1>3 DEF Kinds
<1> QED
  BY <1>6, <1>7, <1>8, <1>9 DEF fs

\* One event more, at any place, with a tag that no other has.
Joins(fs, es, ev, n, m) ==
    /\ DOMAIN fs = 1 .. n + 1
    /\ fs[m + 1].tag = ev.tag /\ fs[m + 1].kind = ev.kind
    /\ \A k \in 1 .. n + 1 : k <= m => fs[k].tag = es[k].tag /\ fs[k].kind = es[k].kind
    /\ \A k \in 1 .. n + 1 : k > m + 1 => fs[k].tag = es[k - 1].tag /\ fs[k].kind = es[k - 1].kind

LEMMA JoinsNames ==
    ASSUME NEW es, NEW n \in Nat, DOMAIN es = 1 .. n, NEW ev, ev.tag \notin TagSet(es),
           NEW m \in 0 .. n, NEW fs, Joins(fs, es, ev, n, m)
    PROVE  /\ TagSet(fs) = TagSet(es) \cup {ev.tag}
           /\ Distinct(es) => Distinct(fs)
           /\ Kinds(es) /\ ev.kind \in Kind => Kinds(fs)
<1> DEFINE From(k) == IF k <= m THEN k ELSE k - 1
<1>1. \A k \in 1 .. n + 1 : k # m + 1 =>
         From(k) \in 1 .. n /\ fs[k].tag = es[From(k)].tag /\ fs[k].kind = es[From(k)].kind
  <2> SUFFICES ASSUME NEW k \in 1 .. n + 1, k # m + 1
               PROVE  From(k) \in 1 .. n /\ fs[k].tag = es[From(k)].tag /\ fs[k].kind = es[From(k)].kind
    OBVIOUS
  <2>1. CASE k <= m
    <3>1. From(k) = k /\ k \in 1 .. n
      BY <2>1
    <3>2. fs[k].tag = es[k].tag /\ fs[k].kind = es[k].kind
      BY <2>1 DEF Joins
    <3> QED
      BY <3>1, <3>2
  <2>2. CASE k > m
    <3>1. From(k) = k - 1 /\ k - 1 \in 1 .. n
      BY <2>2
    <3>2. fs[k].tag = es[k - 1].tag /\ fs[k].kind = es[k - 1].kind
      BY <2>2 DEF Joins
    <3> QED
      BY <3>1, <3>2
  <2> QED
    BY <2>1, <2>2
<1>2. \A j, k \in 1 .. n + 1 : j # m + 1 /\ k # m + 1 /\ From(j) = From(k) => j = k
  OBVIOUS
<1>3. \A i \in 1 .. n : \E k \in 1 .. n + 1 : k # m + 1 /\ From(k) = i
  <2> SUFFICES ASSUME NEW i \in 1 .. n PROVE \E k \in 1 .. n + 1 : k # m + 1 /\ From(k) = i
    OBVIOUS
  <2>1. CASE i <= m
    <3>1. i \in 1 .. n + 1 /\ i # m + 1 /\ From(i) = i
      BY <2>1
    <3> QED
      BY <3>1
  <2>2. CASE i > m
    <3>1. i + 1 \in 1 .. n + 1 /\ i + 1 # m + 1 /\ From(i + 1) = i
      BY <2>2
    <3> QED
      BY <3>1
  <2> QED
    BY <2>1, <2>2
<1>4. /\ m + 1 \in 1 .. n + 1 /\ DOMAIN fs = 1 .. n + 1
      /\ fs[m + 1].tag = ev.tag /\ fs[m + 1].kind = ev.kind
  BY DEF Joins
<1> HIDE DEF From
<1>5. TagSet(fs) \subseteq TagSet(es) \cup {ev.tag}
  BY <1>1, <1>4 DEF TagSet
<1>6. TagSet(es) \subseteq TagSet(fs) /\ ev.tag \in TagSet(fs)
  <2>1. ASSUME NEW i \in 1 .. n PROVE es[i].tag \in TagSet(fs)
    <3>1. PICK k \in 1 .. n + 1 : k # m + 1 /\ From(k) = i
      BY <1>3
    <3>2. fs[k].tag = es[i].tag /\ k \in DOMAIN fs
      BY <1>1, <1>4, <3>1
    <3> QED
      BY <3>2 DEF TagSet
  <2>2. ev.tag \in TagSet(fs)
    BY <1>4 DEF TagSet
  <2>3. TagSet(es) \subseteq TagSet(fs)
    BY <2>1 DEF TagSet
  <2> QED
    BY <2>2, <2>3
<1>7. ASSUME Distinct(es), NEW j \in 1 .. n + 1, NEW k \in 1 .. n + 1, fs[j].tag = fs[k].tag
      PROVE  j = k
  <2>1. \A i \in 1 .. n + 1 : i # m + 1 => fs[i].tag # ev.tag
    BY <1>1 DEF TagSet
  <2>2. CASE j # m + 1 /\ k # m + 1
    BY <1>1, <1>2, <1>7, <2>2 DEF Distinct
  <2>3. CASE j = m + 1 \/ k = m + 1
    BY <1>4, <1>7, <2>1, <2>3
  <2> QED
    BY <2>2, <2>3
<1>8. Kinds(es) /\ ev.kind \in Kind => Kinds(fs)
  BY <1>1, <1>4 DEF Kinds
<1>9. Distinct(es) => Distinct(fs)
  BY <1>4, <1>7 DEF Distinct
<1> QED
  BY <1>5, <1>6, <1>8, <1>9

LEMMA NumberedNames ==
    ASSUME NEW sorted, NEW at, NEW k \in DOMAIN sorted, EventFields \subseteq DOMAIN sorted[k]
    PROVE  /\ k \in DOMAIN Numbered(sorted, at)
           /\ Numbered(sorted, at)[k].tag = sorted[k].tag /\ Numbered(sorted, at)[k].kind = sorted[k].kind
<1> DEFINE g == Numbered(sorted, at)
           e == sorted[k]
           d == IF k = at THEN Gap(sorted, at) ELSE IF k = at + 1 THEN e.delta - Gap(sorted, at) ELSE e.delta
<1>1. k \in DOMAIN g /\ g[k] = [e EXCEPT !.number = k, !.delta = d]
  BY DEF Numbered, EventFields
<1> HIDE DEF g, d
<1>2. g[k].tag = e.tag /\ g[k].kind = e.kind
  BY <1>1 DEF EventFields
<1> QED
  BY <1>1, <1>2 DEF g

LEMMA PlaceNames ==
    ASSUME NEW es, InOrder(es), NEW ev, EventFields \subseteq DOMAIN ev,
           ev.pulses \in Nat, ev.number = 0, ev.delta = -1, ev.tag \notin TagSet(es)
    PROVE  /\ TagSet(Place(es, ev)) = TagSet(es) \cup {ev.tag}
           /\ Distinct(es) => Distinct(Place(es, ev))
           /\ Kinds(es) /\ ev.kind \in Kind => Kinds(Place(es, ev))
<1> DEFINE n == Len(es)
           before == IF es = << >> THEN 0 ELSE Last(es).pulses
           sorted == g_ptr_array_sort(Append(es, ev))
           at == CHOOSE k \in DOMAIN sorted : sorted[k].delta = -1
           new == [ev EXCEPT !.delta = ev.pulses - before, !.number = n + 1]
           longer == Append(es, new)
           more == Place(es, ev)
<1>1. n \in Nat /\ n = Len(es) /\ DOMAIN es = 1 .. n /\ (es = << >> <=> n = 0)
  BY SequenceFacts DEF InOrder
<1>2. more = IF before <= ev.pulses THEN longer ELSE Numbered(sorted, at)
  BY DEF Place
<1> HIDE DEF n
<1>3. \E m \in 0 .. n : Joins(more, es, ev, n, m)
  <2>1. CASE before <= ev.pulses
    <3>1. new.tag = ev.tag /\ new.kind = ev.kind
      <4> DEFINE d == ev.pulses - before
                 m == n + 1
      <4> HIDE DEF d, m
      <4>1. LET e == [ev EXCEPT !.delta = d, !.number = m]
            IN  e.tag = ev.tag /\ e.kind = ev.kind
        BY DEF EventFields
      <4> QED
        BY <4>1 DEF d, m
    <3> HIDE DEF new
    <3>2. DOMAIN longer = 1 .. n + 1 /\ (\A i \in 1 .. n : longer[i] = es[i]) /\ longer[n + 1] = new
      BY <1>1, AppendedSequence, SequenceFacts DEF InOrder
    <3> HIDE DEF longer
    <3>3. Joins(longer, es, ev, n, n)
      BY <1>1, <3>1, <3>2 DEF Joins
    <3> QED
      BY <1>1, <1>2, <2>1, <3>3
  <2>2. CASE ~(before <= ev.pulses)
    <3>1. es # << >> /\ n # 0 /\ n \in 1 .. n /\ es[n].pulses > ev.pulses
      <4>1. before = IF n = 0 THEN 0 ELSE es[n].pulses
        BY <1>1 DEF Last
      <4>2. n # 0
        BY <2>2, <4>1
      <4>3. n \in 1 .. n /\ es[n].pulses \in Nat
        BY <1>1, <4>2 DEF InOrder
      <4> QED
        BY <1>1, <2>2, <4>1, <4>2, <4>3
    <3>2. PICK m \in 0 .. Len(es) - 1 : Inserts(sorted, es, ev, m)
      BY <1>1, <3>1, SortInserts
    <3> HIDE DEF sorted
    <3>3. m \in 0 .. n - 1 /\ DOMAIN sorted = 1 .. n + 1
          /\ (\A k \in 1 .. m : sorted[k] = es[k]) /\ sorted[m + 1] = ev
          /\ (\A k \in m + 2 .. n + 1 : sorted[k] = es[k - 1])
      BY <1>1, <3>2 DEF Inserts
    <3>4. \A k \in 1 .. n + 1 : /\ k <= m => k \in 1 .. n /\ sorted[k] = es[k]
                                /\ k > m + 1 => k - 1 \in 1 .. n /\ sorted[k] = es[k - 1]
                                /\ k = m + 1 => sorted[k] = ev
      BY <1>1, <3>3
    <3>5. \A i \in 1 .. n : EventFields \subseteq DOMAIN es[i]
      BY <1>1 DEF InOrder
    <3>6. \A k \in 1 .. n + 1 : EventFields \subseteq DOMAIN sorted[k]
      <4> SUFFICES ASSUME NEW k \in 1 .. n + 1 PROVE EventFields \subseteq DOMAIN sorted[k]
        OBVIOUS
      <4>1. k <= m \/ k = m + 1 \/ k > m + 1
        BY <1>1, <3>3
      <4>2. CASE k <= m
        BY <3>4, <3>5, <4>2
      <4>3. CASE k = m + 1
        BY <3>4, <4>3
      <4>4. CASE k > m + 1
        BY <3>4, <3>5, <4>4
      <4> QED
        BY <4>1, <4>2, <4>3, <4>4
    <3> DEFINE fs == Numbered(sorted, at)
    <3>7. \A k \in 1 .. n + 1 : fs[k].tag = sorted[k].tag /\ fs[k].kind = sorted[k].kind
      <4> HIDE DEF at
      <4> SUFFICES ASSUME NEW k \in 1 .. n + 1
                   PROVE  fs[k].tag = sorted[k].tag /\ fs[k].kind = sorted[k].kind
        OBVIOUS
      <4>1. k \in DOMAIN sorted /\ EventFields \subseteq DOMAIN sorted[k]
        BY <3>3, <3>6
      <4> QED
        BY <4>1, NumberedNames
    <3>8. DOMAIN fs = 1 .. n + 1
      BY <3>3 DEF Numbered
    <3>9. m \in 0 .. n /\ m + 1 \in 1 .. n + 1
      BY <1>1, <3>3
    <3> HIDE DEF fs, at
    <3>10. Joins(fs, es, ev, n, m)
      BY <3>4, <3>7, <3>8, <3>9 DEF Joins
    <3> QED
      BY <1>2, <2>2, <3>9, <3>10 DEF fs
  <2> QED
    BY <2>1, <2>2
<1> HIDE DEF more
<1>4. PICK m \in 0 .. n : Joins(more, es, ev, n, m)
  BY <1>3
<1>5. /\ TagSet(more) = TagSet(es) \cup {ev.tag}
      /\ Distinct(es) => Distinct(more)
      /\ Kinds(es) /\ ev.kind \in Kind => Kinds(more)
  BY <1>1, <1>4, JoinsNames
<1> QED
  BY <1>5 DEF more

-----------------------------------------------------------------------------
(* The tempo map.                                                           *)

Entry(e) ==
    /\ TempoFields \subseteq DOMAIN e
    /\ e.pulses \in Nat /\ e.seconds \in Int /\ e.usec \in Nat \ {0}

\* The tempo map starts with the song, if it is not empty.  (The times in it may
\* be those of another division.)
Mapped(s) ==
    /\ \A i \in DOMAIN s.tempos : Entry(s.tempos[i])
    /\ s.tempos = << >> \/ Begun(s)

LEMMA LastBefore ==
    ASSUME NEW n \in Nat, NEW S \in SUBSET (1 .. n), S # {}
    PROVE  Max(S) \in S
<1>1. {0} \cup S \in SUBSET Nat /\ 0 \in {0} \cup S /\ \A x \in {0} \cup S : x <= n
  OBVIOUS
<1>2. Max({0} \cup S) \in {0} \cup S /\ \A x \in {0} \cup S : x <= Max({0} \cup S)
  BY <1>1, GreatestOf
<1>3. PICK y \in S : TRUE
  OBVIOUS
<1> DEFINE m == Max({0} \cup S)
<1>4. m \in S /\ \A x \in S : x <= m
  BY <1>2, <1>3
<1> HIDE DEF m
<1>5. \A x \in S : (\A w \in S : x >= w) => x = m
  BY <1>4
<1>6. \E x \in S : \A w \in S : x >= w
  BY <1>4
<1> QED
  BY <1>6 DEF Max

\* What time it is can be told once the map has an entry before it.
LEMMA TimeTold ==
    ASSUME NEW s, IsSequence(s.tempos), Mapped(s), s.ppqn \in Nat \ {0}
    PROVE  /\ s.tempos # << >> => \A p \in Nat : seconds_from_pulses(s, p) \in Int
           /\ \A x \in Int : BeforeSeconds(s, x) # {} => pulses_from_seconds(s, x) \in Nat
<1> DEFINE n == Len(s.tempos)
<1>1. n \in Nat /\ DOMAIN s.tempos = 1 .. n
  BY SequenceFacts
<1> HIDE DEF n
<1>2. ASSUME s.tempos # << >>, NEW p \in Nat
      PROVE  seconds_from_pulses(s, p) \in Int
  <2>1. 1 \in 1 .. n /\ s.tempos[1].pulses = 0
    BY <1>1, <1>2, SequenceFacts DEF Mapped, Begun, n
  <2>2. 1 \in BeforePulses(s, p)
    BY <1>1, <2>1 DEF BeforePulses
  <2>3. BeforePulses(s, p) \in SUBSET (1 .. n)
    BY <1>1 DEF BeforePulses
  <2>4. Max(BeforePulses(s, p)) \in 1 .. n
    BY <1>1, <2>2, <2>3, LastBefore
  <2> DEFINE e == s.tempos[Max(BeforePulses(s, p))]
  <2>5. Entry(e) /\ smf_get_tempo_by_pulses(s, p) = e
    BY <1>1, <2>4 DEF Mapped, smf_get_tempo_by_pulses
  <2> HIDE DEF e
  <2>6. e.pulses \in Nat /\ e.seconds \in Int /\ e.usec \in Nat
    BY <2>5 DEF Entry
  <2>7. ((p - e.pulses) * e.usec) \in Int
    BY <2>6
  <2>8. ((p - e.pulses) * e.usec) \div s.ppqn \in Int
    BY <2>7
  <2> QED
    BY <2>5, <2>6, <2>8 DEF seconds_from_pulses, SecondsSince
<1>3. ASSUME NEW x \in Int, BeforeSeconds(s, x) # {}
      PROVE  pulses_from_seconds(s, x) \in Nat
  <2> DEFINE k == Max(BeforeSeconds(s, x))
             e == s.tempos[k]
  <2>1. BeforeSeconds(s, x) \in SUBSET (1 .. n)
    BY <1>1 DEF BeforeSeconds
  <2>2. k \in BeforeSeconds(s, x)
    BY <1>1, <1>3, <2>1, LastBefore
  <2>3. k \in 1 .. n /\ Entry(e) /\ smf_get_tempo_by_seconds(s, x) = e
    BY <1>1, <2>1, <2>2 DEF Mapped, smf_get_tempo_by_seconds
  <2>4. e.seconds <= x
    <3>1. CASE x = 0
      <4>1. k = 1
        BY <2>2, <3>1 DEF BeforeSeconds
      <4>2. s.tempos # << >>
        BY <1>1, <2>3
      <4>3. e.seconds = 0
        BY <4>1, <4>2 DEF Mapped, Begun
      <4> QED
        BY <3>1, <4>3
    <3>2. CASE x # 0
      <4>1. e.seconds < x
        BY <2>2, <3>2 DEF BeforeSeconds
      <4>2. e.seconds \in Int
        BY <2>3 DEF Entry
      <4> HIDE DEF e
      <4> QED
        BY <4>1, <4>2
    <3> QED
      BY <3>1, <3>2
  <2> HIDE DEF e, k
  <2>5. e.pulses \in Nat /\ e.seconds \in Int /\ e.usec \in Nat \ {0}
    BY <2>3 DEF Entry
  <2>6. x - e.seconds \in Nat
    BY <2>4, <2>5
  <2>7. (x - e.seconds) * s.ppqn \in Nat
    BY <2>6
  <2>8. ((x - e.seconds) * s.ppqn) \div e.usec \in Nat
    BY <2>5, <2>7
  <2> QED
    BY <2>3, <2>5, <2>8 DEF pulses_from_seconds, PulsesSince
<1> QED
  BY <1>2, <1>3

LEMMA OtherMap ==
    ASSUME NEW s, Songlike(s), NEW v
    PROVE  [s EXCEPT !.tempos = v].tempos = v
BY DEF Songlike, SongFields

LEMMA new_tempoMapped ==
    ASSUME NEW s, Songlike(s), IsSequence(s.tempos), Mapped(s), s.tempos # << >>, s.ppqn \in Nat \ {0},
           NEW p \in Nat
    PROVE  Mapped(new_tempo(s, p)) /\ new_tempo(s, p).tempos # << >>
<1> DEFINE n == Len(s.tempos)
           last == s.tempos[n]
           x == IF p = 0 THEN 0 ELSE seconds_from_pulses(s, p)
           entry == [last EXCEPT !.pulses = p, !.seconds = x]
           v == Append(s.tempos, entry)
           r == new_tempo(s, p)
<1>1. n \in Nat /\ n >= 1 /\ DOMAIN s.tempos = 1 .. n /\ n \in 1 .. n
  BY SequenceFacts, EmptySequence
<1>2. Retuned(r, s) /\ Len(r.tempos) >= 1
  BY new_tempoRetuned
<1>3. Begun(s) /\ Begun(r)
  BY <1>2 DEF Mapped, Retuned
<1>4. CASE last.pulses = p
  BY <1>4 DEF new_tempo
<1>5. CASE last.pulses # p
  <2>1. r = [s EXCEPT !.tempos = v]
    BY <1>5 DEF new_tempo
  <2>2. x \in Int
    BY TimeTold
  <2> HIDE DEF x
  <2>3. Entry(last)
    BY <1>1 DEF Mapped
  <2> HIDE DEF last, r
  <2>4. Entry(entry)
    BY <2>2, <2>3 DEF Entry, TempoFields
  <2> HIDE DEF entry
  <2>5. IsSequence(v) /\ Len(v) = n + 1 /\ v[n + 1] = entry /\ \A i \in 1 .. n : v[i] = s.tempos[i]
    BY AppendedSequence
  <2>6. DOMAIN v = 1 .. n + 1 /\ \A i \in 1 .. n + 1 : i \in 1 .. n \/ i = n + 1
    BY <1>1, <2>5, SequenceFacts
  <2> HIDE DEF v, n
  <2>7. \A i \in DOMAIN v : Entry(v[i])
    BY <1>1, <2>4, <2>5, <2>6 DEF Mapped
  <2>8. r.tempos = v
    BY <2>1, OtherMap
  <2>9. v # << >>
    BY <1>1, <2>5, EmptySequence
  <2> QED
    BY <1>3, <2>7, <2>8, <2>9 DEF Mapped, r
<1> QED
  BY <1>4, <1>5

LEMMA LastTempoMapped ==
    ASSUME NEW s, Songlike(s), IsSequence(s.tempos), Mapped(s), s.tempos # << >>,
           NEW ev, ev.kind = "tempo" => ev.val \in Nat \ {0}
    PROVE  Mapped(LastTempo(s, ev)) /\ LastTempo(s, ev).tempos # << >>
<1> DEFINE n == Len(s.tempos)
           last == s.tempos[n]
           e == IF ev.kind = "tempo" THEN [last EXCEPT !.usec = ev.val]
                ELSE [last EXCEPT !.sig = ev.val]
           v == [s.tempos EXCEPT ![n] = e]
           r == LastTempo(s, ev)
<1>1. n \in Nat /\ n >= 1 /\ DOMAIN s.tempos = 1 .. n /\ n \in 1 .. n
  BY SequenceFacts, EmptySequence
<1>2. r = [s EXCEPT !.tempos = v]
  BY DEF LastTempo, Songlike, SongFields
<1>3. Begun(r)
  BY LastTempoRetuned DEF Mapped, Retuned
<1>4. Entry(last)
  BY <1>1 DEF Mapped
<1> HIDE DEF last, r
<1>5. Entry(e)
  BY <1>4 DEF Entry, TempoFields
<1> HIDE DEF e
<1>6. DOMAIN v = 1 .. n /\ v[n] = e /\ \A i \in 1 .. n : i # n => v[i] = s.tempos[i]
  BY <1>1
<1> HIDE DEF v
<1>7. \A i \in DOMAIN v : Entry(v[i])
  BY <1>1, <1>5, <1>6 DEF Mapped
<1>8. r.tempos = v
  BY <1>2, OtherMap
<1>9. v # << >>
  BY <1>1, <1>6
<1> QED
  BY <1>3, <1>7, <1>8, <1>9 DEF Mapped, r

LEMMA maybe_addMapped ==
    ASSUME NEW s, Songlike(s), IsSequence(s.tempos), Mapped(s), s.tempos # << >>, s.ppqn \in Nat \ {0},
           NEW ev, ev.pulses \in Nat, ev.kind = "tempo" => ev.val \in Nat
    PROVE  Mapped(maybe_add_to_tempo_map(s, ev))
<1> DEFINE r == new_tempo(s, ev.pulses)
<1>1. Mapped(r) /\ r.tempos # << >>
  BY new_tempoMapped
<1>2. Songlike(r) /\ IsSequence(r.tempos)
  BY new_tempoSame, SameSonglike, new_tempoRetuned DEF Retuned
<1> HIDE DEF r
<1>3. ev.val # 0 => Mapped(LastTempo(r, ev))
  BY <1>1, <1>2, LastTempoMapped
<1> QED
  BY <1>3 DEF maybe_add_to_tempo_map, r

LEMMA remove_lastMapped ==
    ASSUME NEW s, Songlike(s), IsSequence(s.tempos), Mapped(s), NEW p
    PROVE  Mapped(remove_last_tempo_with_pulses(s, p))
<1> DEFINE n == Len(s.tempos)
           v == SubSeq(s.tempos, 1, n - 1)
           r == remove_last_tempo_with_pulses(s, p)
<1>1. n \in Nat /\ DOMAIN s.tempos = 1 .. n /\ (s.tempos = << >> <=> n = 0)
  BY SequenceFacts, EmptySequence
<1>2. CASE r = s
  BY <1>2
<1>3. CASE r # s
  <2>1. n # 0 /\ r = [s EXCEPT !.tempos = v]
    BY <1>1, <1>3 DEF remove_last_tempo_with_pulses, Front, Songlike, SongFields
  <2>2. IsSequence(v) /\ Len(v) = n - 1 /\ \A i \in 1 .. n - 1 : v[i] = s.tempos[i]
    <3>1. v = [i \in 1 .. n - 1 |-> s.tempos[i]]
      BY <1>1
    <3>2. v = [i \in 1 .. n - 1 |-> v[i]]
      BY <3>1
    <3> HIDE DEF v, n
    <3> QED
      BY <1>1, <2>1, <3>1, <3>2, MadeSequence
  <2>3. r.tempos = v
    BY <2>1, OtherMap
  <2> HIDE DEF v, r, n
  <2>4. DOMAIN v = 1 .. n - 1 /\ (v = << >> <=> n - 1 = 0)
    BY <2>2, SequenceFacts, EmptySequence
  <2>5. \A i \in DOMAIN v : Entry(v[i])
    BY <1>1, <2>2, <2>4 DEF Mapped
  <2>6. n - 1 # 0 => Begun(r)
    BY <1>1, <2>1, <2>2, <2>3 DEF Mapped, Begun
  <2> QED
    BY <2>3, <2>4, <2>5, <2>6 DEF Mapped, r
<1> QED
  BY <1>2, <1>3

LEMMA LinkedMapped ==
    ASSUME NEW s, Linked(s)
    PROVE  Mapped(s)
BY DEF Linked, Mapped, Entry

\* The division of a song stays what it is.
LEMMA PlayTimedPpqn ==
    ASSUME NEW s, Songlike(s)
    PROVE  PlayTimed(s).ppqn = s.ppqn
<1> DEFINE t == smf_find_track_with_next_event(s)
           ev == smf_peek_next_event(s)
           i == s.tracks[t].next
           r == smf_get_next_event(s)
           q == maybe_add_to_tempo_map(r, ev)
<1>1. Songlike(r) /\ r.ppqn = s.ppqn
  BY smf_get_next_eventSame, SameSonglike, PositionUnmoved DEF Unmoved
<1>2. PlayTimed(s) = IF t = 0 THEN s ELSE Timed(q, t, i)
  BY DEF PlayTimed
<1> HIDE DEF r
<1>3. Songlike(q) /\ q.ppqn = r.ppqn
  BY <1>1, TempoMapSame, SameSonglike, TempoMapPpqn
<1> HIDE DEF q, t, i
<1>4. Timed(q, t, i).ppqn = q.ppqn
  BY <1>3 DEF Timed, Songlike, SongFields
<1> QED
  BY <1>1, <1>2, <1>3, <1>4

LEMMA smf_create_tempo_mapPpqn ==
    ASSUME NEW s, Songlike(s)
    PROVE  smf_create_tempo_map_and_compute_seconds(s).ppqn = s.ppqn
<1> DEFINE n == Cardinality(EventsIn(s))
           q == smf_rewind(s)
           first == smf_init_tempo(q)
           h == CHOOSE g : Timing(g, first, n)
           S == {k \in 0 .. n : Songlike(h[k]) /\ h[k].ppqn = s.ppqn}
<1>1. n \in Nat
  BY FinitelyManyEvents
<1>2. smf_create_tempo_map_and_compute_seconds(s) = h[n]
  BY DEF smf_create_tempo_map_and_compute_seconds, Iterate, Timing
<1>3. Songlike(q) /\ q.ppqn = s.ppqn
  BY smf_rewindSame, SameSonglike, PositionUnmoved DEF Unmoved
<1> HIDE DEF q, n
<1>4. Songlike(first) /\ first.ppqn = s.ppqn
  <2>1. Songlike(first)
    BY <1>3, TempoMapSame, SameSonglike
  <2>2. first.ppqn = q.ppqn
    BY <1>3 DEF smf_init_tempo, new_tempo, Songlike, SongFields
  <2> QED
    BY <1>3, <2>1, <2>2
<1> HIDE DEF first
<1>5. h = [k \in 0 .. n |-> IF k = 0 THEN first ELSE PlayTimed(h[k - 1])]
  <2>1. Timing(h, first, n)
    BY <1>1, PlayTimedIterated
  <2> HIDE DEF h
  <2> QED
    BY <2>1 DEF Timing
<1> HIDE DEF h
<1>6. 0 \in S
  BY <1>1, <1>4, <1>5
<1>7. ASSUME NEW k \in S, k < n
      PROVE  k + 1 \in S
  <2>1. h[k + 1] = PlayTimed(h[k]) /\ k + 1 \in 0 .. n
    BY <1>1, <1>5, <1>7
  <2> QED
    BY <2>1, PlayTimedSame, SameSonglike, PlayTimedPpqn
<1>8. S = 0 .. n
  <2>1. S \in SUBSET (0 .. n)
    OBVIOUS
  <2> HIDE DEF S
  <2> QED
    BY <1>1, <1>6, <1>7, <2>1, Induction
<1> QED
  BY <1>1, <1>2, <1>8

-----------------------------------------------------------------------------
(* An event is added or removed.                                            *)

Sound(s) == Fits(s) /\ Steady(s) /\ Counted(s) /\ Mapped(s) /\ Named(s)

TagsIn(s, t) == TagSet(s.tracks[t].events)

\* The other tracks keep the events they have, and this one may lose some, and
\* get that one.
Changed(r, s, t, new) ==
    /\ r.ppqn = s.ppqn /\ DOMAIN r.tracks = DOMAIN s.tracks
    /\ \A u \in DOMAIN s.tracks : u # t => TagsIn(r, u) = TagsIn(s, u)
    /\ TagsIn(r, t) \subseteq TagsIn(s, t) \cup new

LEMMA SameNamed ==
    ASSUME NEW s, Steady(s), NEW r, Same(r, s)
    PROVE  /\ DOMAIN r.tracks = DOMAIN s.tracks
           /\ \A t \in DOMAIN s.tracks : TagsIn(r, t) = TagsIn(s, t)
           /\ Named(s) => Named(r)
<1>1. DOMAIN r.tracks = DOMAIN s.tracks
  BY DEF Same, Alike
<1>2. \A t \in DOMAIN s.tracks :
         /\ TagSet(r.tracks[t].events) = TagSet(s.tracks[t].events)
         /\ Distinct(s.tracks[t].events) => Distinct(r.tracks[t].events)
         /\ Kinds(s.tracks[t].events) => Kinds(r.tracks[t].events)
  BY SameNames DEF Same, Steady, Orderly
<1> QED
  BY <1>1, <1>2 DEF Named, TagsIn

\* One track changes, and no tag is used twice.
LEMMA OneNamed ==
    ASSUME NEW s, Named(s), NEW r, DOMAIN r.tracks = DOMAIN s.tracks, NEW t \in DOMAIN s.tracks,
           \A u \in DOMAIN s.tracks : u # t => r.tracks[u].events = s.tracks[u].events,
           Distinct(r.tracks[t].events), Kinds(r.tracks[t].events),
           NEW new, new \cap Tags(s) = {}, TagsIn(r, t) \subseteq TagsIn(s, t) \cup new
    PROVE  Named(r)
<1>1. \A u \in DOMAIN s.tracks : Distinct(r.tracks[u].events) /\ Kinds(r.tracks[u].events)
  BY DEF Named
<1>2. \A u \in DOMAIN s.tracks : u # t => TagsIn(r, t) \cap TagsIn(r, u) = {}
  <2> SUFFICES ASSUME NEW u \in DOMAIN s.tracks, u # t PROVE TagsIn(r, t) \cap TagsIn(r, u) = {}
    OBVIOUS
  <2>1. TagsIn(r, u) = TagsIn(s, u) /\ TagsIn(s, u) \subseteq Tags(s)
    BY TagsAre DEF TagsIn
  <2>2. TagsIn(s, t) \cap TagsIn(s, u) = {}
    BY DEF Named, TagsIn
  <2> QED
    BY <2>1, <2>2
<1>3. \A u, w \in DOMAIN s.tracks : u # t /\ w # t /\ u # w => TagsIn(r, u) \cap TagsIn(r, w) = {}
  BY DEF Named, TagsIn
<1>4. \A u, w \in DOMAIN s.tracks : u # w => TagsIn(r, u) \cap TagsIn(r, w) = {}
  BY <1>2, <1>3
<1> QED
  BY <1>1, <1>4 DEF Named, TagsIn

LEMMA WithoutNamed ==
    ASSUME NEW s, Steady(s), Named(s), NEW t \in DOMAIN s.tracks, NEW i \in DOMAIN s.tracks[t].events
    PROVE  LET q == Without(s, t, i)
           IN  /\ Named(q) /\ Changed(q, s, t, {})
               /\ \A j \in DOMAIN s.tracks[t].events : j # i => s.tracks[t].events[j].tag \in TagsIn(q, t)
<1> DEFINE q == Without(s, t, i)
           es == s.tracks[t].events
<1>1. /\ DOMAIN q.tracks = DOMAIN s.tracks /\ q.ppqn = s.ppqn
      /\ \A u \in DOMAIN s.tracks : u # t => q.tracks[u].events = s.tracks[u].events
      /\ q.tracks[t].events = Rest(es, i)
  BY WithoutSteady, WithoutMarks
<1>2. InOrder(es) /\ Distinct(es) /\ Kinds(es)
  BY DEF Steady, Orderly, Named
<1> HIDE DEF q
<1>3. /\ TagsIn(q, t) \subseteq TagsIn(s, t)
      /\ \A j \in DOMAIN es : j # i => es[j].tag \in TagsIn(q, t)
      /\ Distinct(q.tracks[t].events) /\ Kinds(q.tracks[t].events)
  BY <1>1, <1>2, RestNames DEF TagsIn
<1>4. Named(q)
  <2>1. {} \cap Tags(s) = {} /\ TagsIn(q, t) \subseteq TagsIn(s, t) \cup {}
    BY <1>3
  <2> QED
    BY <1>1, <1>3, <2>1, OneNamed
<1>5. Changed(q, s, t, {})
  BY <1>1, <1>3 DEF Changed, TagsIn
<1> QED
  BY <1>3, <1>4, <1>5 DEF q

LEMMA smf_event_removeSound ==
    ASSUME NEW s, Sound(s), InitialTempo \in Nat \ {0},
           NEW t \in DOMAIN s.tracks, NEW i \in DOMAIN s.tracks[t].events
    PROVE  LET r == smf_event_remove_from_track(s, t, i)
           IN  /\ Sound(r) /\ r.failed = s.failed /\ Changed(r, s, t, {})
               /\ \A j \in DOMAIN s.tracks[t].events : j # i => s.tracks[t].events[j].tag \in TagsIn(r, t)
<1> DEFINE ev == s.tracks[t].events[i]
           q == Without(s, t, i)
           r == smf_event_remove_from_track(s, t, i)
           tempo == smf_event_is_tempo_change_or_time_signature(ev)
           last == smf_event_is_last(s, ev)
<1>1. Fits(s) /\ Steady(s) /\ Counted(s) /\ Mapped(s) /\ Named(s) /\ Songlike(s)
  BY DEF Sound, Fits
<1>2. Steady(r) /\ r.failed = s.failed /\ Same(r, q)
  BY <1>1, smf_event_removeSteady
<1>3. Counted(r) /\ (tempo /\ ~last => Linked(r))
  BY <1>1, smf_event_removeSynced DEF Synced
<1>4. Fits(r)
  BY <1>1, smf_event_removeOutline, FitsKept
<1>5. /\ Steady(q) /\ Songlike(q) /\ IsSequence(q.tempos)
      /\ q.tempos = s.tempos /\ q.ppqn = s.ppqn
      /\ Begun(s) => Begun(q)
  BY <1>1, WithoutSteady, WithoutMarks DEF Steady, Orderly
<1>6. r = IF ~tempo THEN q
          ELSE IF last THEN remove_last_tempo_with_pulses(q, ev.pulses)
          ELSE smf_create_tempo_map_and_compute_seconds(q)
  BY <1>1, RemovedShape
<1>7. /\ Named(q) /\ Changed(q, s, t, {})
      /\ \A j \in DOMAIN s.tracks[t].events : j # i => s.tracks[t].events[j].tag \in TagsIn(q, t)
  BY <1>1, WithoutNamed
<1> HIDE DEF q, r, tempo, last, ev
<1>8. Mapped(q)
  BY <1>1, <1>5 DEF Mapped
<1>9. Mapped(r) /\ r.ppqn = q.ppqn
  <2>1. CASE ~tempo
    BY <1>6, <1>8, <2>1
  <2>2. CASE tempo /\ last
    BY <1>5, <1>6, <1>8, <2>2, remove_lastMapped, TempoMapPpqn
  <2>3. CASE tempo /\ ~last
    BY <1>3, <1>5, <1>6, <2>3, LinkedMapped, smf_create_tempo_mapPpqn
  <2> QED
    BY <2>1, <2>2, <2>3
<1>10. /\ DOMAIN r.tracks = DOMAIN q.tracks /\ Named(r)
       /\ \A u \in DOMAIN q.tracks : TagsIn(r, u) = TagsIn(q, u)
  BY <1>2, <1>5, <1>7, SameNamed
<1>11. t \in DOMAIN q.tracks
  BY <1>7 DEF Changed
<1>12. Changed(r, s, t, {})
  BY <1>7, <1>9, <1>10, <1>11 DEF Changed
<1>13. \A j \in DOMAIN s.tracks[t].events : j # i => s.tracks[t].events[j].tag \in TagsIn(r, t)
  BY <1>7, <1>10, <1>11
<1>14. Sound(r)
  BY <1>2, <1>3, <1>4, <1>9, <1>10 DEF Sound
<1> QED
  BY <1>2, <1>12, <1>13, <1>14 DEF r

LEMMA ChangedTags ==
    ASSUME NEW s, NEW r, NEW t \in DOMAIN s.tracks, NEW new, Changed(r, s, t, new)
    PROVE  Tags(r) \subseteq Tags(s) \cup new
<1> SUFFICES ASSUME NEW x \in Tags(r) PROVE x \in Tags(s) \cup new
  OBVIOUS
<1>1. PICK u \in DOMAIN r.tracks : x \in TagsIn(r, u)
  BY TagsAre DEF TagsIn
<1>2. u \in DOMAIN s.tracks /\ TagsIn(r, u) \subseteq TagsIn(s, u) \cup new
  BY <1>1 DEF Changed
<1>3. TagsIn(s, u) \subseteq Tags(s)
  BY <1>2, TagsAre DEF TagsIn
<1> QED
  BY <1>1, <1>2, <1>3

LEMMA remove_eotSound ==
    ASSUME NEW s, Sound(s), InitialTempo \in Nat \ {0}, NEW t \in DOMAIN s.tracks, NEW p \in Nat
    PROVE  LET r == remove_eot_if_before_pulses(s, t, p)
           IN  Sound(r) /\ r.failed = s.failed /\ r.tempos = s.tempos /\ Changed(r, s, t, {})
<1> DEFINE r == remove_eot_if_before_pulses(s, t, p)
           es == s.tracks[t].events
           n == Len(es)
<1>1. Steady(s) /\ Counted(s)
  BY DEF Sound
<1>2. r.tempos = s.tempos
  BY <1>1, remove_eotSynced
<1>3. CASE ~(es # << >> /\ Last(es).kind = "eot" /\ Last(es).pulses <= p)
  <2>1. r = s
    BY <1>3 DEF remove_eot_if_before_pulses
  <2> QED
    BY <2>1 DEF Changed
<1>4. CASE es # << >> /\ Last(es).kind = "eot" /\ Last(es).pulses <= p
  <2>1. r = smf_event_remove_from_track(s, t, n)
    BY <1>4 DEF remove_eot_if_before_pulses
  <2>2. n \in DOMAIN es
    BY <1>1, <1>4, SequenceFacts, EmptySequence DEF Steady, Orderly, InOrder
  <2> HIDE DEF r
  <2>3. Sound(r) /\ r.failed = s.failed /\ Changed(r, s, t, {})
    BY <2>1, <2>2, smf_event_removeSound
  <2> QED
    BY <1>2, <2>3 DEF r
<1> QED
  BY <1>3, <1>4

LEMMA WithNamed ==
    ASSUME NEW s, Steady(s), Named(s), NEW t \in DOMAIN s.tracks, NEW ev, EventFields \subseteq DOMAIN ev,
           ev.pulses \in Nat, ev.number = 0, ev.delta = -1, ev.kind \in Kind, ev.tag \notin Tags(s)
    PROVE  LET q == With(s, t, ev)
           IN  Named(q) /\ Changed(q, s, t, {ev.tag}) /\ ev.tag \in TagsIn(q, t)
<1> DEFINE tr == s.tracks[t]
           own == tr.number
           mine == [ev EXCEPT !.track = own]
           es == Place(tr.events, mine)
           q == With(s, t, ev)
<1>1. Tracklike(tr) /\ InOrder(tr.events) /\ Distinct(tr.events) /\ Kinds(tr.events)
  BY DEF Steady, Orderly, Songlike, Named
<1>2. /\ DOMAIN q.tracks = DOMAIN s.tracks
      /\ \A u \in DOMAIN s.tracks : u # t => q.tracks[u].events = s.tracks[u].events
      /\ q.tracks[t].events = es
  <2> DEFINE next == IF tr.events = << >> THEN 1 ELSE tr.next
             placed == [tr EXCEPT !.events = es, !.next = next]
  <2>1. q = [s EXCEPT !.tracks[t] = placed]
    BY <1>1 DEF With, Tracklike, TrackFields
  <2> HIDE DEF q, next, es, tr
  <2>2. placed.events = es
    BY <1>1 DEF Tracklike, TrackFields
  <2> HIDE DEF placed
  <2> QED
    BY <2>1, <2>2 DEF Steady, Orderly, Songlike, SongFields
<1>3. q.ppqn = s.ppqn
  BY WithMarks
<1>4. /\ EventFields \subseteq DOMAIN mine /\ mine.pulses = ev.pulses /\ mine.number = 0
      /\ mine.delta = -1 /\ mine.kind = ev.kind /\ mine.tag = ev.tag
  <2> HIDE DEF own
  <2> QED
    BY DEF EventFields
<1>5. TagSet(tr.events) \subseteq Tags(s) /\ ev.tag \notin TagSet(tr.events)
  BY TagsAre
<1> HIDE DEF mine, q
<1>6. TagSet(es) = TagSet(tr.events) \cup {ev.tag} /\ Distinct(es) /\ Kinds(es)
  BY <1>1, <1>4, <1>5, PlaceNames
<1> HIDE DEF es
<1>7. TagsIn(q, t) = TagsIn(s, t) \cup {ev.tag}
  BY <1>2, <1>6 DEF TagsIn
<1>8. Named(q)
  <2>1. {ev.tag} \cap Tags(s) = {} /\ TagsIn(q, t) \subseteq TagsIn(s, t) \cup {ev.tag}
    BY <1>7
  <2> QED
    BY <1>2, <1>6, <2>1, OneNamed
<1>9. Changed(q, s, t, {ev.tag})
  BY <1>2, <1>3, <1>7 DEF Changed, TagsIn
<1> QED
  BY <1>7, <1>8, <1>9 DEF q

LEMMA smf_track_add_eventSound ==
    ASSUME NEW s, Sound(s), s.tempos # << >>, InitialTempo \in Nat \ {0}, NEW t \in DOMAIN s.tracks,
           NEW ev, EventFields \subseteq DOMAIN ev, ev.pulses \in Nat, ev.number = 0, ev.delta = -1,
           ev.kind \in Kind, ev.kind = "tempo" => ev.val \in Nat, ev.tag \notin Tags(s)
    PROVE  LET f == smf_track_add_event(s, t, ev)
           IN  /\ Sound(f) /\ f.failed = s.failed /\ Changed(f, s, t, {ev.tag})
               /\ ev.tag \in TagsIn(f, t)
<1> DEFINE p == ev.pulses
           r == remove_eot_if_before_pulses(s, t, p)
           q == With(r, t, ev)
           f == smf_track_add_event(s, t, ev)
           tempo == smf_event_is_tempo_change_or_time_signature(ev)
           last == smf_event_is_last(q, ev)
<1>1. Fits(s) /\ Steady(s) /\ Counted(s) /\ Songlike(s)
  BY DEF Sound, Fits
<1>2. /\ Sound(r) /\ r.tempos = s.tempos /\ Changed(r, s, t, {})
      /\ Steady(r) /\ Songlike(r) /\ Named(r) /\ Counted(r) /\ Mapped(r)
  BY remove_eotSound DEF Sound, Fits
<1>3. t \in DOMAIN r.tracks /\ ev.tag \notin Tags(r)
  <2> HIDE DEF r
  <2> QED
    BY <1>2, ChangedTags DEF Changed
<1>4. f = IF ~tempo THEN q
          ELSE IF last THEN maybe_add_to_tempo_map(q, ev)
          ELSE smf_create_tempo_map_and_compute_seconds(q)
  BY <1>2, <1>3, AddedShape
<1>5. Steady(f) /\ f.failed = s.failed /\ Counted(f)
  BY <1>1, smf_track_add_eventSteady, smf_track_add_eventSynced
<1>6. Fits(f)
  BY <1>1, smf_track_add_eventOutline, FitsKept
<1> HIDE DEF r, f
<1>7. /\ Steady(q) /\ Songlike(q) /\ IsSequence(q.tempos)
      /\ q.tempos = r.tempos /\ q.ppqn = r.ppqn /\ Marks(q) = Marks(r) \cup {Mark(ev)}
      /\ Begun(r) => Begun(q)
  BY <1>2, <1>3, WithSteady, WithMarks DEF Steady, Orderly
<1>8. Named(q) /\ Changed(q, r, t, {ev.tag}) /\ ev.tag \in TagsIn(q, t)
  BY <1>2, <1>3, WithNamed
<1>9. Counted(q)
  <2>1. Mark(ev).kind = ev.kind /\ Mark(ev).val = ev.val
    BY DEF Mark
  <2> HIDE DEF q
  <2> QED
    BY <1>2, <1>7, <2>1 DEF Counted, Valued
<1>10. Mapped(q) /\ q.tempos # << >>
  BY <1>2, <1>7 DEF Mapped
<1> HIDE DEF q, tempo, last
<1>11. Mapped(f) /\ f.ppqn = q.ppqn /\ Same(f, q)
  <2>1. CASE ~tempo
    BY <1>4, <1>7, <1>10, <2>1, SameReflexive
  <2>2. CASE tempo /\ last
    <3>1. f = maybe_add_to_tempo_map(q, ev)
      BY <1>4, <2>2
    <3>2. q.ppqn \in Nat \ {0}
      BY <1>9 DEF Counted
    <3> QED
      BY <1>7, <1>10, <3>1, <3>2, maybe_addMapped, TempoMapPpqn, TempoMapSame
  <2>3. CASE tempo /\ ~last
    <3>1. f = smf_create_tempo_map_and_compute_seconds(q)
      BY <1>4, <2>3
    <3>2. Linked(f)
      BY <1>7, <1>9, <3>1, smf_create_tempo_mapSynced DEF Synced
    <3> QED
      BY <1>7, <3>1, <3>2, LinkedMapped, smf_create_tempo_mapPpqn, smf_create_tempo_mapSame
  <2> QED
    BY <2>1, <2>2, <2>3
<1>12. /\ DOMAIN f.tracks = DOMAIN q.tracks /\ Named(f)
       /\ \A u \in DOMAIN q.tracks : TagsIn(f, u) = TagsIn(q, u)
  BY <1>7, <1>8, <1>11, SameNamed
<1>13. t \in DOMAIN q.tracks
  BY <1>3, <1>8 DEF Changed
<1>14. Changed(f, s, t, {ev.tag})
  BY <1>2, <1>8, <1>11, <1>12, <1>13 DEF Changed
<1>15. Sound(f)
  BY <1>5, <1>6, <1>11, <1>12 DEF Sound
<1> QED
  BY <1>5, <1>8, <1>12, <1>13, <1>14, <1>15 DEF f

\* The tempo map may have no entry that tells when the event comes: the assertion
\* fails, and the song is left as it is.
Put(r, s, t, tag) ==
    /\ Sound(r) /\ Changed(r, s, t, {tag})
    /\ r.failed = s.failed \/ (s.failed = "" /\ r.failed = "tempo")

LEMMA AbortSound ==
    ASSUME NEW s, Sound(s), NEW why
    PROVE  /\ Sound(Abort(s, why)) /\ Abort(s, why).tracks = s.tracks /\ Abort(s, why).ppqn = s.ppqn
           /\ Abort(s, why).failed = IF s.failed = "" THEN why ELSE s.failed
<1> DEFINE r == Abort(s, why)
<1>1. Fits(s) /\ Steady(s) /\ Counted(s) /\ Mapped(s) /\ Named(s) /\ Songlike(s)
  BY DEF Sound, Fits
<1>2. /\ r.tracks = s.tracks /\ r.tempos = s.tempos /\ r.failed = IF s.failed = "" THEN why ELSE s.failed
      /\ Unmoved(r, s) /\ Same(r, s)
  BY <1>1, AbortPlain, PositionUnmoved, AbortSame
<1>3. Steady(r) /\ (Begun(s) <=> Begun(r))
  BY <1>1, AbortSteady
<1> HIDE DEF r
<1>4. Fits(r)
  BY <1>1, <1>2, SameAlike, FitsKept
<1>5. Counted(r) /\ r.ppqn = s.ppqn
  BY <1>1, <1>2, UnmovedMarks DEF Unmoved
<1>6. Mapped(r) /\ Named(r)
  BY <1>1, <1>2, <1>3 DEF Mapped, Named
<1> QED
  BY <1>2, <1>3, <1>4, <1>5, <1>6 DEF Sound, r

LEMMA AbortPut ==
    ASSUME NEW s, Sound(s), NEW t \in DOMAIN s.tracks, NEW tag
    PROVE  Put(Abort(s, "tempo"), s, t, tag) /\ Abort(s, "tempo").failed # ""
<1> DEFINE r == Abort(s, "tempo")
<1>1. Sound(r) /\ r.tracks = s.tracks /\ r.ppqn = s.ppqn /\ r.failed = IF s.failed = "" THEN "tempo" ELSE s.failed
  BY AbortSound
<1> HIDE DEF r
<1> QED
  BY <1>1 DEF Put, Changed, TagsIn, r

\* A new event that has got its times; in which order does not matter.
TimedEvent(kind, val, tag, p, x) == [Event(kind, val, tag) EXCEPT !.pulses = p, !.seconds = x]

EventOfSecond(kind, val, tag, x, p) == [Event(kind, val, tag) EXCEPT !.seconds = x, !.pulses = p]

LEMMA EventTimed ==
    ASSUME NEW kind \in Kind, NEW val \in Nat, NEW tag, NEW p \in Nat, NEW x
    PROVE  /\ EventFields \subseteq DOMAIN TimedEvent(kind, val, tag, p, x)
           /\ TimedEvent(kind, val, tag, p, x).pulses = p
           /\ TimedEvent(kind, val, tag, p, x).number = 0
           /\ TimedEvent(kind, val, tag, p, x).delta = -1
           /\ TimedEvent(kind, val, tag, p, x).kind = kind
           /\ TimedEvent(kind, val, tag, p, x).val = val
           /\ TimedEvent(kind, val, tag, p, x).tag = tag
           /\ EventOfSecond(kind, val, tag, x, p) = TimedEvent(kind, val, tag, p, x)
<1> DEFINE new == Event(kind, val, tag)
           ev == [new EXCEPT !.pulses = p, !.seconds = x]
<1>1. /\ DOMAIN new = EventFields /\ new.number = 0 /\ new.delta = -1
      /\ new.kind = kind /\ new.val = val /\ new.tag = tag
  BY DEF Event, EventFields
<1> HIDE DEF new
<1>2. DOMAIN ev = EventFields
  BY <1>1
<1>3. ev.pulses = p
  BY <1>1 DEF EventFields
<1>4. ev.number = 0 /\ ev.delta = -1
  BY <1>1 DEF EventFields
<1>5. ev.kind = kind /\ ev.val = val /\ ev.tag = tag
  BY <1>1 DEF EventFields
<1>6. ev = [new EXCEPT !.seconds = x, !.pulses = p]
  OBVIOUS
<1> HIDE DEF ev
<1>7. /\ EventFields \subseteq DOMAIN ev /\ ev.pulses = p /\ ev.number = 0 /\ ev.delta = -1
      /\ ev.kind = kind /\ ev.val = val /\ ev.tag = tag
  BY <1>2, <1>3, <1>4, <1>5
<1> QED
  BY <1>6, <1>7 DEF ev, new, TimedEvent, EventOfSecond

\* An event at a pulse, or at a second, which may be before the song.
LEMMA AddedSound ==
    ASSUME NEW s, Sound(s), InitialTempo \in Nat \ {0}, NEW t \in DOMAIN s.tracks,
           NEW kind \in Kind, NEW val \in Nat, NEW tag, tag \notin Tags(s)
    PROVE  /\ \A p \in Nat :
                 LET r == smf_track_add_event_pulses(s, t, Event(kind, val, tag), p)
                 IN  Put(r, s, t, tag) /\ (r.failed = "" => tag \in TagsIn(r, t))
           /\ \A x \in Int :
                 LET r == smf_track_add_event_seconds(s, t, Event(kind, val, tag), x)
                 IN  Put(r, s, t, tag) /\ (r.failed = "" => tag \in TagsIn(r, t))
<1>1. /\ IsSequence(s.tempos) /\ Mapped(s) /\ s.ppqn \in Nat \ {0}
  BY DEF Sound, Steady, Counted
<1>2. ASSUME NEW p \in Nat, NEW x, s.tempos # << >>
      PROVE  LET r == smf_track_add_event(s, t, TimedEvent(kind, val, tag, p, x))
             IN  Put(r, s, t, tag) /\ tag \in TagsIn(r, t)
  <2> DEFINE ev == TimedEvent(kind, val, tag, p, x)
             r == smf_track_add_event(s, t, ev)
  <2>1. /\ EventFields \subseteq DOMAIN ev /\ ev.pulses = p /\ ev.number = 0 /\ ev.delta = -1
        /\ ev.kind = kind /\ ev.val = val /\ ev.tag = tag
    BY EventTimed
  <2> HIDE DEF ev
  <2>2. Sound(r) /\ r.failed = s.failed /\ Changed(r, s, t, {tag}) /\ tag \in TagsIn(r, t)
    BY <1>2, <2>1, smf_track_add_eventSound
  <2> HIDE DEF r
  <2> QED
    BY <2>2 DEF Put, r, ev
<1>3. ASSUME NEW S \in SUBSET DOMAIN s.tempos, S # {} PROVE s.tempos # << >>
  BY <1>3, <1>1, SequenceFacts, EmptySequence
<1>4. ASSUME NEW p \in Nat
      PROVE  LET r == smf_track_add_event_pulses(s, t, Event(kind, val, tag), p)
             IN  Put(r, s, t, tag) /\ (r.failed = "" => tag \in TagsIn(r, t))
  <2>1. CASE BeforePulses(s, p) = {}
    BY <2>1, AbortPut DEF smf_track_add_event_pulses
  <2>2. CASE BeforePulses(s, p) # {}
    <3>1. s.tempos # << >>
      BY <1>3, <2>2 DEF BeforePulses
    <3>2. smf_track_add_event_pulses(s, t, Event(kind, val, tag), p)
            = smf_track_add_event(s, t, TimedEvent(kind, val, tag, p,
                                                   seconds_from_pulses(s, p)))
      BY <2>2 DEF smf_track_add_event_pulses, TimedEvent
    <3> QED
      BY <1>2, <3>1, <3>2
  <2> QED
    BY <2>1, <2>2
<1>5. ASSUME NEW x \in Int
      PROVE  LET r == smf_track_add_event_seconds(s, t, Event(kind, val, tag), x)
             IN  Put(r, s, t, tag) /\ (r.failed = "" => tag \in TagsIn(r, t))
  <2>1. CASE BeforeSeconds(s, x) = {}
    BY <2>1, AbortPut DEF smf_track_add_event_seconds
  <2>2. CASE BeforeSeconds(s, x) # {}
    <3>1. s.tempos # << >>
      BY <1>3, <2>2 DEF BeforeSeconds
    <3> DEFINE p == pulses_from_seconds(s, x)
    <3>2. p \in Nat
      BY <1>1, <2>2, TimeTold
    <3>3. smf_track_add_event_seconds(s, t, Event(kind, val, tag), x)
            = smf_track_add_event(s, t, EventOfSecond(kind, val, tag, x, p))
      BY <2>2 DEF smf_track_add_event_seconds, EventOfSecond
    <3> HIDE DEF p
    <3>4. smf_track_add_event_seconds(s, t, Event(kind, val, tag), x)
            = smf_track_add_event(s, t, TimedEvent(kind, val, tag, p, x))
      BY <3>2, <3>3, EventTimed
    <3> QED
      BY <1>2, <3>1, <3>2, <3>4
  <2> QED
    BY <2>1, <2>2
<1> QED
  BY <1>4, <1>5

LEMMA EotSound ==
    ASSUME NEW s, Sound(s), InitialTempo \in Nat \ {0}, NEW t \in DOMAIN s.tracks,
           NEW tag, tag \notin Tags(s)
    PROVE  /\ LET r == smf_track_add_eot_delta_pulses(s, t, tag, 0)
              IN  Put(r, s, t, tag) /\ (r.failed = "" => tag \in TagsIn(r, t))
           /\ \A x \in Int : Put(smf_track_add_eot_seconds(s, t, tag, x), s, t, tag)
<1>1. "eot" \in Kind /\ 0 \in Nat
  BY DEF Kind
<1>2. last_event_pulses(s.tracks[t]) + 0 \in Nat
  <2> DEFINE es == s.tracks[t].events
  <2>1. InOrder(es)
    BY DEF Sound, Steady, Orderly
  <2>2. es # << >> => Len(es) \in DOMAIN es
    BY <2>1, SequenceFacts, EmptySequence DEF InOrder
  <2>3. es # << >> => Last(es).pulses \in Nat
    BY <2>1, <2>2 DEF Last, InOrder
  <2>4. last_event_pulses(s.tracks[t]) \in Nat
    BY <2>3 DEF last_event_pulses
  <2> QED
    BY <2>4
<1>3. LET r == smf_track_add_eot_delta_pulses(s, t, tag, 0)
      IN  Put(r, s, t, tag) /\ (r.failed = "" => tag \in TagsIn(r, t))
  <2> DEFINE p == last_event_pulses(s.tracks[t]) + 0
             r == smf_track_add_event_pulses(s, t, Event("eot", 0, tag), p)
  <2>1. smf_track_add_eot_delta_pulses(s, t, tag, 0) = r
    BY DEF smf_track_add_eot_delta_pulses, smf_track_add_event_delta_pulses
  <2>2. p \in Nat
    BY <1>2
  <2> HIDE DEF p
  <2>3. Put(r, s, t, tag) /\ (r.failed = "" => tag \in TagsIn(r, t))
    BY <1>1, <2>2, AddedSound
  <2> QED
    BY <2>1, <2>3
<1>4. Put(s, s, t, tag)
  BY DEF Put, Changed
<1>5. \A x \in Int : Put(smf_track_add_event_seconds(s, t, Event("eot", 0, tag), x), s, t, tag)
  BY <1>1, AddedSound
<1>6. \A x \in Int : Put(smf_track_add_eot_seconds(s, t, tag, x), s, t, tag)
  BY <1>4, <1>5 DEF smf_track_add_eot_seconds
<1> QED
  BY <1>3, <1>6

-----------------------------------------------------------------------------
(* A new tag.                                                               *)

LEMMA TagsFinite ==
    ASSUME NEW s, Songlike(s), NEW tag
    PROVE  IsFiniteSet(Tags(s)) /\ IsFiniteSet(Tags(s) \cup {tag})
<1> DEFINE f == [e \in EventsIn(s) |-> EventAt(s, e).tag]
<1>1. IsFiniteSet(EventsIn(s))
  BY FinitelyManyEvents
<1>2. Tags(s) = {f[e] : e \in EventsIn(s)}
  BY DEF Tags
<1>3. IsFiniteSet({f[e] : e \in EventsIn(s)})
  <2>1. f \in [EventsIn(s) -> {f[e] : e \in EventsIn(s)}]
    OBVIOUS
  <2>2. f \in Surjection(EventsIn(s), {f[e] : e \in EventsIn(s)})
    BY <2>1 DEF Surjection
  <2> HIDE DEF f
  <2> QED
    BY <1>1, <2>2, FS_Surjection
<1>4. IsFiniteSet(Tags(s))
  BY <1>2, <1>3
<1> HIDE DEF f
<1>5. IsFiniteSet(Tags(s) \cup {tag})
  BY <1>4, FS_AddElement
<1> QED
  BY <1>4, <1>5

\* There is an n-th number that is not used, and as many before it as there
\* should be.
LEMMA FreeTag ==
    ASSUME NEW used, IsFiniteSet(used), NEW n \in Nat \ {0}
    PROVE  NthFree(used, n) \notin used /\ Cardinality(1 .. NthFree(used, n) \ used) = n
<1> DEFINE c == Cardinality(used)
           b == c + n
           free == 1 .. b \ used
           P(x) == Cardinality(1 .. x \ used)
           S == {x \in 0 .. b : P(x) >= n}
<1>1. c \in Nat /\ b \in Nat
  BY FS_CardinalityType
<1> HIDE DEF c
<1>2. ASSUME NEW x \in Nat
      PROVE  IsFiniteSet(1 .. x \ used) /\ P(x) \in Nat /\ P(x) >= x - c
  <2>1. IsFiniteSet(1 .. x) /\ Cardinality(1 .. x) = x
    BY FS_Interval
  <2>2. IsFiniteSet(1 .. x \ used) /\ P(x) = x - Cardinality(1 .. x \cap used)
    BY <2>1, FS_Difference
  <2>3. IsFiniteSet(1 .. x \cap used) /\ Cardinality(1 .. x \cap used) <= c
    BY FS_Subset DEF c
  <2>4. P(x) \in Nat /\ Cardinality(1 .. x \cap used) \in Nat
    BY <2>2, <2>3, FS_CardinalityType
  <2> QED
    BY <1>1, <2>2, <2>3, <2>4
<1>3. P(0) = 0
  <2>1. 1 .. 0 \ used = {}
    OBVIOUS
  <2> QED
    BY <2>1, FS_EmptySet
<1>4. ASSUME NEW x \in Nat
      PROVE  /\ x + 1 \in used => P(x + 1) = P(x)
             /\ x + 1 \notin used => P(x + 1) = P(x) + 1
  <2>1. CASE x + 1 \in used
    <3>1. 1 .. x + 1 \ used = 1 .. x \ used
      BY <2>1
    <3> QED
      BY <2>1, <3>1
  <2>2. CASE x + 1 \notin used
    <3>1. 1 .. x + 1 \ used = (1 .. x \ used) \cup {x + 1} /\ x + 1 \notin 1 .. x \ used
      BY <2>2
    <3> QED
      BY <1>2, <2>2, <3>1, FS_AddElement
  <2> QED
    BY <2>1, <2>2
<1>5. b \in S
  BY <1>1, <1>2
<1>6. PICK m \in S : \A k \in S : m <= k
  <2>1. S \in SUBSET Nat
    OBVIOUS
  <2> HIDE DEF S
  <2> QED
    BY <1>5, <2>1, LeastNumber
<1>7. P(m) = n /\ m \notin used /\ m \in 1 .. b
  <2>1. m \in 0 .. b /\ P(m) >= n
    OBVIOUS
  <2>2. m # 0
    BY <1>3, <2>1
  <2>3. m - 1 \in Nat /\ m - 1 \in 0 .. b /\ ~(P(m - 1) >= n)
    BY <1>1, <1>6, <2>1, <2>2
  <2>4. P(m - 1) \in Nat /\ P(m) \in Nat
    BY <1>2, <2>1, <2>3
  <2>5. /\ m \in used => P(m) = P(m - 1)
        /\ m \notin used => P(m) = P(m - 1) + 1
    BY <1>4, <2>3
  <2> HIDE DEF P, S
  <2>6. m \notin used
    BY <2>1, <2>3, <2>4, <2>5
  <2>7. P(m) = n
    BY <2>1, <2>3, <2>4, <2>5, <2>6
  <2> QED
    BY <1>1, <2>1, <2>2, <2>6, <2>7
<1>8. \A x \in 1 .. b : {y \in free : y <= x} = 1 .. x \ used
  BY <1>1
<1>9. m \in free /\ Cardinality({y \in free : y <= m}) = n
  BY <1>7, <1>8
<1>10. NthFree(used, n) = CHOOSE x \in free : Cardinality({y \in free : y <= x}) = n
  BY DEF NthFree, c
<1> DEFINE z == CHOOSE x \in free : Cardinality({y \in free : y <= x}) = n
<1>11. z \in free /\ Cardinality({y \in free : y <= z}) = n
  BY <1>9
<1> HIDE DEF z
<1>12. z \notin used /\ z \in 1 .. b
  BY <1>11
<1>13. P(z) = n
  BY <1>8, <1>11, <1>12
<1> QED
  BY <1>10, <1>12, <1>13 DEF z

LEMMA FreshTags ==
    ASSUME Songlike(smf)
    PROVE  \A n \in Nat \ {0} :
              /\ Fresh(n) \notin Tags(smf) /\ Fresh(n) # selected_event.tag
              /\ \A m \in Nat \ {0} : m # n => Fresh(m) # Fresh(n)
<1> DEFINE used == Tags(smf) \cup {selected_event.tag}
<1>1. IsFiniteSet(used)
  BY TagsFinite
<1> HIDE DEF used
<1>2. \A n \in Nat \ {0} : /\ NthFree(used, n) \notin used
                           /\ Cardinality(1 .. NthFree(used, n) \ used) = n
  BY <1>1, FreeTag
<1>3. \A n \in Nat \ {0} : Fresh(n) = NthFree(used, n)
  BY DEF Fresh, used
<1> QED
  BY <1>2, <1>3 DEF used

-----------------------------------------------------------------------------
(* A track is removed.                                                      *)

LEMMA RenumberNames ==
    ASSUME NEW tr, Tracklike(tr), InOrder(tr.events), NEW i
    PROVE  LET es == Renumber(tr, i).events
           IN  /\ TagSet(es) = TagSet(tr.events)
               /\ Distinct(tr.events) => Distinct(es)
               /\ Kinds(tr.events) => Kinds(es)
<1> DEFINE es == Renumber(tr, i).events
<1>1. es = [j \in DOMAIN tr.events |-> [tr.events[j] EXCEPT !.track = i]]
  BY DEF Renumber, Tracklike, TrackFields
<1>2. \A e : EventFields \subseteq DOMAIN e =>
         [e EXCEPT !.track = i].tag = e.tag /\ [e EXCEPT !.track = i].kind = e.kind
  BY DEF EventFields
<1> HIDE DEF es
<1>3. DOMAIN es = DOMAIN tr.events
      /\ \A j \in DOMAIN tr.events : es[j].tag = tr.events[j].tag /\ es[j].kind = tr.events[j].kind
  BY <1>1, <1>2 DEF InOrder
<1>4. /\ TagSet(es) = TagSet(tr.events)
      /\ Distinct(tr.events) => Distinct(es)
      /\ Kinds(tr.events) => Kinds(es)
  BY <1>3 DEF TagSet, Distinct, Kinds
<1> QED
  BY <1>4 DEF es

\* Where the track at a place was before one was removed.
Was(u, t) == IF u < t THEN u ELSE u + 1

LEMMA RemoveTrackSound ==
    ASSUME NEW s, Sound(s), NEW t \in DOMAIN s.tracks
    PROVE  LET r == smf_track_remove_from_smf(s, t)
           IN  /\ Sound(r) /\ r.failed = s.failed /\ r.ppqn = s.ppqn
               /\ \A u \in DOMAIN r.tracks :
                     Was(u, t) \in DOMAIN s.tracks /\ TagsIn(r, u) = TagsIn(s, Was(u, t))
<1> DEFINE n == Len(s.tracks)
           r == smf_track_remove_from_smf(s, t)
<1>1. Fits(s) /\ Steady(s) /\ Counted(s) /\ Mapped(s) /\ Named(s)
  BY DEF Sound
<1>2. n \in Nat /\ DOMAIN s.tracks = 1 .. n /\ t \in 1 .. n
  BY <1>1, Places
<1>3. /\ Fits(r) /\ Steady(r) /\ r.failed = s.failed /\ (Begun(s) <=> Begun(r))
      /\ Counted(r) /\ r.ppqn = s.ppqn /\ r.tempos = s.tempos
  BY <1>1, RemoveTrackFits, RemoveTrackSteady, RemoveTrackSynced, RemoveTrackMarks
<1>4. r.tracks = [i \in 1 .. n - 1 |-> IF i < t THEN s.tracks[i] ELSE Renumber(s.tracks[i + 1], i)]
  BY <1>1 DEF smf_track_remove_from_smf, Fits, Songlike, SongFields
<1> HIDE DEF r, n
<1>5. ASSUME NEW u \in 1 .. n - 1
      PROVE  /\ Was(u, t) \in 1 .. n
             /\ TagsIn(r, u) = TagsIn(s, Was(u, t))
             /\ Distinct(r.tracks[u].events) /\ Kinds(r.tracks[u].events)
  <2>1. u \in 1 .. n /\ u + 1 \in 1 .. n
    BY <1>2
  <2>2. CASE u < t
    <3>1. r.tracks[u] = s.tracks[u] /\ Was(u, t) = u
      BY <1>4, <2>2 DEF Was
    <3> QED
      BY <1>1, <1>2, <2>1, <3>1 DEF TagsIn, Named
  <2>3. CASE ~(u < t)
    <3>1. r.tracks[u] = Renumber(s.tracks[u + 1], u) /\ Was(u, t) = u + 1
      BY <1>4, <2>3 DEF Was
    <3>2. /\ Tracklike(s.tracks[u + 1]) /\ InOrder(s.tracks[u + 1].events)
          /\ Distinct(s.tracks[u + 1].events) /\ Kinds(s.tracks[u + 1].events)
      BY <1>1, <1>2, <2>1 DEF Steady, Orderly, Songlike, Named
    <3> QED
      BY <2>1, <3>1, <3>2, RenumberNames DEF TagsIn
  <2> QED
    BY <2>2, <2>3
<1>6. \A u, w \in 1 .. n - 1 : u # w => Was(u, t) # Was(w, t)
  BY <1>2 DEF Was
<1>7. DOMAIN r.tracks = 1 .. n - 1
  BY <1>4
<1>8. Named(r)
  <2>1. \A u, w \in 1 .. n - 1 : u # w => TagsIn(r, u) \cap TagsIn(r, w) = {}
    BY <1>1, <1>2, <1>5, <1>6 DEF Named, TagsIn
  <2> QED
    BY <1>5, <1>7, <2>1 DEF Named, TagsIn
<1>9. Mapped(r)
  BY <1>1, <1>3 DEF Mapped
<1>10. Sound(r)
  BY <1>3, <1>8, <1>9 DEF Sound
<1> QED
  BY <1>2, <1>3, <1>5, <1>7, <1>10 DEF r

\* A track goes, and all its events before: those of the others stay.
LEMMA TrackDeleteSound ==
    ASSUME NEW s, Sound(s), InitialTempo \in Nat \ {0}, NEW t \in DOMAIN s.tracks
    PROVE  LET r == smf_track_delete(s, t)
           IN  /\ Sound(r) /\ r.failed = s.failed /\ r.ppqn = s.ppqn
               /\ \A u \in DOMAIN r.tracks :
                     Was(u, t) \in DOMAIN s.tracks /\ TagsIn(r, u) = TagsIn(s, Was(u, t))
<1> DEFINE n == Len(s.tracks[t].events)
           h == CHOOSE g : Losing(g, t, s, n)
           Good(r, m) == /\ Sound(r) /\ r.failed = s.failed /\ Changed(r, s, t, {})
                         /\ Len(r.tracks[t].events) = m
           S == {k \in 0 .. n : Good(h[k], n - k)}
<1>1. n \in Nat /\ n = Len(s.tracks[t].events)
  BY SequenceFacts DEF Sound, Fits, Songlike, Tracklike
<1>2. smf_track_delete(s, t) = smf_track_remove_from_smf(h[n], t)
  BY DEF smf_track_delete, Iterate, Losing
<1> HIDE DEF n
<1>3. h = [k \in 0 .. n |-> IF k = 0 THEN s ELSE LosesLast(h[k - 1], t)]
  <2>1. Losing(h, t, s, n)
    BY <1>1, LosingIterated
  <2> HIDE DEF h
  <2> QED
    BY <2>1 DEF Losing
<1> HIDE DEF h
<1>4. ASSUME NEW r, NEW m \in Nat, m >= 1, Good(r, m)
      PROVE  Good(LosesLast(r, t), m - 1)
  <2>1. t \in DOMAIN r.tracks /\ Steady(r)
    BY <1>4 DEF Changed, Sound
  <2>2. Len(LosesLast(r, t).tracks[t].events) = m - 1
    BY <1>4, <2>1, LosesLastSteady
  <2>3. m \in DOMAIN r.tracks[t].events
    BY <1>4, <2>1, SequenceFacts DEF Steady, Orderly, InOrder
  <2>4. LosesLast(r, t) = smf_event_remove_from_track(r, t, m)
    BY <1>4 DEF LosesLast
  <2>5. /\ Sound(LosesLast(r, t)) /\ LosesLast(r, t).failed = r.failed
        /\ Changed(LosesLast(r, t), r, t, {})
    BY <1>4, <2>1, <2>3, <2>4, smf_event_removeSound
  <2>6. Changed(LosesLast(r, t), s, t, {})
    BY <1>4, <2>1, <2>5 DEF Changed
  <2> QED
    BY <1>4, <2>2, <2>5, <2>6
<1>5. Good(s, n)
  BY <1>1 DEF Changed
<1> HIDE DEF Good
<1>6. 0 \in S
  BY <1>1, <1>3, <1>5
<1>7. ASSUME NEW k \in S, k < n
      PROVE  k + 1 \in S
  <2>1. k + 1 \in 0 .. n /\ h[k + 1] = LosesLast(h[k], t)
    BY <1>1, <1>3, <1>7
  <2>2. n - k \in Nat /\ n - k >= 1 /\ (n - k) - 1 = n - (k + 1)
    BY <1>1, <1>7
  <2> QED
    BY <1>4, <2>1, <2>2
<1>8. S = 0 .. n
  <2> HIDE DEF S
  <2>1. S \in SUBSET (0 .. n)
    BY DEF S
  <2> QED
    BY <1>1, <1>6, <1>7, <2>1, Induction
<1>9. Good(h[n], 0)
  <2>1. n \in S /\ n - n = 0
    BY <1>1, <1>8
  <2> QED
    BY <2>1
<1> DEFINE q == h[n]
           r == smf_track_remove_from_smf(q, t)
<1>10. /\ Sound(q) /\ q.failed = s.failed /\ q.ppqn = s.ppqn /\ DOMAIN q.tracks = DOMAIN s.tracks
       /\ \A u \in DOMAIN s.tracks : u # t => TagsIn(q, u) = TagsIn(s, u)
  BY <1>9 DEF Good, Changed
<1> HIDE DEF q
<1>11. /\ Sound(r) /\ r.failed = s.failed /\ r.ppqn = s.ppqn
       /\ \A u \in DOMAIN r.tracks :
             Was(u, t) \in DOMAIN q.tracks /\ TagsIn(r, u) = TagsIn(q, Was(u, t))
  BY <1>10, RemoveTrackSound
<1>12. \A u \in DOMAIN r.tracks : u \in Nat
  BY <1>11, Places DEF Sound
<1>13. \A u \in DOMAIN r.tracks : Was(u, t) # t
  <2>1. t \in Nat
    BY Places DEF Sound
  <2> QED
    BY <1>12, <2>1 DEF Was
<1> HIDE DEF r
<1>14. \A u \in DOMAIN r.tracks : Was(u, t) \in DOMAIN s.tracks /\ TagsIn(r, u) = TagsIn(s, Was(u, t))
  BY <1>10, <1>11, <1>13
<1> QED
  BY <1>2, <1>11, <1>14 DEF r, q

-----------------------------------------------------------------------------
(* What does not touch the events.                                          *)

\* The same events under the same tempo map.
LEMMA UnmovedSound ==
    ASSUME NEW s, Sound(s), NEW r, Unmoved(r, s), Same(r, s), Steady(r)
    PROVE  /\ Sound(r) /\ r.ppqn = s.ppqn /\ DOMAIN r.tracks = DOMAIN s.tracks
           /\ \A t \in DOMAIN s.tracks : TagsIn(r, t) = TagsIn(s, t)
<1>1. Fits(s) /\ Steady(s) /\ Counted(s) /\ Mapped(s) /\ Named(s)
  BY DEF Sound
<1>2. Fits(r)
  BY <1>1, SameAlike, FitsKept
<1>3. Counted(r) /\ r.tempos = s.tempos /\ r.ppqn = s.ppqn
  BY <1>1, UnmovedMarks DEF Unmoved
<1>4. /\ DOMAIN r.tracks = DOMAIN s.tracks /\ Named(r)
      /\ \A t \in DOMAIN s.tracks : TagsIn(r, t) = TagsIn(s, t)
  BY <1>1, SameNamed
<1>5. Mapped(r)
  BY <1>1, <1>3 DEF Mapped, Begun
<1> QED
  BY <1>2, <1>3, <1>4, <1>5 DEF Sound

LEMMA RewindSound ==
    ASSUME NEW s, Sound(s)
    PROVE  LET r == smf_rewind(s)
           IN  /\ Sound(r) /\ r.failed = s.failed /\ r.ppqn = s.ppqn /\ DOMAIN r.tracks = DOMAIN s.tracks
               /\ \A t \in DOMAIN s.tracks : TagsIn(r, t) = TagsIn(s, t)
<1>1. Steady(s) /\ Songlike(s)
  BY DEF Sound, Fits
<1>2. /\ Unmoved(smf_rewind(s), s) /\ Same(smf_rewind(s), s)
      /\ Steady(smf_rewind(s)) /\ smf_rewind(s).failed = s.failed
  BY <1>1, PositionUnmoved, smf_rewindSame, smf_rewindSteady
<1> QED
  BY <1>2, UnmovedSound

LEMMA LastPulses ==
    ASSUME NEW es, InOrder(es), es # << >>
    PROVE  Last(es).pulses \in Nat
<1>1. Len(es) \in Nat /\ DOMAIN es = 1 .. Len(es) /\ Len(es) # 0
  BY SequenceFacts, EmptySequence DEF InOrder
<1>2. Len(es) \in DOMAIN es
  BY <1>1
<1> QED
  BY <1>2 DEF Last, InOrder

LEMMA AtEndReady ==
    ASSUME NEW tr, Tracklike(tr), InOrder(tr.events), tr.events # << >>
    PROVE  Ready(AtEnd(tr)) /\ AtEnd(tr).events = tr.events
<1>1. Last(tr.events).pulses \in Nat
  BY LastPulses
<1>2. /\ AtEnd(tr).next = -1 /\ AtEnd(tr).time = Last(tr.events).pulses
      /\ AtEnd(tr).events = tr.events
  BY DEF AtEnd, Tracklike, TrackFields
<1> QED
  BY <1>1, <1>2 DEF Ready

LEMMA WrittenOutSound ==
    ASSUME NEW s, Sound(s), s.failed = "" => \A t \in DOMAIN s.tracks : s.tracks[t].events # << >>
    PROVE  LET r == WrittenOut(s)
           IN  /\ Sound(r) /\ r.failed = s.failed /\ r.ppqn = s.ppqn /\ DOMAIN r.tracks = DOMAIN s.tracks
               /\ \A t \in DOMAIN s.tracks : TagsIn(r, t) = TagsIn(s, t)
<1> DEFINE tracks == [t \in DOMAIN s.tracks |-> AtEnd(s.tracks[t])]
           r == WrittenOut(s)
<1>1. Steady(s) /\ Songlike(s) /\ IsSequence(s.tempos)
  BY DEF Sound, Fits, Steady
<1>2. Same(r, s)
  BY <1>1, WrittenOutSame
<1>3. CASE s.failed # ""
  <2>1. r = s
    BY <1>3 DEF WrittenOut
  <2> QED
    BY <2>1
<1>4. CASE s.failed = ""
  <2>1. r = [s EXCEPT !.tracks = tracks]
    BY <1>4 DEF WrittenOut
  <2>2. r.tracks = tracks /\ r.tempos = s.tempos /\ r.ppqn = s.ppqn /\ r.failed = s.failed
    BY <1>1, <2>1 DEF Songlike, SongFields
  <2> HIDE DEF r
  <2>3. ASSUME NEW t \in DOMAIN s.tracks
        PROVE  Ready(tracks[t]) /\ tracks[t].events = s.tracks[t].events
    <3>1. Tracklike(s.tracks[t]) /\ InOrder(s.tracks[t].events) /\ s.tracks[t].events # << >>
      BY <1>1, <1>4 DEF Steady, Orderly, Songlike
    <3> QED
      BY <3>1, AtEndReady
  <2>4. Unmoved(r, s)
    BY <2>2, <2>3 DEF Unmoved
  <2>5. Steady(r)
    BY <1>1, <1>2, <2>2, <2>3, SameSteady
  <2>6. /\ Sound(r) /\ r.ppqn = s.ppqn /\ DOMAIN r.tracks = DOMAIN s.tracks
        /\ \A t \in DOMAIN s.tracks : TagsIn(r, t) = TagsIn(s, t)
    BY <1>2, <2>4, <2>5, UnmovedSound
  <2> QED
    BY <2>2, <2>6 DEF r
<1> QED
  BY <1>3, <1>4

-----------------------------------------------------------------------------
(* A song is saved.                                                         *)

\* The events of a song that is validated: an end of track may have come, and
\* another gone, in each track that is done with.
Validated(q, s, tag, done) ==
    /\ Sound(q) /\ q.ppqn = s.ppqn /\ DOMAIN q.tracks = DOMAIN s.tracks
    /\ q.failed = s.failed \/ (s.failed = "" /\ q.failed = "tempo")
    /\ \A u \in DOMAIN s.tracks :
          TagsIn(q, u) \subseteq TagsIn(s, u) \cup IF u \in done THEN {tag[u]} ELSE {}
    /\ q.failed = "" => \A u \in DOMAIN s.tracks : u \in done => TagsIn(q, u) # {}

\* The tags for the ends that are missing are new, and differ.
Spare(s, tag) ==
    /\ \A u \in DOMAIN s.tracks : tag[u] \notin Tags(s)
    /\ \A u, v \in DOMAIN s.tracks : u # v => tag[u] # tag[v]

LEMMA ValidTrackSound ==
    ASSUME NEW s, NEW tag, Spare(s, tag), InitialTempo \in Nat \ {0},
           NEW q, NEW done, Validated(q, s, tag, done),
           NEW t \in DOMAIN s.tracks, t \notin done
    PROVE  LET r == IF Ended(q.tracks[t].events) THEN q
                    ELSE smf_track_add_eot_delta_pulses(q, t, tag[t], 0)
           IN  Validated(r, s, tag, done \cup {t})
<1>1. tag[t] \notin Tags(q)
  <2>1. ASSUME NEW u \in DOMAIN s.tracks
        PROVE  tag[t] \notin TagsIn(q, u)
    <3>1. TagsIn(s, u) \subseteq Tags(s)
      BY TagsAre DEF TagsIn
    <3>2. tag[t] \notin TagsIn(s, u)
      BY <3>1 DEF Spare
    <3>3. u \in done => tag[u] # tag[t]
      BY DEF Spare
    <3>4. TagsIn(q, u) \subseteq TagsIn(s, u) \cup IF u \in done THEN {tag[u]} ELSE {}
      BY DEF Validated
    <3> QED
      BY <3>2, <3>3, <3>4
  <2> QED
    BY <2>1, TagsAre DEF Validated, TagsIn
<1>2. CASE Ended(q.tracks[t].events)
  <2>1. TagsIn(q, t) # {}
    BY <1>2 DEF TagsIn, TagSet, Ended
  <2>2. Validated(q, s, tag, done \cup {t})
    BY <2>1 DEF Validated
  <2> QED
    BY <1>2, <2>2
<1>3. CASE ~Ended(q.tracks[t].events)
  <2> DEFINE r == smf_track_add_eot_delta_pulses(q, t, tag[t], 0)
  <2>1. Put(r, q, t, tag[t]) /\ (r.failed = "" => tag[t] \in TagsIn(r, t))
    BY <1>1, EotSound DEF Validated
  <2> HIDE DEF r
  <2>2. Validated(r, s, tag, done \cup {t})
    <3>1. /\ Sound(r) /\ r.ppqn = s.ppqn /\ DOMAIN r.tracks = DOMAIN s.tracks
          /\ r.failed = s.failed \/ (s.failed = "" /\ r.failed = "tempo")
      BY <2>1 DEF Validated, Put, Changed
    <3>2. ASSUME NEW u \in DOMAIN s.tracks
          PROVE  TagsIn(r, u) \subseteq TagsIn(s, u) \cup IF u \in done \cup {t} THEN {tag[u]} ELSE {}
      BY <2>1 DEF Validated, Put, Changed
    <3>3. ASSUME NEW u \in DOMAIN s.tracks, r.failed = "", u \in done \cup {t}
          PROVE  TagsIn(r, u) # {}
      BY <2>1, <3>3 DEF Validated, Put, Changed
    <3> QED
      BY <3>1, <3>2, <3>3 DEF Validated
  <2> QED
    BY <1>3, <2>2 DEF r
<1> QED
  BY <1>2, <1>3

LEMMA SameCount ==
    ASSUME NEW s, Fits(s), NEW r, Fits(r), DOMAIN r.tracks = DOMAIN s.tracks
    PROVE  Len(r.tracks) = Len(s.tracks)
<1> DEFINE m == Len(r.tracks)
           n == Len(s.tracks)
<1>1. m \in Nat /\ n \in Nat /\ 1 .. m = 1 .. n
  BY Places
<1> HIDE DEF m, n
<1>2. m = n
  BY <1>1
<1> QED
  BY <1>2 DEF m, n

LEMMA ValidSound ==
    ASSUME NEW s, Sound(s), NEW tag, Spare(s, tag), InitialTempo \in Nat \ {0}
    PROVE  LET v == smf_validate(s, {}, tag)
           IN  \E done \in SUBSET DOMAIN s.tracks :
                  /\ Validated(v.song, s, tag, done)
                  /\ v.ok => done = DOMAIN s.tracks
<1> DEFINE n == Len(s.tracks)
           first == [t |-> 1, song |-> s]
           h == CHOOSE g : Validating(g, {}, tag, first, n)
           Good(r) == r.t \in 1 .. n + 1 /\ Validated(r.song, s, tag, 1 .. r.t - 1)
           S == {k \in 0 .. n : Good(h[k])}
<1>1. n \in Nat /\ DOMAIN s.tracks = 1 .. n
  BY Places DEF Sound
<1>2. /\ smf_validate(s, {}, tag).song = h[n].song
      /\ smf_validate(s, {}, tag).ok <=> n > 0 /\ h[n].t > n
  BY DEF smf_validate, Iterate, Validating
<1>3. Good(first)
  <2>1. Validated(s, s, tag, {})
    BY DEF Validated
  <2>2. 1 .. 1 - 1 = {} /\ 1 \in 1 .. n + 1
    BY <1>1
  <2> QED
    BY <2>1, <2>2
<1>4. ASSUME NEW q, NEW d, Validated(q, s, tag, d)
      PROVE  Len(q.tracks) = n
  <2>1. Fits(q) /\ Fits(s) /\ DOMAIN q.tracks = DOMAIN s.tracks
    BY <1>4 DEF Validated, Sound
  <2> QED
    BY <2>1, SameCount
<1> HIDE DEF n, first
<1>5. h = [k \in 0 .. n |-> IF k = 0 THEN first ELSE NextValid(h[k - 1], {}, tag)]
  <2>1. Validating(h, {}, tag, first, n)
    BY <1>1, ValidIterated
  <2> HIDE DEF h
  <2> QED
    BY <2>1 DEF Validating
<1>6. ASSUME NEW r, Good(r)
      PROVE  Good(NextValid(r, {}, tag))
  <2>1. CASE r.t > Len(r.song.tracks) \/ Refused(r.song.tracks[r.t].events, {})
    BY <1>6, <2>1 DEF NextValid
  <2>2. CASE ~(r.t > Len(r.song.tracks) \/ Refused(r.song.tracks[r.t].events, {}))
    <3> DEFINE q == IF Ended(r.song.tracks[r.t].events) THEN r.song
                    ELSE smf_track_add_eot_delta_pulses(r.song, r.t, tag[r.t], 0)
    <3>1. r.t \in 1 .. n /\ r.t \notin 1 .. r.t - 1
      BY <1>1, <1>4, <1>6, <2>2
    <3>2. (1 .. r.t - 1) \cup {r.t} = 1 .. (r.t + 1) - 1
      BY <3>1
    <3>3. Validated(q, s, tag, 1 .. (r.t + 1) - 1)
      <4>1. Validated(r.song, s, tag, 1 .. r.t - 1) /\ r.t \in DOMAIN s.tracks
        BY <1>1, <1>6, <3>1
      <4>2. Validated(q, s, tag, (1 .. r.t - 1) \cup {r.t})
        BY <3>1, <4>1, ValidTrackSound
      <4> QED
        BY <3>2, <4>2
    <3>4. NextValid(r, {}, tag) = [t |-> r.t + 1, song |-> q]
      BY <2>2 DEF NextValid
    <3> HIDE DEF q
    <3> QED
      BY <1>1, <3>1, <3>3, <3>4
  <2> QED
    BY <2>1, <2>2
<1> HIDE DEF h, Good
<1>7. 0 \in S
  BY <1>1, <1>3, <1>5
<1>8. ASSUME NEW k \in S, k < n
      PROVE  k + 1 \in S
  <2>1. h[k + 1] = NextValid(h[k], {}, tag) /\ k + 1 \in 0 .. n
    BY <1>1, <1>5, <1>8
  <2> QED
    BY <1>6, <2>1
<1>9. S = 0 .. n
  <2> HIDE DEF S
  <2>1. S \in SUBSET (0 .. n)
    BY DEF S
  <2> QED
    BY <1>1, <1>7, <1>8, <2>1, Induction
<1>10. n \in S
  BY <1>1, <1>9
<1>11. h[n].t \in 1 .. n + 1 /\ Validated(h[n].song, s, tag, 1 .. h[n].t - 1)
  BY <1>10 DEF Good
<1> DEFINE m == h[n].t
<1>12. m \in 1 .. n + 1 /\ Validated(h[n].song, s, tag, 1 .. m - 1)
  BY <1>11
<1> HIDE DEF m
<1>13. 1 .. m - 1 \in SUBSET DOMAIN s.tracks
  BY <1>1, <1>12
<1>14. m > n => 1 .. m - 1 = DOMAIN s.tracks
  BY <1>1, <1>12
<1> QED
  BY <1>2, <1>12, <1>13, <1>14 DEF m

-----------------------------------------------------------------------------
(* The header; a new song, a new track; and a song that is loaded.          *)

LEMMA HeldSound ==
    ASSUME NEW s, Sound(s), NEW r, Fits(r), r.tracks = s.tracks, r.tempos = s.tempos,
           r.ppqn \in Nat \ {0}
    PROVE  Sound(r)
<1>1. Steady(s) /\ Counted(s) /\ Mapped(s) /\ Named(s)
  BY DEF Sound
<1>2. Steady(r)
  BY <1>1 DEF Steady, Orderly, Fits
<1>3. Counted(r)
  <2>1. \A e \in EventsIn(r) : e \in EventsIn(s) /\ EventAt(r, e) = EventAt(s, e)
    BY DEF EventsIn, EventAt
  <2>2. Marks(r) \subseteq Marks(s)
    BY <2>1 DEF Marks
  <2> QED
    BY <1>1, <2>2 DEF Counted, Valued
<1>4. Mapped(r) /\ Named(r)
  BY <1>1 DEF Mapped, Begun, Named
<1> QED
  BY <1>2, <1>3, <1>4 DEF Sound

LEMMA HeaderSound ==
    ASSUME NEW s, Sound(s)
    PROVE  /\ \A n \in Nat \ {0} :
                 LET r == smf_set_ppqn(s, n)
                 IN  Sound(r) /\ r.tracks = s.tracks /\ r.failed = s.failed /\ r.ppqn = n
           /\ \A f :
                 LET r == smf_set_format(s, f)
                 IN  /\ Sound(r) /\ r.tracks = s.tracks /\ r.ppqn = s.ppqn
                     /\ r.failed \in {s.failed, "format"}
<1>1. Fits(s) /\ SongFields \subseteq DOMAIN s /\ s.ppqn \in Nat \ {0}
  BY DEF Sound, Fits, Songlike, Counted
<1>2. ASSUME NEW n \in Nat \ {0}
      PROVE  LET r == smf_set_ppqn(s, n)
             IN  Sound(r) /\ r.tracks = s.tracks /\ r.failed = s.failed /\ r.ppqn = n
  <2> DEFINE r == smf_set_ppqn(s, n)
  <2>1. r = [s EXCEPT !.ppqn = n]
    <3>1. ~(n <= 0)
      OBVIOUS
    <3> QED
      BY <3>1 DEF smf_set_ppqn
  <2>2. r.tracks = s.tracks /\ r.tempos = s.tempos /\ r.failed = s.failed /\ r.ppqn = n
    BY <1>1, <2>1 DEF SongFields
  <2>3. Fits(r)
    BY <1>1, HeaderFits
  <2> HIDE DEF r
  <2>4. Sound(r)
    BY <2>2, <2>3, HeldSound
  <2> QED
    BY <2>2, <2>4 DEF r
<1>3. ASSUME NEW f
      PROVE  LET r == smf_set_format(s, f)
             IN  /\ Sound(r) /\ r.tracks = s.tracks /\ r.ppqn = s.ppqn
                 /\ r.failed \in {s.failed, "format"}
  <2> DEFINE r == smf_set_format(s, f)
  <2>1. r \in {s, [s EXCEPT !.failed = "format"], [s EXCEPT !.format = f]}
    BY DEF smf_set_format, Abort
  <2>2. Fits(r)
    BY <1>1, HeaderFits
  <2> HIDE DEF r
  <2>3. /\ r.tracks = s.tracks /\ r.tempos = s.tempos /\ r.ppqn = s.ppqn
        /\ r.failed \in {s.failed, "format"}
    BY <1>1, <2>1 DEF SongFields
  <2>4. Sound(r)
    BY <1>1, <2>2, <2>3, HeldSound
  <2> QED
    BY <2>3, <2>4 DEF r
<1> QED
  BY <1>2, <1>3

LEMMA NewSound ==
    ASSUME InitialPpqn \in Nat \ {0}, InitialTempo \in Nat \ {0}
    PROVE  /\ Sound(smf_new) /\ Len(smf_new.tracks) = 0
           /\ smf_new.failed = "" /\ smf_new.ppqn = InitialPpqn
<1> DEFINE blank == [tracks |-> << >>, tempos |-> << >>, format |-> 0, ppqn |-> InitialPpqn,
                     seek |-> 0, failed |-> ""]
           p == smf_set_ppqn(blank, InitialPpqn)
           q == smf_set_format(p, 0)
<1>1. smf_new = smf_init_tempo(q)
  BY DEF smf_new
<1>2. p = [blank EXCEPT !.ppqn = InitialPpqn]
  <2>1. ~(InitialPpqn <= 0)
    OBVIOUS
  <2> HIDE DEF blank
  <2> QED
    BY <2>1 DEF smf_set_ppqn
<1>3. p.ppqn = InitialPpqn /\ SongFields \subseteq DOMAIN p
  BY <1>2 DEF SongFields
<1> HIDE DEF p
<1>4. q = p \/ q = [p EXCEPT !.format = 0]
  BY DEF smf_set_format
<1>5. q.ppqn = InitialPpqn /\ SongFields \subseteq DOMAIN q
  BY <1>3, <1>4 DEF SongFields
<1> HIDE DEF q
<1>6. smf_new.ppqn = InitialPpqn
  BY <1>1, <1>5 DEF smf_init_tempo, new_tempo, SongFields
<1> HIDE DEF smf_new
<1>7. /\ Fits(smf_new) /\ Len(smf_new.tracks) = 0 /\ Steady(smf_new) /\ smf_new.failed = ""
      /\ Counted(smf_new) /\ Mapped(smf_new)
  BY NewFits, NewSteady, NewSynced, LinkedMapped DEF Synced
<1>8. DOMAIN smf_new.tracks = {}
  <2>1. DOMAIN smf_new.tracks = 1 .. 0
    BY <1>7, Places
  <2> QED
    BY <2>1
<1>9. Named(smf_new)
  BY <1>8 DEF Named
<1> QED
  BY <1>6, <1>7, <1>9 DEF Sound

LEMMA AddTrackSound ==
    ASSUME NEW s, Sound(s)
    PROVE  LET r == smf_add_track(s, smf_track_new)
           IN  /\ Sound(r) /\ r.failed = s.failed /\ r.ppqn = s.ppqn
               /\ Len(r.tracks) = Len(s.tracks) + 1
               /\ \A u \in DOMAIN s.tracks : u \in DOMAIN r.tracks /\ TagsIn(r, u) = TagsIn(s, u)
<1> DEFINE tr == smf_track_new
           n == Len(s.tracks) + 1
           r == smf_add_track(s, tr)
           new == [tr EXCEPT !.number = n]
           q == [s EXCEPT !.tracks = Append(s.tracks, new)]
<1>1. /\ Fits(s) /\ Steady(s) /\ Counted(s) /\ Mapped(s) /\ Named(s)
      /\ IsSequence(s.tracks) /\ SongFields \subseteq DOMAIN s
  BY DEF Sound, Fits, Songlike
<1>2. Tracklike(tr) /\ tr.events = << >> /\ DOMAIN << >> = {} /\ IsSequence(<< >>)
  BY NewTrack_Empty
<1>3. Ready(tr)
  BY DEF Ready, smf_track_new
<1>4. n \in Nat \ {0} /\ n - 1 = Len(s.tracks) /\ DOMAIN s.tracks = 1 .. n - 1
  BY <1>1, Places
<1>5. new.events = << >>
  BY <1>2 DEF Tracklike, TrackFields
<1> HIDE DEF tr
<1>6. /\ Fits(r) /\ Len(r.tracks) = Len(s.tracks) + 1 /\ r.tracks = Append(s.tracks, new)
  BY <1>1, <1>2, AddTrackFits
<1>7. r.tempos = s.tempos /\ r.ppqn = s.ppqn
  <2>1. r = q \/ r = [q EXCEPT !.format = 1]
    BY DEF smf_add_track, smf_set_format
  <2>2. q.tempos = s.tempos /\ q.ppqn = s.ppqn /\ DOMAIN q = DOMAIN s
    BY <1>1 DEF SongFields
  <2> HIDE DEF q, r
  <2> QED
    BY <1>1, <2>1, <2>2 DEF SongFields
<1> HIDE DEF r, new, n, q
<1>8. /\ DOMAIN r.tracks = 1 .. n /\ (\A i \in 1 .. n - 1 : r.tracks[i] = s.tracks[i])
      /\ r.tracks[n] = new
  <2>1. (n - 1) + 1 = n
    BY <1>4
  <2> QED
    BY <1>1, <1>4, <1>6, <2>1, AppendedSequence, SequenceFacts
<1>9. ASSUME NEW u \in 1 .. n
      PROVE  \/ u \in 1 .. n - 1 /\ r.tracks[u] = s.tracks[u]
             \/ u = n /\ r.tracks[u].events = << >>
  BY <1>4, <1>5, <1>8
<1>10. Orderly(r)
  <2>1. InOrder(<< >>)
    BY <1>2 DEF InOrder
  <2>2. \A u \in 1 .. n : InOrder(r.tracks[u].events)
    BY <1>1, <1>4, <1>9, <2>1 DEF Steady, Orderly
  <2> QED
    BY <1>6, <1>8, <2>2 DEF Orderly, Fits
<1>11. Steady(r) /\ r.failed = s.failed /\ (Begun(s) <=> Begun(r))
  BY <1>1, <1>2, <1>3, <1>10, AddTrackSteady DEF r
<1>12. Counted(r)
  <2>1. TempoValues(tr.events)
    BY <1>2 DEF TempoValues
  <2> QED
    BY <1>1, <1>2, <2>1, AddTrackSynced DEF r
<1>13. Mapped(r)
  BY <1>1, <1>7, <1>11 DEF Mapped
<1>14. Named(r)
  <2>1. Distinct(<< >>) /\ Kinds(<< >>) /\ TagSet(<< >>) = {}
    BY <1>2 DEF Distinct, Kinds, TagSet
  <2>2. \A u \in 1 .. n : Distinct(r.tracks[u].events) /\ Kinds(r.tracks[u].events)
    BY <1>1, <1>4, <1>9, <2>1 DEF Named
  <2>3. ASSUME NEW u \in 1 .. n, NEW w \in 1 .. n, u # w
        PROVE  TagSet(r.tracks[u].events) \cap TagSet(r.tracks[w].events) = {}
    <3>1. CASE u = n
      BY <2>1, <3>1, <1>9
    <3>2. CASE w = n
      BY <2>1, <3>2, <1>9
    <3>3. CASE u # n /\ w # n
      BY <1>1, <1>4, <1>9, <2>3, <3>3 DEF Named
    <3> QED
      BY <3>1, <3>2, <3>3
  <2> QED
    BY <1>8, <2>2, <2>3 DEF Named
<1>15. \A u \in DOMAIN s.tracks : u \in DOMAIN r.tracks /\ TagsIn(r, u) = TagsIn(s, u)
  BY <1>4, <1>8 DEF TagsIn
<1>16. Sound(r)
  BY <1>6, <1>11, <1>12, <1>13, <1>14 DEF Sound
<1> QED
  BY <1>6, <1>7, <1>11, <1>15, <1>16 DEF r, tr

\* What has been loaded of a file, as a song of so many tracks.
Read(s, n, ppqn) ==
    Sound(s) /\ Len(s.tracks) = n /\ s.ppqn = ppqn /\ s.failed \in {"", "tempo"}

LEMMA FirstFree ==
    ASSUME NEW used, IsFiniteSet(used)
    PROVE  NthFree(used, 1) \notin used
<1>1. 1 \in Nat \ {0}
  OBVIOUS
<1> QED
  BY <1>1, FreeTag

LEMMA LoadEventSound ==
    ASSUME InitialTempo \in Nat \ {0}, NEW ppqn, NEW n \in Nat \ {0}, NEW r, Read(r, n, ppqn),
           NEW tr \in Seq(Nat \X [kind : Kind, val : Nat]), NEW i \in 1 .. Len(tr)
    PROVE  Read(LoadEvent(r, tr, i), n, ppqn)
<1> DEFINE message == tr[i][2]
           p == tr[i][1]
           tag == NthFree(Tags(r), 1)
           q == smf_track_add_event_pulses(r, n, Event(message.kind, message.val, tag), p)
<1>1. tr[i] \in Nat \X [kind : Kind, val : Nat]
  OBVIOUS
<1>2. p \in Nat /\ message.kind \in Kind /\ message.val \in Nat
  BY <1>1
<1>3. LoadEvent(r, tr, i) = q
  BY DEF LoadEvent, Read
<1>4. tag \notin Tags(r)
  <2>1. IsFiniteSet(Tags(r))
    BY TagsFinite DEF Read, Sound, Fits
  <2>2. NthFree(Tags(r), 1) \notin Tags(r)
    BY <2>1, FirstFree
  <2> QED
    BY <2>2
<1>5. n \in DOMAIN r.tracks
  <2>1. Fits(r) /\ Len(r.tracks) = n
    BY DEF Read, Sound
  <2>2. DOMAIN r.tracks = 1 .. n
    BY <2>1, Places
  <2>3. n \in 1 .. n
    OBVIOUS
  <2> QED
    BY <2>2, <2>3
<1> DEFINE kind == message.kind
           val == message.val
<1>6. kind \in Kind /\ val \in Nat
  BY <1>2
<1> HIDE DEF tag, p, message, kind, val
<1>7. Put(smf_track_add_event_pulses(r, n, Event(kind, val, tag), p), r, n, tag)
  BY <1>2, <1>4, <1>5, <1>6, AddedSound DEF Read
<1>8. Put(q, r, n, tag)
  BY <1>7 DEF kind, val
<1> HIDE DEF q
<1>9. Len(q.tracks) = Len(r.tracks)
  BY <1>8, SameCount DEF Read, Put, Changed, Sound
<1> QED
  BY <1>3, <1>8, <1>9 DEF Read, Put, Changed

LEMMA LoadTrackSound ==
    ASSUME InitialTempo \in Nat \ {0}, NEW ppqn, NEW m \in Nat, NEW s, Read(s, m, ppqn), NEW file, NEW t,
           file[t] \in Seq(Nat \X [kind : Kind, val : Nat])
    PROVE  Read(LoadTrack(s, file, t), m + 1, ppqn)
<1> DEFINE tr == file[t]
           n == Len(tr)
           first == smf_add_track(s, smf_track_new)
           h == CHOOSE g : LoadingEvents(g, tr, first, n)
           Good(r) == Read(r, m + 1, ppqn)
           S == {k \in 0 .. n : Good(h[k])}
<1>1. n \in Nat /\ tr \in Seq(Nat \X [kind : Kind, val : Nat]) /\ n = Len(tr)
  OBVIOUS
<1>2. LoadTrack(s, file, t) = h[n]
  BY DEF LoadTrack, LoadingEvents
<1>3. Good(first)
  BY AddTrackSound DEF Read
<1> HIDE DEF tr, n, first
<1>4. h = [k \in 0 .. n |-> IF k = 0 THEN first ELSE LoadEvent(h[k - 1], tr, k)]
  <2>1. LoadingEvents(h, tr, first, n)
    BY <1>1, EventsIterated
  <2> HIDE DEF h
  <2> QED
    BY <2>1 DEF LoadingEvents
<1>5. \A r, i : Good(r) /\ i \in 1 .. n => Good(LoadEvent(r, tr, i))
  BY <1>1, LoadEventSound
<1> HIDE DEF h, Good
<1>6. 0 \in S
  BY <1>1, <1>3, <1>4
<1>7. ASSUME NEW k \in S, k < n
      PROVE  k + 1 \in S
  <2>1. h[k + 1] = LoadEvent(h[k], tr, k + 1) /\ k + 1 \in 0 .. n /\ k + 1 \in 1 .. n
    BY <1>1, <1>4, <1>7
  <2> QED
    BY <1>5, <2>1
<1>8. S = 0 .. n
  <2> HIDE DEF S
  <2>1. S \in SUBSET (0 .. n)
    BY DEF S
  <2> QED
    BY <1>1, <1>6, <1>7, <2>1, Induction
<1>9. Good(h[n])
  <2>1. n \in S
    BY <1>1, <1>8
  <2> QED
    BY <2>1
<1> QED
  BY <1>2, <1>9 DEF Good

LEMMA LoadSound ==
    ASSUME InitialTempo \in Nat \ {0}, InitialPpqn \in Nat \ {0},
           NEW file \in Seq(Seq(Nat \X [kind : Kind, val : Nat])),
           NEW format, NEW ppqn \in Nat \ {0}
    PROVE  Read(smf_load(file, format, ppqn), Len(file), ppqn)
<1> DEFINE n == Len(file)
           new == smf_new
           first == [new EXCEPT !.format = format, !.ppqn = ppqn]
           h == CHOOSE g : LoadingTracks(g, file, first, n)
           Good(r, k) == Read(r, k, ppqn)
           S == {k \in 0 .. n : Good(h[k], k)}
<1>1. n \in Nat /\ \A t \in 1 .. n : file[t] \in Seq(Nat \X [kind : Kind, val : Nat])
  OBVIOUS
<1>2. smf_load(file, format, ppqn) = smf_rewind(h[n]) /\ n = Len(file)
  BY DEF smf_load, LoadingTracks
<1>3. Good(first, 0)
  <2>1. Sound(new) /\ Len(new.tracks) = 0 /\ new.failed = ""
    BY NewSound
  <2>2. Fits(first)
    BY HeaderRead
  <2> HIDE DEF new
  <2>3. /\ first.tracks = new.tracks /\ first.tempos = new.tempos /\ first.failed = new.failed
        /\ first.ppqn = ppqn
    BY <2>1 DEF Sound, Fits, Songlike, SongFields
  <2> HIDE DEF first
  <2>4. Sound(first)
    BY <2>1, <2>2, <2>3, HeldSound
  <2> QED
    BY <2>1, <2>3, <2>4 DEF Read
<1> HIDE DEF n, first
<1>4. h = [k \in 0 .. n |-> IF k = 0 THEN first ELSE LoadTrack(h[k - 1], file, k)]
  <2>1. LoadingTracks(h, file, first, n)
    BY <1>1, TracksIterated
  <2> HIDE DEF h
  <2> QED
    BY <2>1 DEF LoadingTracks
<1>5. \A r : \A k \in Nat : k + 1 \in 1 .. n /\ Good(r, k) => Good(LoadTrack(r, file, k + 1), k + 1)
  BY <1>1, LoadTrackSound
<1> HIDE DEF h, Good
<1>6. 0 \in S
  BY <1>1, <1>3, <1>4
<1>7. ASSUME NEW k \in S, k < n
      PROVE  k + 1 \in S
  <2>1. h[k + 1] = LoadTrack(h[k], file, k + 1) /\ k + 1 \in 0 .. n /\ k + 1 \in 1 .. n /\ k \in Nat
    BY <1>1, <1>4, <1>7
  <2> QED
    BY <1>5, <2>1
<1>8. S = 0 .. n
  <2> HIDE DEF S
  <2>1. S \in SUBSET (0 .. n)
    BY DEF S
  <2> QED
    BY <1>1, <1>6, <1>7, <2>1, Induction
<1>9. Good(h[n], n)
  <2>1. n \in S
    BY <1>1, <1>8
  <2> QED
    BY <2>1
<1> DEFINE q == h[n]
           r == smf_rewind(q)
<1>10. Sound(q) /\ Len(q.tracks) = n /\ q.ppqn = ppqn /\ q.failed \in {"", "tempo"}
  BY <1>9 DEF Good, Read
<1> HIDE DEF q
<1>11. Sound(r) /\ r.failed = q.failed /\ r.ppqn = q.ppqn /\ DOMAIN r.tracks = DOMAIN q.tracks
  BY <1>10, RewindSound
<1> HIDE DEF r
<1>12. Len(r.tracks) = Len(q.tracks)
  BY <1>10, <1>11, SameCount DEF Sound
<1>13. Read(r, n, ppqn)
  BY <1>10, <1>11, <1>12 DEF Read
<1> QED
  BY <1>2, <1>13 DEF r, q

-----------------------------------------------------------------------------
(* The selection.                                                           *)

\* What the shell's song is at any time.
SongHeld(s) ==
    /\ Sound(s)
    /\ s.failed \in {"", "tempo", "format", "text", "message", "identical"}
    /\ s.ppqn \in Ppqns \cup {InitialPpqn} /\ Len(s.tracks) <= MaxTracks

\* What is selected: a track of the song, and an event that is in that track if
\* it is in one.
EventHeld(s, track, event) ==
    /\ track \in {NoTrack} \cup DOMAIN s.tracks
    /\ {"tag", "is"} \subseteq DOMAIN event
    /\ event.is \in {"none", "track", "detached"}
    /\ event.is = "track" => track # NoTrack /\ event.tag \in TagsIn(s, track)

SelInv == SongHeld(smf) /\ EventHeld(smf, selected_track, selected_event)

LEMMA SelShell ==
    ASSUME SelInv
    PROVE  ShellInv /\ Sound(smf) /\ Fits(smf) /\ Songlike(smf) /\ Named(smf)
BY DEF SelInv, SongHeld, EventHeld, ShellInv, Sound, Fits

LEMMA SelectsHeld ==
    ASSUME NEW s, NEW track, NEW event, Selects(s, track, event),
           SongHeld(s), EventHeld(s, track, event)
    PROVE  SelInv'
BY DEF Selects, SelInv

LEMMA NothingHeld ==
    ASSUME NEW s, NEW track \in {NoTrack} \cup DOMAIN s.tracks
    PROVE  EventHeld(s, track, NoEvent)
BY DEF EventHeld, NoEvent

\* An event stays selected that is still in the track it was in, or gave way to
\* an end of track; none has been freed.
LEMMA FollowHeld ==
    ASSUME SelInv, NEW s, NEW track \in {NoTrack} \cup DOMAIN s.tracks, NEW freed,
           selected_event.is = "track" =>
              /\ selected_event.tag \in Tags(s) \/ selected_event.tag \notin freed
              /\ selected_event.tag \in Tags(s) =>
                    track # NoTrack /\ selected_event.tag \in TagsIn(s, track)
    PROVE  EventHeld(s, track, Follow(s, freed))
<1> DEFINE e == selected_event
           f == Follow(s, freed)
<1>1. {"tag", "is"} \subseteq DOMAIN e /\ e.is \in {"none", "track", "detached"}
  BY DEF SelInv, EventHeld
<1>2. CASE e.tag \in Tags(s) \/ e.is = "none"
  <2>1. f = e
    BY <1>2 DEF Follow
  <2>2. e.is = "track" => e.tag \in Tags(s)
    BY <1>2
  <2>3. e.is = "track" => track # NoTrack /\ e.tag \in TagsIn(s, track)
    BY <2>2
  <2>4. EventHeld(s, track, e)
    BY <1>1, <2>3 DEF EventHeld
  <2> QED
    BY <2>1, <2>4
<1>3. CASE ~(e.tag \in Tags(s) \/ e.is = "none")
  <2>1. ~(e.is = "track" /\ e.tag \in freed) /\ e.is # "freed"
    BY <1>1, <1>3
  <2>2. f = [e EXCEPT !.is = "detached"]
    BY <1>3, <2>1 DEF Follow
  <2>3. f.is = "detached" /\ DOMAIN f = DOMAIN e
    BY <1>1, <2>2
  <2> HIDE DEF f, e
  <2>4. EventHeld(s, track, f)
    BY <1>1, <2>3 DEF EventHeld
  <2> QED
    BY <2>4 DEF f
<1> QED
  BY <1>2, <1>3

\* The tracks are where they were, with none but new events.
LEMMA StaysHeld ==
    ASSUME SelInv, NEW s, DOMAIN s.tracks = DOMAIN smf.tracks,
           NEW new, selected_event.tag \notin new,
           \A u \in DOMAIN smf.tracks : TagsIn(s, u) \subseteq TagsIn(smf, u) \cup new,
           NEW freed, selected_event.is = "track" => selected_event.tag \notin freed
    PROVE  EventHeld(s, selected_track, Follow(s, freed))
<1>1. selected_track \in {NoTrack} \cup DOMAIN s.tracks
  BY DEF SelInv, EventHeld
<1>2. ASSUME selected_event.is = "track", selected_event.tag \in Tags(s)
      PROVE  selected_track # NoTrack /\ selected_event.tag \in TagsIn(s, selected_track)
  <2>1. /\ selected_track # NoTrack /\ selected_track \in DOMAIN smf.tracks
        /\ selected_event.tag \in TagsIn(smf, selected_track)
    BY <1>1, <1>2 DEF SelInv, EventHeld
  <2>2. PICK u \in DOMAIN smf.tracks : selected_event.tag \in TagsIn(s, u)
    BY <1>2, TagsAre DEF TagsIn
  <2>3. selected_event.tag \in TagsIn(smf, u)
    BY <2>2
  <2>4. u = selected_track
    BY <2>1, <2>3, SelShell DEF Named, TagsIn
  <2> QED
    BY <2>1, <2>2, <2>4
<1> QED
  BY <1>1, <1>2, FollowHeld

\* The very same events: nothing happens to the one that is selected.
LEMMA SameHeld ==
    ASSUME SelInv, NEW s, DOMAIN s.tracks = DOMAIN smf.tracks,
           \A u \in DOMAIN smf.tracks : TagsIn(s, u) = TagsIn(smf, u)
    PROVE  EventHeld(s, selected_track, selected_event)
BY DEF SelInv, EventHeld, NoTrack

\* The number of the selected event is its place.
LEMMA SelectedNumber ==
    ASSUME SelInv, selected_event.is = "track"
    PROVE  /\ selected_track \in DOMAIN smf.tracks
           /\ event_number \in DOMAIN smf.tracks[selected_track].events
           /\ smf.tracks[selected_track].events[event_number].tag = selected_event.tag
<1> DEFINE es == smf.tracks[selected_track].events
           e == Place_of(smf, selected_event.tag)
<1>1. selected_track \in DOMAIN smf.tracks /\ selected_event.tag \in TagsIn(smf, selected_track)
  BY DEF SelInv, EventHeld
<1>2. PICK i \in DOMAIN es : es[i].tag = selected_event.tag
  BY <1>1 DEF TagsIn, TagSet
<1>3. << selected_track, i >> \in EventsIn(smf) /\ EventAt(smf, << selected_track, i >>).tag = selected_event.tag
  BY <1>1, <1>2 DEF EventsIn, EventAt
<1>4. e \in EventsIn(smf) /\ EventAt(smf, e).tag = selected_event.tag
  BY <1>3 DEF Place_of
<1> HIDE DEF e
<1>5. PICK u \in DOMAIN smf.tracks : \E j \in DOMAIN smf.tracks[u].events : e = << u, j >>
  BY <1>4 DEF EventsIn
<1>6. PICK j \in DOMAIN smf.tracks[u].events : e = << u, j >>
  BY <1>5
<1>7. smf.tracks[u].events[j].tag = selected_event.tag
  BY <1>4, <1>6 DEF EventAt
<1>8. u = selected_track
  <2>1. selected_event.tag \in TagsIn(smf, u)
    BY <1>6, <1>7 DEF TagsIn, TagSet
  <2> QED
    BY <1>1, <2>1, SelShell DEF Named, TagsIn
<1>9. es[j].number = j
  BY <1>1, <1>6, <1>8, SelShell DEF Sound, Steady, Orderly, InOrder
<1>10. event_number = EventAt(smf, e).number
  BY DEF event_number, e
<1>11. event_number = j
  BY <1>6, <1>8, <1>9, <1>10 DEF EventAt
<1> QED
  BY <1>1, <1>6, <1>7, <1>8, <1>11

LEMMA SelectionHeld ==
    ASSUME SelInv
    PROVE  SelectionHolds
<1>1. TypeOK
  <2>1. ASSUME NEW e \in EventsIn(smf) PROVE EventAt(smf, e).kind \in Kind
    BY SelShell DEF EventsIn, EventAt, Named, Kinds
  <2> QED
    BY <2>1 DEF TypeOK, SelInv, SongHeld, EventHeld
<1>2. ASSUME selected_event.is = "track"
      PROVE  \E i \in DOMAIN smf.tracks[selected_track].events :
                /\ smf.tracks[selected_track].events[i].tag = selected_event.tag
                /\ smf.tracks[selected_track].events[i].number = i
  <2>1. /\ selected_track \in DOMAIN smf.tracks
        /\ event_number \in DOMAIN smf.tracks[selected_track].events
        /\ smf.tracks[selected_track].events[event_number].tag = selected_event.tag
    BY <1>2, SelectedNumber
  <2>2. smf.tracks[selected_track].events[event_number].number = event_number
    BY <2>1, SelShell DEF Sound, Steady, Orderly, InOrder
  <2> QED
    BY <2>1, <2>2
<1>3. selected_event.is # "freed"
  BY DEF SelInv, EventHeld
<1> QED
  BY <1>1, <1>2, <1>3 DEF SelectionHolds

-----------------------------------------------------------------------------
(* The commands again.                                                      *)

LEMMA LoadedHeld ==
    ASSUME NEW file \in Files, NEW format, NEW ppqn \in Ppqns \cup {InitialPpqn}
    PROVE  LET s == smf_load(file, format, ppqn)
               track == IF file = << >> THEN NoTrack ELSE 1
           IN  SongHeld(s) /\ EventHeld(s, track, NoEvent)
<1> DEFINE s == smf_load(file, format, ppqn)
           track == IF file = << >> THEN NoTrack ELSE 1
<1>1. /\ file \in Seq(Seq(Nat \X [kind : Kind, val : Nat])) /\ ppqn \in Nat \ {0}
      /\ Len(file) <= MaxTracks /\ InitialTempo \in Nat \ {0} /\ InitialPpqn \in Nat \ {0}
  BY SmfshAssumption
<1>2. Read(s, Len(file), ppqn)
  BY <1>1, LoadSound
<1>3. track \in {NoTrack} \cup DOMAIN s.tracks
  BY Loaded
<1> HIDE DEF s, track
<1>4. SongHeld(s)
  BY <1>1, <1>2 DEF SongHeld, Read
<1> QED
  BY <1>3, <1>4, NothingHeld DEF s, track

LEMMA RoomForOne ==
    0 <= MaxTracks /\ 1 <= MaxTracks
<1>1. MaxTracks \in Nat \ {0}
  BY SmfshAssumption
<1> QED
  BY <1>1

LEMMA NewHeld ==
    SongHeld(smf_new) /\ EventHeld(smf_new, NoTrack, NoEvent)
<1> DEFINE s == smf_new
<1>1. Sound(s) /\ Len(s.tracks) = 0 /\ s.failed = "" /\ s.ppqn = InitialPpqn
  BY SmfshAssumption, NewSound
<1> HIDE DEF s
<1>2. SongHeld(s)
  <2>1. Len(s.tracks) <= MaxTracks
    BY <1>1, RoomForOne
  <2> QED
    BY <1>1, <2>1 DEF SongHeld
<1> QED
  BY <1>2, NothingHeld DEF s

LEMMA StartSel == Init => SelInv
<1> SUFFICES ASSUME Init PROVE SelInv
  OBVIOUS
<1>1. selected_event = NoEvent
  BY DEF Init
<1>2. CASE smf = smf_add_track(smf_new, smf_track_new) /\ selected_track = 1
  <2> DEFINE r == smf_new
             s == smf_add_track(r, smf_track_new)
  <2>1. Sound(r) /\ Len(r.tracks) = 0 /\ r.failed = "" /\ r.ppqn = InitialPpqn
    BY SmfshAssumption, NewSound
  <2> HIDE DEF r
  <2>2. Sound(s) /\ s.failed = "" /\ s.ppqn = InitialPpqn /\ Len(s.tracks) = 1
    <3>1. /\ Sound(s) /\ s.failed = r.failed /\ s.ppqn = r.ppqn
          /\ Len(s.tracks) = Len(r.tracks) + 1
      BY <2>1, AddTrackSound
    <3>2. Len(s.tracks) = 0 + 1
      BY <2>1, <3>1
    <3>3. 0 + 1 = 1
      OBVIOUS
    <3> HIDE DEF s
    <3> QED
      BY <2>1, <3>1, <3>2, <3>3
  <2> HIDE DEF s
  <2>3. SongHeld(s)
    <3>1. Len(s.tracks) <= MaxTracks
      BY <2>2, RoomForOne
    <3> QED
      BY <2>2, <3>1 DEF SongHeld
  <2>4. DOMAIN s.tracks = 1 .. 1
    BY <2>2, Places DEF Sound
  <2>5. EventHeld(s, 1, NoEvent)
    BY <2>4, NothingHeld
  <2> QED
    BY <1>1, <1>2, <2>3, <2>5 DEF SelInv, s, r
<1>3. CASE \E file \in Files, h \in Headers :
              /\ smf = smf_load(file, h[1], h[2])
              /\ selected_track = IF file = << >> THEN NoTrack ELSE 1
  <2>1. PICK file \in Files, h \in Headers :
              /\ smf = smf_load(file, h[1], h[2])
              /\ selected_track = IF file = << >> THEN NoTrack ELSE 1
    BY <1>3
  <2>2. h[2] \in Ppqns \cup {InitialPpqn}
    BY DEF Headers
  <2> QED
    BY <1>1, <2>1, <2>2, LoadedHeld DEF SelInv
<1>4. CASE smf = smf_new /\ selected_track = NoTrack
  BY <1>1, <1>4, NewHeld DEF SelInv
<1> QED
  BY <1>2, <1>3, <1>4 DEF Init

LEMMA LoadSel ==
    ASSUME SelInv, cmd_load
    PROVE  SelInv'
<1>1. smf_delete(smf).failed = ""
  <2>1. smf_delete(smf).failed = smf.failed
    BY SelShell, DeleteSteady DEF Sound
  <2> QED
    BY <2>1 DEF cmd_load, Running
<1>2. CASE \E file \in Files, h \in Headers :
              Selects(smf_load(file, h[1], h[2]), IF file = << >> THEN NoTrack ELSE 1, NoEvent)
  <2>1. PICK file \in Files, h \in Headers :
              Selects(smf_load(file, h[1], h[2]), IF file = << >> THEN NoTrack ELSE 1, NoEvent)
    BY <1>2
  <2>2. h[2] \in Ppqns \cup {InitialPpqn}
    BY DEF Headers
  <2> QED
    BY <2>1, <2>2, LoadedHeld, SelectsHeld
<1>3. CASE Selects(smf_new, NoTrack, NoEvent)
  BY <1>3, NewHeld, SelectsHeld
<1> QED
  BY <1>1, <1>2, <1>3 DEF cmd_load

LEMMA SaveSel ==
    ASSUME SelInv, cmd_save
    PROVE  SelInv'
<1> DEFINE tag == [t \in DOMAIN smf.tracks |-> Fresh(t)]
           r == smf_rewind(smf)
           valid == smf_validate(r, {}, tag)
           q == valid.song
           s == IF valid.ok THEN WrittenOut(q) ELSE q
           new == {tag[u] : u \in DOMAIN smf.tracks}
<1>1. /\ Sound(r) /\ r.failed = smf.failed /\ r.ppqn = smf.ppqn /\ DOMAIN r.tracks = DOMAIN smf.tracks
      /\ \A t \in DOMAIN smf.tracks : TagsIn(r, t) = TagsIn(smf, t)
  BY SelShell, RewindSound
<1>2. /\ \A u \in DOMAIN smf.tracks : tag[u] \notin Tags(smf) /\ tag[u] # selected_event.tag
      /\ \A u, v \in DOMAIN smf.tracks : u # v => tag[u] # tag[v]
  <2>1. \A u \in DOMAIN smf.tracks : u \in Nat \ {0}
    BY SelShell, Places
  <2> QED
    BY <2>1, SelShell, FreshTags
<1>3. \/ Selects(s, selected_track, Follow(s, {}))
      \/ Selects(Abort(s, "identical"), selected_track, Follow(s, {}))
  BY DEF cmd_save
<1> HIDE DEF tag, r
<1>4. Spare(r, tag)
  <2>1. \A x \in Tags(r) : x \in Tags(smf)
    BY <1>1, TagsAre DEF TagsIn
  <2> QED
    BY <1>1, <1>2, <2>1 DEF Spare
<1>5. PICK done \in SUBSET DOMAIN smf.tracks :
         /\ Validated(q, r, tag, done)
         /\ valid.ok => done = DOMAIN smf.tracks
  <2>1. InitialTempo \in Nat \ {0}
    BY SmfshAssumption
  <2> QED
    BY <1>1, <1>4, <2>1, ValidSound
<1> DEFINE ok == valid.ok
<1>6. ok => done = DOMAIN smf.tracks
  BY <1>5
<1> HIDE DEF q, ok, valid
<1>7. /\ Sound(s) /\ s.failed = q.failed /\ s.ppqn = q.ppqn /\ DOMAIN s.tracks = DOMAIN q.tracks
      /\ \A t \in DOMAIN q.tracks : TagsIn(s, t) = TagsIn(q, t)
  <2>1. CASE ok
    <3>1. q.failed = "" => \A t \in DOMAIN q.tracks : q.tracks[t].events # << >>
      <4>1. ASSUME q.failed = "", NEW t \in DOMAIN q.tracks PROVE q.tracks[t].events # << >>
        <5>1. TagsIn(q, t) # {}
          BY <1>1, <1>5, <1>6, <2>1, <4>1 DEF Validated
        <5>2. DOMAIN << >> = {}
          BY NewTrack_Empty
        <5> QED
          BY <5>1, <5>2 DEF TagsIn, TagSet
      <4> QED
        BY <4>1
    <3>2. Sound(q)
      BY <1>5 DEF Validated
    <3> QED
      BY <2>1, <3>1, <3>2, WrittenOutSound DEF ok
  <2>2. CASE ~ok
    BY <1>5, <2>2 DEF ok, Validated
  <2> QED
    BY <2>1, <2>2
<1> HIDE DEF s
<1>8. /\ Sound(s) /\ s.ppqn = smf.ppqn /\ DOMAIN s.tracks = DOMAIN smf.tracks
      /\ s.failed = smf.failed \/ s.failed = "tempo"
      /\ \A u \in DOMAIN smf.tracks : TagsIn(s, u) \subseteq TagsIn(smf, u) \cup new
  BY <1>1, <1>5, <1>7 DEF Validated
<1>9. Len(s.tracks) = Len(smf.tracks)
  BY <1>8, SelShell, SameCount DEF Sound
<1>10. SongHeld(s)
  BY <1>8, <1>9 DEF SelInv, SongHeld
<1>11. EventHeld(s, selected_track, Follow(s, {}))
  <2>1. selected_event.tag \notin new
    BY <1>2
  <2> HIDE DEF new
  <2> QED
    BY <1>8, <2>1, StaysHeld
<1>12. CASE Selects(s, selected_track, Follow(s, {}))
  BY <1>10, <1>11, <1>12, SelectsHeld
<1>13. CASE Selects(Abort(s, "identical"), selected_track, Follow(s, {}))
  <2> DEFINE b == Abort(s, "identical")
             e == Follow(s, {})
  <2>1. Sound(b) /\ b.tracks = s.tracks /\ b.ppqn = s.ppqn /\ b.failed = IF s.failed = "" THEN "identical" ELSE s.failed
    BY <1>8, AbortSound
  <2>2. EventHeld(s, selected_track, e) /\ Selects(b, selected_track, e)
    BY <1>11, <1>13
  <2> HIDE DEF b, e
  <2>3. SongHeld(b) /\ EventHeld(b, selected_track, e)
    BY <1>10, <2>1, <2>2 DEF SongHeld, EventHeld, TagsIn
  <2> QED
    BY <2>2, <2>3, SelectsHeld
<1> QED
  BY <1>3, <1>12, <1>13

LEMMA HeaderSel ==
    ASSUME SelInv, (\E n \in Ppqns : cmd_ppqn(n)) \/ (\E n \in Formats : cmd_format(n))
    PROVE  SelInv'
<1>1. ASSUME NEW n \in Ppqns, cmd_ppqn(n) PROVE SelInv'
  <2> DEFINE r == smf_set_ppqn(smf, n)
  <2>1. Sound(r) /\ r.tracks = smf.tracks /\ r.failed = smf.failed /\ r.ppqn = n
    BY SmfshAssumption, SelShell, HeaderSound
  <2>2. Selects(r, selected_track, selected_event)
    BY <1>1 DEF cmd_ppqn
  <2> HIDE DEF r
  <2>3. SongHeld(r) /\ EventHeld(r, selected_track, selected_event)
    BY <2>1 DEF SelInv, SongHeld, EventHeld, TagsIn
  <2> QED
    BY <2>2, <2>3, SelectsHeld
<1>2. ASSUME NEW n \in Formats, cmd_format(n) PROVE SelInv'
  <2> DEFINE r == smf_set_format(smf, n)
  <2>1. /\ Sound(r) /\ r.tracks = smf.tracks /\ r.ppqn = smf.ppqn
        /\ r.failed \in {smf.failed, "format"}
    BY SelShell, HeaderSound
  <2>2. Selects(r, selected_track, selected_event)
    BY <1>2 DEF cmd_format
  <2> HIDE DEF r
  <2>3. SongHeld(r) /\ EventHeld(r, selected_track, selected_event)
    BY <2>1 DEF SelInv, SongHeld, EventHeld, TagsIn
  <2> QED
    BY <2>2, <2>3, SelectsHeld
<1> QED
  BY <1>1, <1>2

LEMMA TrackSel ==
    ASSUME SelInv, NEW arg, cmd_track(arg)
    PROVE  SelInv'
<1> DEFINE num == parse_track_number(arg)
<1>1. num \in DOMAIN smf.tracks /\ Selects(smf, num, NoEvent)
  BY SelShell, ParsedTrack DEF cmd_track
<1> HIDE DEF num
<1>2. EventHeld(smf, num, NoEvent)
  BY <1>1, NothingHeld
<1> QED
  BY <1>1, <1>2, SelectsHeld DEF SelInv

LEMMA TrackAddSel ==
    ASSUME SelInv, cmd_trackadd
    PROVE  SelInv'
<1> DEFINE r == smf_add_track(smf, smf_track_new)
           n == Len(smf.tracks)
<1>1. /\ Sound(r) /\ r.failed = smf.failed /\ r.ppqn = smf.ppqn
      /\ Len(r.tracks) = n + 1
  BY SelShell, AddTrackSound
<1>2. n \in Nat /\ n < MaxTracks /\ MaxTracks \in Nat /\ Selects(r, n + 1, NoEvent)
  BY SelShell, Places, SmfshAssumption DEF cmd_trackadd
<1> HIDE DEF r, n
<1>3. DOMAIN r.tracks = 1 .. n + 1
  BY <1>1, Places DEF Sound
<1>4. n + 1 <= MaxTracks /\ n + 1 \in 1 .. n + 1
  BY <1>2
<1>5. Len(r.tracks) <= MaxTracks
  BY <1>1, <1>4
<1>6. SongHeld(r)
  BY <1>1, <1>5 DEF SelInv, SongHeld
<1>7. EventHeld(r, n + 1, NoEvent)
  BY <1>3, <1>4, NothingHeld
<1> QED
  BY <1>2, <1>6, <1>7, SelectsHeld

LEMMA TrackRemoveSel ==
    ASSUME SelInv, NEW arg, cmd_trackrm(arg)
    PROVE  SelInv'
<1> DEFINE num == parse_track_number(arg)
           s == smf_track_delete(smf, num)
           n == Len(smf.tracks)
           moved == IF num < selected_track THEN selected_track - 1 ELSE selected_track
           freed == Tags(smf) \ Tags(s)
<1>1. num \in DOMAIN smf.tracks
  BY SelShell, ParsedTrack DEF cmd_trackrm
<1>2. \/ Selects(s, NoTrack, NoEvent)
      \/ /\ selected_track = NoTrack \/ num # smf.tracks[selected_track].number
         /\ Selects(s, moved, Follow(s, freed))
  BY DEF cmd_trackrm
<1>3. n \in Nat /\ DOMAIN smf.tracks = 1 .. n
  BY SelShell, Places
<1> HIDE DEF num
<1>4. /\ Sound(s) /\ s.failed = smf.failed /\ s.ppqn = smf.ppqn
      /\ \A u \in DOMAIN s.tracks :
            Was(u, num) \in DOMAIN smf.tracks /\ TagsIn(s, u) = TagsIn(smf, Was(u, num))
  BY <1>1, SelShell, SmfshAssumption, TrackDeleteSound
<1>5. Fits(s) /\ Len(s.tracks) = n - 1
  BY <1>1, SelShell, TrackDeleteFits
<1> HIDE DEF s, n
<1>6. DOMAIN s.tracks = 1 .. n - 1
  BY <1>5, Places
<1>7. SongHeld(s)
  <2>1. n <= MaxTracks /\ MaxTracks \in Nat
    BY SmfshAssumption DEF SelInv, SongHeld, n
  <2>2. n - 1 <= MaxTracks
    BY <1>3, <2>1
  <2>3. Len(s.tracks) <= MaxTracks
    BY <1>5, <2>2
  <2> QED
    BY <1>4, <2>3 DEF SelInv, SongHeld
<1>8. CASE Selects(s, NoTrack, NoEvent)
  BY <1>7, <1>8, NothingHeld, SelectsHeld
<1>9. CASE selected_track = NoTrack /\ Selects(s, moved, Follow(s, freed))
  <2>1. moved = NoTrack
    BY <1>1, <1>3, <1>9 DEF NoTrack
  <2>2. selected_event.is # "track"
    BY <1>9 DEF SelInv, EventHeld
  <2>3. EventHeld(s, NoTrack, Follow(s, freed))
    BY <2>2, FollowHeld
  <2> QED
    BY <1>7, <1>9, <2>1, <2>3, SelectsHeld
<1>10. CASE /\ selected_track # NoTrack /\ num # smf.tracks[selected_track].number
            /\ Selects(s, moved, Follow(s, freed))
  <2>1. selected_track \in 1 .. n /\ num # selected_track
    BY <1>3, <1>10, SelShell DEF ShellInv, Fits
  <2>2. moved \in 1 .. n - 1 /\ Was(moved, num) = selected_track
    BY <1>1, <1>3, <2>1 DEF Was
  <2> HIDE DEF moved
  <2>3. TagsIn(s, moved) = TagsIn(smf, selected_track)
    BY <1>4, <1>6, <2>2
  <2>4. moved # NoTrack
    BY <2>2 DEF NoTrack
  <2>5. selected_event.is = "track" => selected_event.tag \in TagsIn(s, moved)
    BY <2>3 DEF SelInv, EventHeld
  <2>6. TagsIn(s, moved) \subseteq Tags(s)
    BY <1>6, <2>2, TagsAre DEF TagsIn
  <2>7. moved \in {NoTrack} \cup DOMAIN s.tracks
    BY <1>6, <2>2
  <2> HIDE DEF freed
  <2>8. EventHeld(s, moved, Follow(s, freed))
    BY <2>4, <2>5, <2>6, <2>7, FollowHeld
  <2> QED
    BY <1>7, <1>10, <2>8, SelectsHeld
<1> QED
  BY <1>2, <1>8, <1>9, <1>10

LEMMA EventsSel ==
    ASSUME SelInv, cmd_events
    PROVE  SelInv'
<1> DEFINE r == smf_rewind(smf)
<1>1. /\ Sound(r) /\ r.failed = smf.failed /\ r.ppqn = smf.ppqn /\ DOMAIN r.tracks = DOMAIN smf.tracks
      /\ \A t \in DOMAIN smf.tracks : TagsIn(r, t) = TagsIn(smf, t)
  BY SelShell, RewindSound
<1>2. Selects(r, selected_track, selected_event)
  BY DEF cmd_events
<1> HIDE DEF r
<1>3. Len(r.tracks) = Len(smf.tracks)
  BY <1>1, SelShell, SameCount DEF Sound
<1>4. SongHeld(r)
  BY <1>1, <1>3 DEF SelInv, SongHeld
<1> QED
  BY <1>1, <1>2, <1>4, SameHeld, SelectsHeld

\* The number an argument means is one that the selected track has; left out, it
\* is that of the selected event.
LEMMA ParsedEvent ==
    ASSUME SelInv, NEW arg, parse_event_number(arg) # -1
    PROVE  /\ selected_track \in DOMAIN smf.tracks
           /\ parse_event_number(arg) \in DOMAIN smf.tracks[selected_track].events
<1> DEFINE places == DOMAIN smf.tracks[selected_track].events
<1>1. selected_track \in DOMAIN smf.tracks
  BY DEF SelInv, EventHeld, parse_event_number
<1>2. None \notin places
  <2>1. places = 1 .. Len(smf.tracks[selected_track].events)
    BY <1>1, SelShell, SequenceFacts DEF Songlike, Tracklike
  <2> QED
    BY <2>1 DEF None
<1>3. selected_track # NoTrack
  BY DEF parse_event_number
<1> HIDE DEF places
<1>4. CASE arg = None
  <2>1. parse_event_number(arg) \in {-1, event_number}
    BY <1>2, <1>3, <1>4 DEF parse_event_number, places
  <2>2. parse_event_number(arg) = event_number /\ event_number # -1
    BY <2>1
  <2>3. selected_event.is = "track"
    BY <2>2 DEF event_number
  <2> QED
    BY <2>2, <2>3, SelectedNumber
<1>5. CASE arg # None
  <2>1. parse_event_number(arg) \in {-1} \cup places
    BY <1>3, <1>5 DEF parse_event_number, places
  <2> QED
    BY <1>1, <2>1 DEF places
<1> QED
  BY <1>4, <1>5

LEMMA EventSel ==
    ASSUME SelInv, NEW arg, cmd_event(arg)
    PROVE  SelInv'
<1> DEFINE num == parse_event_number(arg)
           e == [tag |-> smf.tracks[selected_track].events[num].tag, is |-> "track"]
<1>1. /\ selected_track \in DOMAIN smf.tracks /\ num \in DOMAIN smf.tracks[selected_track].events
      /\ Selects(smf, selected_track, e)
  BY ParsedEvent DEF cmd_event
<1>2. selected_track # NoTrack
  <2>1. selected_track \in 1 .. Len(smf.tracks)
    BY <1>1, SelShell, Places
  <2> QED
    BY <2>1 DEF NoTrack
<1> HIDE DEF num
<1>3. e.tag \in TagsIn(smf, selected_track) /\ e.is = "track" /\ {"tag", "is"} \subseteq DOMAIN e
  BY <1>1 DEF TagsIn, TagSet
<1> HIDE DEF e
<1>4. EventHeld(smf, selected_track, e)
  BY <1>1, <1>2, <1>3 DEF EventHeld
<1> QED
  BY <1>1, <1>4, SelectsHeld DEF SelInv

LEMMA PutHeld ==
    ASSUME SelInv, NEW t, NEW tag, NEW s, Put(s, smf, t, tag)
    PROVE  SongHeld(s) /\ DOMAIN s.tracks = DOMAIN smf.tracks
<1>1. /\ Sound(s) /\ s.ppqn = smf.ppqn /\ DOMAIN s.tracks = DOMAIN smf.tracks
      /\ s.failed = smf.failed \/ s.failed = "tempo"
  BY DEF Put, Changed
<1>2. Len(s.tracks) = Len(smf.tracks)
  BY <1>1, SelShell, SameCount DEF Sound
<1> QED
  BY <1>1, <1>2 DEF SelInv, SongHeld

LEMMA AddSel ==
    ASSUME SelInv, selected_track # NoTrack, NEW kind \in Kind, NEW val \in Nat, NEW x \in Int,
           AddSelected(Event(kind, val, Fresh(1)), x)
    PROVE  SelInv'
<1> DEFINE tag == Fresh(1)
           ev == Event(kind, val, tag)
           s == smf_track_add_event_seconds(smf, selected_track, ev, x)
           e == [tag |-> ev.tag, is |-> IF s.failed = "" THEN "track" ELSE "detached"]
<1>1. selected_track \in DOMAIN smf.tracks
  BY DEF SelInv, EventHeld
<1>2. tag \notin Tags(smf)
  BY SelShell, FreshTags
<1>3. Selects(s, selected_track, e) /\ ev.tag = tag
  BY DEF AddSelected, Event
<1> HIDE DEF tag
<1>4. Put(s, smf, selected_track, tag) /\ (s.failed = "" => tag \in TagsIn(s, selected_track))
  BY <1>1, <1>2, SelShell, SmfshAssumption, AddedSound
<1> HIDE DEF ev, s
<1>5. SongHeld(s) /\ DOMAIN s.tracks = DOMAIN smf.tracks
  BY <1>4, PutHeld
<1>6. /\ e.tag = tag /\ {"tag", "is"} \subseteq DOMAIN e /\ e.is \in {"track", "detached"}
      /\ e.is = "track" => s.failed = ""
  BY <1>3
<1> HIDE DEF e
<1>7. EventHeld(s, selected_track, e)
  BY <1>1, <1>4, <1>5, <1>6 DEF EventHeld
<1> QED
  BY <1>3, <1>5, <1>7, SelectsHeld

\* A command that ends the program with a new event selected that is in no track.
LEMMA AbortSel ==
    ASSUME SelInv, NEW why \in {"text", "message"},
           Selects(Abort(smf, why), selected_track, [tag |-> Fresh(1), is |-> "detached"])
    PROVE  SelInv'
<1> DEFINE b == Abort(smf, why)
           tag == Fresh(1)
           e == [tag |-> tag, is |-> "detached"]
<1>1. Sound(b) /\ b.tracks = smf.tracks /\ b.ppqn = smf.ppqn /\ b.failed = IF smf.failed = "" THEN why ELSE smf.failed
  BY SelShell, AbortSound
<1>2. Selects(b, selected_track, e)
  OBVIOUS
<1> HIDE DEF b, tag
<1>3. e.is = "detached" /\ {"tag", "is"} \subseteq DOMAIN e
  OBVIOUS
<1> HIDE DEF e
<1>4. SongHeld(b) /\ EventHeld(b, selected_track, e)
  BY <1>1, <1>3 DEF SelInv, SongHeld, EventHeld
<1> QED
  BY <1>2, <1>4, SelectsHeld

LEMMA EventAddSel ==
    ASSUME SelInv, NEW m \in Messages, NEW x \in Seconds, cmd_eventadd(m, x)
    PROVE  SelInv'
<1>1. m.kind \in Kind /\ m.val \in Nat /\ x \in Int
  BY SmfshAssumption
<1>2. selected_track # NoTrack
  BY DEF cmd_eventadd
<1>3. CASE AddSelected(Event(m.kind, m.val, Fresh(1)), x)
  BY <1>1, <1>2, <1>3, AddSel
<1>4. CASE Selects(smf, selected_track, NoEvent)
  <2>1. EventHeld(smf, selected_track, NoEvent)
    BY NothingHeld DEF SelInv, EventHeld
  <2> QED
    BY <1>4, <2>1, SelectsHeld DEF SelInv
<1>5. CASE Selects(Abort(smf, "message"), selected_track, [tag |-> Fresh(1), is |-> "detached"])
  BY <1>5, AbortSel
<1> QED
  BY <1>3, <1>4, <1>5 DEF cmd_eventadd

LEMMA TextSel ==
    ASSUME SelInv, NEW x \in Seconds, cmd_text(x)
    PROVE  SelInv'
<1>1. "note" \in Kind /\ 0 \in Nat /\ x \in Int
  BY SmfshAssumption DEF Kind
<1>2. selected_track # NoTrack
  BY DEF cmd_text
<1>3. CASE AddSelected(Event("note", 0, Fresh(1)), x)
  BY <1>1, <1>2, <1>3, AddSel
<1>4. CASE Selects(Abort(smf, "text"), selected_track, [tag |-> Fresh(1), is |-> "detached"])
  BY <1>4, AbortSel
<1> QED
  BY <1>3, <1>4 DEF cmd_text

LEMMA EotSel ==
    ASSUME SelInv, NEW x \in Seconds, cmd_eventaddeot(x)
    PROVE  SelInv'
<1> DEFINE tag == Fresh(1)
           s == smf_track_add_eot_seconds(smf, selected_track, tag, x)
<1>1. selected_track \in DOMAIN smf.tracks
  BY DEF SelInv, EventHeld, cmd_eventaddeot
<1>2. tag \notin Tags(smf) /\ tag # selected_event.tag
  BY SelShell, FreshTags
<1>3. Selects(s, selected_track, Follow(s, {}))
  BY DEF cmd_eventaddeot
<1> HIDE DEF tag
<1>4. Put(s, smf, selected_track, tag)
  BY <1>1, <1>2, SelShell, SmfshAssumption, EotSound
<1> HIDE DEF s
<1>5. SongHeld(s) /\ DOMAIN s.tracks = DOMAIN smf.tracks
  BY <1>4, PutHeld
<1>6. \A u \in DOMAIN smf.tracks : TagsIn(s, u) \subseteq TagsIn(smf, u) \cup {tag}
  BY <1>4 DEF Put, Changed
<1>7. EventHeld(s, selected_track, Follow(s, {}))
  BY <1>2, <1>5, <1>6, StaysHeld
<1> QED
  BY <1>3, <1>5, <1>7, SelectsHeld

LEMMA EventRemoveSel ==
    ASSUME SelInv, NEW arg, cmd_eventrm(arg)
    PROVE  SelInv'
<1> DEFINE num == parse_event_number(arg)
           es == smf.tracks[selected_track].events
           s == smf_event_remove_from_track(smf, selected_track, num)
           freed == {es[num].tag}
<1>1. selected_track \in DOMAIN smf.tracks /\ num \in DOMAIN es
  BY ParsedEvent DEF cmd_eventrm
<1>2. \/ num = event_number /\ Selects(s, selected_track, NoEvent)
      \/ num # event_number /\ Selects(s, selected_track, Follow(s, freed))
  BY DEF cmd_eventrm
<1> HIDE DEF num
<1>3. Sound(s) /\ s.failed = smf.failed /\ Changed(s, smf, selected_track, {})
  BY <1>1, SelShell, SmfshAssumption, smf_event_removeSound
<1> HIDE DEF s
<1>4. /\ s.ppqn = smf.ppqn /\ DOMAIN s.tracks = DOMAIN smf.tracks
      /\ \A u \in DOMAIN smf.tracks : TagsIn(s, u) \subseteq TagsIn(smf, u) \cup {}
  BY <1>3 DEF Changed
<1>5. SongHeld(s)
  <2>1. Len(s.tracks) = Len(smf.tracks)
    BY <1>3, <1>4, SelShell, SameCount DEF Sound
  <2> QED
    BY <1>3, <1>4, <2>1 DEF SelInv, SongHeld
<1>6. CASE num = event_number /\ Selects(s, selected_track, NoEvent)
  <2>1. EventHeld(s, selected_track, NoEvent)
    BY <1>1, <1>4, NothingHeld
  <2> QED
    BY <1>5, <1>6, <2>1, SelectsHeld
<1>7. CASE num # event_number /\ Selects(s, selected_track, Follow(s, freed))
  <2>1. selected_event.is = "track" => selected_event.tag \notin freed
    BY <1>1, <1>7, SelectedNumber, SelShell DEF Named, Distinct
  <2> DEFINE none == {}
  <2>2. /\ selected_event.tag \notin none
        /\ \A u \in DOMAIN smf.tracks : TagsIn(s, u) \subseteq TagsIn(smf, u) \cup none
    BY <1>4
  <2> HIDE DEF freed, none
  <2>3. EventHeld(s, selected_track, Follow(s, freed))
    BY <1>4, <2>1, <2>2, StaysHeld
  <2> QED
    BY <1>5, <1>7, <2>3, SelectsHeld
<1> QED
  BY <1>2, <1>6, <1>7

LEMMA SelStep ==
    SelInv /\ [Next]_vars => SelInv'
<1> SUFFICES ASSUME SelInv, [Next]_vars PROVE SelInv'
  OBVIOUS
<1>1. CASE UNCHANGED vars
  BY <1>1 DEF vars, SelInv
<1>2. CASE Next
  BY <1>2, LoadSel, SaveSel, HeaderSel, TrackSel, TrackAddSel, TrackRemoveSel, EventsSel, EventSel,
     EventAddSel, TextSel, EotSel, EventRemoveSel
     DEF Next
<1> QED
  BY <1>1, <1>2

LEMMA SelInvariant == Spec => []SelInv
BY StartSel, SelStep, PTL DEF Spec

\* However tracks and events are added, removed by number or as the selected
\* one, displaced by an end of track, loaded and saved, the selected event is
\* never one that has been freed, and while it is in a track, that is the
\* selected track, and the event has there the number that `rm' without an
\* argument takes for it (smfsh.c:418, smfsh.c:706).
THEOREM SelectionCorrect == Spec => []SelectionHolds
BY SelInvariant, SelectionHeld, PTL
=============================================================================
