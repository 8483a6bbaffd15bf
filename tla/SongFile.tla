------------------------------ MODULE SongFile ------------------------------
(***************************************************************************)
(* libsmf's files (smf_load.c, smf_save.c), byte for byte: what it writes  *)
(* for a song, what it makes of a file, and a program that edits, saves    *)
(* and loads.  The tag of an event is its MIDI message, as bytes.          *)
(***************************************************************************)
EXTENDS SongData


CONSTANTS
    Messages, Pulses, Ppqns,    \* what the program adds, where, and its divisions
    MaxTracks, MaxEvents,       \* bounds: how much is added to,
    MaxSaves,                   \* and how often it is saved
    Foreign     \* the files of other programs: records of their bytes, of what
                \* is in them (tracks of << pulses, message >>) and of how
                \* many chunks are no tracks

MThd == << 77, 84, 104, 100 >>
MTrk == << 77, 84, 114, 107 >>
EndOfTrack == << 255, 47, 0 >>

-----------------------------------------------------------------------------
(* Messages.                                                                *)

smf_event_is_metadata(b) == b[1] = 255
smf_event_is_sysex(b) == b[1] = 240
smf_event_is_system_common(b) == b[1] \in 240 .. 247
smf_event_is_system_realtime(b) == b[1] \in 248 .. 254
smf_event_is_eot(b) == b = EndOfTrack
event_is_end_of_track(b) == b[1] = 255 /\ b[2] = 47

\* What smf_tempo.c takes from a message.
KindOf(b) ==
    IF smf_event_is_eot(b) THEN "eot"
    ELSE IF smf_event_is_metadata(b) /\ b[2] = 81 THEN "tempo"
    ELSE IF smf_event_is_metadata(b) /\ b[2] = 88 THEN "sig"
    ELSE "note"

ValOf(b) ==
    CASE KindOf(b) = "tempo" -> (b[4] * 256 + b[5]) * 256 + b[6]
      [] KindOf(b) = "sig" /\ Len(b) >= 7 -> 1 + b[4] * 256 + b[5]
      [] OTHER -> 0

Message(b) == Event(KindOf(b), ValOf(b), b)

\* How many bytes a message with this status has, when b[p] is the one after
\* it and b[last] the last there is.  0 when that cannot be told.
expected_message_length(status, b, p, last) ==
    CASE status = 255 -> IF p + 1 > last THEN 0 ELSE b[p + 1] + 3
      [] status = 242 -> 3
      [] status \in {241, 243} -> 2
      [] status \in {246, 248, 249, 250, 251, 252, 254} -> 1
      [] status \in 192 .. 223 -> 2
      [] status \in 128 .. 191 \cup 224 .. 239 -> 3
      [] OTHER -> 0

smf_event_is_valid(b) ==
    /\ b[1] >= 128
    /\ smf_event_is_sysex(b) \/ Len(b) = expected_message_length(b[1], b, 2, Len(b))

-----------------------------------------------------------------------------
(* Writing.                                                                 *)

\* Seven bits to a byte, the highest first, all but the last one marked.
format_vlq_OneByte(v) == << v % 128 >>
format_vlq(v) ==
    LET n == CHOOSE k \in 1 .. 5 : v < 128 ^ k /\ (k = 1 \/ v >= 128 ^ (k - 1))
    IN  [i \in 1 .. n |-> ((v \div 128 ^ (n - i)) % 128) + (IF i < n THEN 128 ELSE 0)]

\* A system exclusive message is written with its length, the other system
\* messages within an escape, everything else as it is.
write_event_contents(b) ==
    IF smf_event_is_sysex(b) THEN << 240 >> \o format_vlq(Len(b) - 1) \o Tail(b)
    ELSE IF smf_event_is_system_realtime(b) \/ smf_event_is_system_common(b)
      THEN << 247 >> \o format_vlq(Len(b)) \o b
    ELSE b

write_event(ev) == format_vlq(ev.delta) \o write_event_contents(ev.tag)

htons(v) == << v \div 256, v % 256 >>
htonl(v) == htons(v \div 65536) \o htons(v % 65536)

\* The length of a track is filled in when its events have been written.
write_track(tr) ==
    LET bytes == FoldLeft(LAMBDA a, ev : a \o write_event(ev), << >>, tr.events)
    IN  MTrk \o htonl(Len(bytes)) \o bytes

write_mthd_header(s) == MThd \o htonl(6) \o htons(s.format) \o htons(Len(s.tracks)) \o htons(s.ppqn)

Written(s) == FoldLeft(LAMBDA a, tr : a \o write_track(tr), write_mthd_header(s), s.tracks)

-----------------------------------------------------------------------------
(* Reading.  A file has the bytes b[p] .. b[last].                          *)

\* A number of up to four bytes.  len is 0 when its end is not there.
extract_vlq(b, p, last) ==
    LET ends == {q \in p .. last : b[q] < 128}
        n == IF ends = {} THEN 0 ELSE Min(ends) - p + 1
    IN  [ok |-> n \in 1 .. 4, len |-> n,
         value |-> FoldLeft(LAMBDA a, d : a * 128 + (d % 128), 0, SubSeq(b, p, p + n - 1))]

Error == [how |-> "error", message |-> << >>, next |-> 0]
Failed(why) == [Error EXCEPT !.how = why]
Found(message, next) == [how |-> "", message |-> message, next |-> next]

\* One byte has to follow the message (smf_load.c:408).
extract_sysex_event(b, p, last) ==
    LET length == extract_vlq(b, p + 1, last)
        next == p + 1 + length.len + length.value
    IN  IF b[p] # 240 THEN Failed("sysex")
        ELSE IF last - p < 3 \/ ~length.ok \/ next > last THEN Error
        ELSE Found(<< 240 >> \o SubSeq(b, next - length.value, next - 1), next)

\* No escape gets past the assertion of expected_sysex_length that it is none.
extract_midi_event(b, p, last, running) ==
    LET status == IF b[p] >= 128 THEN b[p] ELSE running
        data == IF b[p] >= 128 THEN p + 1 ELSE p
        length == expected_message_length(status, b, data, last)
    IN  IF status < 128 THEN Error
        ELSE IF status = 240 THEN extract_sysex_event(b, p, last)
        ELSE IF status = 247 THEN Failed("escape")
        ELSE IF length = 0 \/ length - 1 > last - data + 1 THEN Error
        ELSE Found(<< status >> \o SubSeq(b, data, data + length - 2), data + length - 1)

\* The next event of the song's last track goes into it.  Reading a track, r
\* has the song, the place in the bytes, the running status and how it ended.
AddFound(r, found, delta) ==
    IF found.how # "" THEN [r EXCEPT !.end = found.how]
    ELSE [song |-> smf_track_add_event_delta_pulses(r.song, Len(r.song.tracks), Message(found.message), delta),
          at |-> found.next, running |-> found.message[1],
          end |-> IF event_is_end_of_track(found.message) THEN "end" ELSE ""]

EventAfter_Forgets(b, time, at, last, running) ==
    IF time.ok /\ at + time.len <= last THEN extract_midi_event(b, at + time.len, last, 0) ELSE Error
EventAfter(b, time, at, last, running) ==
    IF time.ok /\ at + time.len <= last THEN extract_midi_event(b, at + time.len, last, running) ELSE Error

parse_next_event(b, r, last) ==
    LET time == extract_vlq(b, r.at, last)
    IN  IF r.at > last THEN [r EXCEPT !.end = "buffer"]
        ELSE AddFound(r, EventAfter(b, time, r.at, last, r.running), time.value)

\* An event that cannot be read ends the track.
EndTrack(r) ==
    CASE r.end = "end" -> r.song
      [] r.end = "error" ->
            smf_track_add_eot_delta_pulses(r.song, Len(r.song.tracks), EndOfTrack, 0)
      [] OTHER -> Abort(r.song, r.end)

parse_mtrk_chunk(s, b, first, last) ==
    LET Step(r) == IF r.end = "" THEN parse_next_event(b, r, last) ELSE r
    IN  EndTrack(Iterate(Step, [song |-> s, at |-> first, running |-> 0, end |-> ""], last - first + 2))

IsAlpha(c) == c \in 65 .. 90 \cup 97 .. 122

Number(b, p, n) == FoldLeft(LAMBDA a, d : a * 256 + d, 0, SubSeq(b, p, p + n - 1))

\* The chunk at a place: its id and bytes, and whether there is one.  (Bound:
\* a chunk is no longer than the file; reading a cut one, the code goes on
\* past the end of its buffer.)
next_chunk(b, at) ==
    LET there == at + 8 < Len(b) + 1 /\ \A i \in at .. at + 3 : IsAlpha(b[i])
    IN  [ok |-> there,
         id |-> IF there THEN SubSeq(b, at, at + 3) ELSE << >>,
         next |-> IF there THEN at + 8 + Number(b, at + 4, 4) ELSE at]

mthd_refused(b) ==
    \/ Len(b) < 14 \/ SubSeq(b, 1, 4) # MThd \/ Number(b, 5, 4) # 6
    \/ Number(b, 9, 2) \notin {0, 1}
    \/ Number(b, 11, 2) = 0
    \/ b[13] >= 128 \/ Number(b, 13, 2) = 0

\* Each of the declared tracks is added, and deleted when the next chunk is not
\* a track; the code then goes on to write to it (smf_load.c:886).
Track(r, b) ==
    LET chunk == next_chunk(b, r.at)
        s == smf_add_track(r.song, smf_track_new)
    IN  IF r.song.failed # "" THEN r
        ELSE IF chunk.id = MTrk
          THEN [r EXCEPT !.at = chunk.next, !.song = parse_mtrk_chunk(s, b, r.at + 8, chunk.next - 1)]
        ELSE [at |-> chunk.next, freed |-> TRUE, song |-> smf_track_delete(s, Len(s.tracks))]

smf_load_from_memory(b) ==
    LET blank == [smf_new EXCEPT !.format = Number(b, 9, 2), !.ppqn = Number(b, 13, 2)]
        Step(r) == Track(r, b)
    IN  Iterate(Step, [song |-> blank, at |-> 15, freed |-> FALSE], Number(b, 11, 2))

smf_load(b) ==
    LET Rewound(r) == [ok |-> TRUE, song |-> smf_rewind(r.song), freed |-> r.freed]
    IN  IF mthd_refused(b) THEN [ok |-> FALSE, song |-> smf_new, freed |-> FALSE]
        ELSE Rewound(smf_load_from_memory(b))

-----------------------------------------------------------------------------
(* Saving.                                                                  *)

Invalid(s) ==
    {ev \in {EventAt(s, e) : e \in EventsIn(s)} : ~smf_event_is_valid(ev.tag)}

\* Two pulses and a hundredth of a second may be lost (smf_save.c:562).
Tolerance == 10000

assert_smf_event_is_identical(a, b) ==
    /\ a.number = b.number /\ a.delta = b.delta /\ a.track = b.track /\ a.tag = b.tag
    /\ a.pulses - b.pulses \in -2 .. 2
    /\ a.seconds - b.seconds \in -Tolerance .. Tolerance

assert_smf_track_is_identical(tr, loaded) ==
    /\ tr.number = loaded.number /\ Len(tr.events) = Len(loaded.events)
    /\ \A i \in DOMAIN tr.events : assert_smf_event_is_identical(tr.events[i], loaded.events[i])

assert_smf_is_identical(s, loaded) ==
    /\ s.format = loaded.format /\ s.ppqn = loaded.ppqn /\ Len(s.tracks) = Len(loaded.tracks)
    /\ \A t \in DOMAIN s.tracks : assert_smf_track_is_identical(s.tracks[t], loaded.tracks[t])

\* The program that saves reads the file again: why it fails, or "".
WhyNot(s, loaded) ==
    CASE ~loaded.ok -> "saved"
      [] loaded.song.failed # "" -> loaded.song.failed
      [] assert_smf_is_identical(s, loaded.song) -> ""
      [] OTHER -> "identical"
assert_smf_saved_correctly(s, b) == WhyNot(s, smf_load(b))

-----------------------------------------------------------------------------
(* The program.                                                             *)

VARIABLES
    song,
    disk,       \* the file's bytes
    holds,      \* history: the tracks that were put in the file, and how many
                \* of its chunks are no tracks
    result,     \* what came of the last call
    saves       \* bound: how often the song has been saved

vars == << song, disk, holds, result, saves >>

Contents(s) ==
    [t \in DOMAIN s.tracks |->
        [i \in DOMAIN s.tracks[t].events |->
            << s.tracks[t].events[i].pulses, s.tracks[t].events[i].tag >>]]

Init ==
    /\ song = smf_new /\ result = "" /\ saves = 0
    /\ \E f \in Foreign : disk = f.bytes /\ holds = [tracks |-> f.tracks, aliens |-> f.aliens]

Edit(s) == song' = s /\ result' = "" /\ UNCHANGED << disk, holds, saves >>

\* (Bounds: a song is edited that has few events, and not between loading and
\* saving it, or between a save that failed and the next.)
Editable ==
    /\ song.failed = "" /\ result \notin {"loaded", "failed"} /\ Cardinality(EventsIn(song)) < MaxEvents
    /\ saves > 0 \/ disk = << >>

SetPpqn(n) == Editable /\ song.tracks = << >> /\ Edit(smf_set_ppqn(song, n))

AddTrack == Editable /\ Len(song.tracks) < MaxTracks /\ Edit(smf_add_track(song, smf_track_new))

Add(t, p, b) == Editable /\ Edit(smf_track_add_event_pulses(song, t, Message(b), p))

\* A song that is not valid is refused; the tracks before the one that is not
\* have got their ends by then.  Otherwise the file is emptied and written,
\* which may fail; then it is read again.
Refuse(valid) ==
    /\ ~valid.ok
    /\ song' = valid.song /\ result' = "refused"
    /\ UNCHANGED << disk, holds, saves >>

Holds(tracks) == holds' = [tracks |-> tracks, aliens |-> 0]

\* The old file, nothing, or the header and the first k tracks of the song.
\* (Bound: what is written is cut off between two chunks.)
WriteFails(s) ==
    /\ song' = s /\ result' = "failed"
    /\ \/ UNCHANGED << disk, holds >>
       \/ disk' = << >> /\ Holds(<< >>)
       \/ \E k \in 0 .. Len(s.tracks) :
            /\ disk' = FoldLeft(LAMBDA a, tr : a \o write_track(tr), write_mthd_header(s), SubSeq(s.tracks, 1, k))
            /\ Holds(SubSeq(Contents(s), 1, k))

Write(s, why) ==
    /\ saves < MaxSaves /\ saves' = saves + 1
    /\ \/ WriteFails(s)
       \/ /\ disk' = Written(s) /\ Holds(Contents(s))
          /\ song' = Abort(s, why)
          /\ result' = IF why = "" THEN "saved" ELSE "lost"

Save ==
    /\ song.failed = ""
    /\ \E valid \in {smf_validate(smf_rewind(song), Invalid(song),
                                   [t \in DOMAIN song.tracks |-> EndOfTrack])} :
          \/ Refuse(valid)
          \/ /\ valid.ok
             /\ \E s \in {WrittenOut(valid.song)} : Write(s, assert_smf_saved_correctly(s, Written(s)))

Load ==
    /\ song.failed = ""
    /\ \E loaded \in {smf_load(disk)} :
          /\ \/ song' = IF loaded.ok THEN loaded.song ELSE song
             \/ loaded.freed /\ song' = Abort(loaded.song, "freed")
          /\ result' = IF loaded.ok THEN "loaded" ELSE "missing"
    /\ UNCHANGED << disk, holds, saves >>

Next ==
    \/ \E n \in Ppqns : SetPpqn(n)
    \/ AddTrack
    \/ \E t \in DOMAIN song.tracks, p \in Pulses, b \in Messages : Add(t, p, b)
    \/ Save
    \/ Load

Spec == Init /\ [][Next]_vars

-----------------------------------------------------------------------------
(* Properties.                                                              *)

TypeOK ==
    /\ song.failed \in {"", "buffer", "sysex", "escape", "freed", "saved", "identical"}
    /\ result \in {"", "refused", "failed", "saved", "lost", "loaded", "missing"}
    /\ song.ppqn \in 1 .. 65535 /\ saves \in 0 .. MaxSaves
    /\ \A t \in DOMAIN song.tracks :
          /\ song.tracks[t].next \in {-1} \cup DOMAIN song.tracks[t].events
          /\ \A i \in DOMAIN song.tracks[t].events :
                LET ev == song.tracks[t].events[i]
                IN  ev.kind \in Kind /\ \A j \in DOMAIN ev.tag : ev.tag[j] \in 0 .. 255
    /\ \A i \in DOMAIN disk : disk[i] \in 0 .. 255

\* Messages that are valid, do not need an escape and do not end the track
\* before its last event.
Savable(s) ==
    /\ s.tracks # << >> /\ s.ppqn < 32768
    /\ \A t \in DOMAIN s.tracks : \A i \in DOMAIN s.tracks[t].events :
          LET b == s.tracks[t].events[i].tag
          IN  /\ smf_event_is_valid(b)
              /\ b[1] = 240 \/ b[1] \notin 241 .. 254
              /\ event_is_end_of_track(b) => i = Len(s.tracks[t].events)

\* A song is saved exactly when everything in it can be read back, within what
\* the check of it allows: then the file gives the same song, whatever has been
\* edited, saved or loaded before (smf_save.c:598); and otherwise it is refused,
\* or the assertions that read the file again end the program.
SavesWhatItCan ==
    [][/\ result' = "saved" => Savable(song') /\ InTime(song', Tolerance + Rounding(song'))
       /\ result' \in {"refused", "lost"} =>
            ~(Savable(song') /\ InTime(song', Tolerance - Rounding(song')))]_vars

UpToEnd(es) ==
    LET ends == {i \in DOMAIN es : event_is_end_of_track(es[i][2])}
    IN  IF ends = {} THEN es ELSE SubSeq(es, 1, Min(ends))

\* A file is loaded with all its events in place, up to the first end of each
\* track, also when it leaves out status bytes, is cut off by an event that
\* cannot be read (smf_load.c:767), or has only some of its tracks.  A chunk
\* that is no track takes the place of the last track (smf_load.c:873).
LoadedAlike ==
    /\ TypeOK
    /\ result = "loaded" /\ song.failed = "" =>
        /\ IsPrefix(Contents(song), [t \in DOMAIN holds.tracks |-> UpToEnd(holds.tracks[t])])
        /\ Len(song.tracks) = Len(holds.tracks) - holds.aliens

\* However the tempo changes are spread over the tracks of a file, which are
\* read one after the other, every event has got the seconds its tempo
\* changes give it (smf.c:508), and plays from the start.
LoadedInTime ==
    result = "loaded" /\ song.failed = "" =>
        /\ InTime(song, Rounding(song))
        /\ \A t \in DOMAIN song.tracks : song.tracks[t].next # -1
=============================================================================
