------------------------------ MODULE MidiPath ------------------------------
(***************************************************************************)
(* The way of a song through the server: loaded from its file, copied into *)
(* a part, written to the file that a client is sent.  The part here takes *)
(* every track; which tracks a part takes is the matter of Splitter.       *)
(***************************************************************************)
EXTENDS MidiReader, MidiWriter

CONSTANT Songs   \* the songs that may be loaded

ASSUME PathAssumption ==
    \A s \in Songs : /\ s.format \in 0 .. 2 /\ s.tracks # << >>
                     /\ \A t \in DOMAIN s.tracks : Last(s.tracks[t]).event = EndOfTrack

VARIABLE song    \* what the file that is loaded holds

vars == << song, readerVars, writerVars >>

Init ==
    /\ song \in Songs
    /\ file \in SongFiles(song)
    /\ ReaderInit
    /\ WriterInit

(* Mtrack_copy appends a copy of every event to the new track: what         *)
(* Mevent_copy makes, where the missing return statement still lets its     *)
(* caller find it (SplitCrashes is the other outcome).                      *)
Copied(track) ==
    FoldLeft(LAMBDA t, ev : append_mevent(t, ev.time, ev.event), << >>, track)

(* A song with no tracks is not split, and one with fewer than its header   *)
(* says has NULL tracks: the server crashes on both.  It may on any other:  *)
(* neither Mfile_from_headers (midi.c:14-23) nor Mevent_copy (midi.c:48-54) *)
(* returns what it has made, and its caller uses what it finds instead.     *)
Split ==
    /\ rpc = "loaded" /\ wpc = "idle"
    /\ Len(tracks) = mfile.ntracks /\ tracks # << >>
    /\ part' = [format   |-> mfile.format,
                division |-> mfile.division,
                tracks   |-> [t \in DOMAIN tracks |-> Copied(tracks[t])]]
    /\ wpc' = "header"
    /\ UNCHANGED << song, readerVars, out, track_i, e, laststatus, offset, Mf_numbyteswritten >>

SplitCrashes ==
    /\ rpc = "loaded" /\ wpc = "idle"
    /\ wpc' = "exited"
    /\ UNCHANGED << song, readerVars, part, out, track_i, e, laststatus, offset,
                    Mf_numbyteswritten >>

Next ==
    \/ (FileEnds \/ mfread) /\ UNCHANGED << song, writerVars >>
    \/ Split \/ SplitCrashes
    \/ mfwrite /\ UNCHANGED << song, readerVars >>

Spec == Init /\ [][Next]_vars

-----------------------------------------------------------------------------
Bytes256 == Byte \cup {Garbage}

TypeOK ==
    /\ \A i \in DOMAIN out : out[i] \in Bytes256
    /\ stream \in {"ok", "eof"}
    /\ pos \in 1 .. Len(file) + 1
    /\ Mf_toberead \in Nat /\ Mf_currtime \in Nat /\ status \in Byte
    /\ rpc \in {"header", "chunk", "event", "loaded", "exited"}
    /\ laststatus \in Byte
    /\ offset \in 0 .. Len(out) /\ Mf_numbyteswritten \in Nat
    /\ wpc \in {"idle", "header", "track", "event", "written", "exited"}

\* When the i-th event of a track happens, and what remains of the track when
\* the messages that are only passed through are left out.
Onset(track, i) ==
    FoldLeft(LAMBDA t, ev : t + ev.delta, 0, SubSeq(track, 1, i))

Timetable(track) ==
    SelectSeq([i \in DOMAIN track |-> << Onset(track, i), track[i].event.kind,
                                        track[i].event.code >>],
              LAMBDA entry : entry[2] # "escape")

\* Loading reads the tracks in order, each from its first event to its last,
\* and every event at its time and with its status, whether the file leaves
\* status bytes out or not; only the tracks at the end may be missing, and no
\* song is refused, unless the file could not be read to its end
\* (midifile.c:172-304).
ReadInTime ==
    /\ TypeOK
    /\ Len(tracks) <= Len(song.tracks)
    /\ rpc = "loaded" /\ stream = "ok" => Len(tracks) = Len(song.tracks)
    /\ rpc = "exited" => stream = "eof"
    /\ \A t \in DOMAIN tracks :
          [i \in DOMAIN tracks[t] |-> << tracks[t][i].time, tracks[t][i].event.kind,
                                        tracks[t][i].event.code >>]
        = Timetable(song.tracks[t])

EventsOf(track) == [i \in DOMAIN track |-> track[i].event]

\* Channel and meta events.
Common(ev) == ev.kind \in {"reg", "meta"}

\* The two data bytes of a pitch bend are taken the wrong way round
\* (midi_reader.c:192-193, midifile.c:427).
AsRead(ev) ==
    IF ev.kind = "reg" /\ ev.code \div 16 = 14
    THEN [ev EXCEPT !.data = Reverse(@)]
    ELSE ev

\* ... and common events with their data, but for that of pitch bends, whatever
\* comes between them (midi_reader.c:170-296).
ReadAlike ==
    \A t \in DOMAIN tracks :
        SelectSeq(EventsOf(tracks[t]), Common)
      = LET common == SelectSeq(EventsOf(song.tracks[t]), Common)
        IN  [i \in DOMAIN common |-> AsRead(common[i])]

\* The time before the first event of a track is not kept (midi.c:139).
AsWritten(s) ==
    [s EXCEPT !.tracks = [t \in DOMAIN s.tracks |->
        [i \in DOMAIN s.tracks[t] |->
            [delta |-> IF i = 1 THEN 0 ELSE s.tracks[t][i].delta,
             event |-> AsRead(s.tracks[t][i].event)]]]]

\* What is written for a song of common events is a file of that song, but for
\* its pitch bends and the rests its tracks begin with: the same events with
\* the same times between them, status bytes left out only where a reader
\* expects it, and chunks as long as they say (midifile.c:611-833).
PassedOn ==
    wpc = "written" /\ (\A t \in DOMAIN song.tracks : \A i \in DOMAIN song.tracks[t] :
                            Common(song.tracks[t][i].event))
    => out \in SongFiles(AsWritten(song))
=============================================================================
