----------------------------- MODULE MCSongFile -----------------------------
(* Instances of SongFile for TLC. *)
EXTENDS SongFile

F == INSTANCE Smf WITH IoFault <- FALSE

\* Tempos of 500100 and 500400 microseconds: which of two that coincide holds
\* makes 19.5 ms by pulse 130 at 2 pulses to a quarter note, and 9.75 ms at 4.
Slow == << 7, 161, 132 >>
Slower == << 7, 162, 176 >>

\* A note, two tempo changes, a system exclusive message, a clock tick (which needs
\* an escape), an end of track and a message that is cut short.
SomeMessages ==
    {<< 144, 60, 127 >>, << 255, 81, 3 >> \o Slow, << 255, 81, 3 >> \o Slower,
     << 240, 1, 247 >>, << 248 >>, EndOfTrack, << 144, 60 >>}

Note(delta, d) == [delta |-> delta, event |-> F!Reg(144, << 60, d >>)]
Other(delta, e) == [delta |-> delta, event |-> e]
Tempo(delta, usec) == Other(delta, F!Meta(81, usec))
End(delta) == Other(delta, F!EndOfTrack)

Piece(tracks) == [format |-> IF Len(tracks) = 1 THEN 0 ELSE 1, division |-> 2, tracks |-> tracks]

\* What the events of a track are in libsmf, with their pulses.
InMemory(e) ==
    CASE e.kind = "reg" -> << e.code >> \o e.data
      [] e.kind = "meta" -> << 255, e.code, Len(e.data) >> \o e.data
      [] OTHER -> << 240 >> \o e.data
PulsesAt(track, i) == IF i = 1 THEN track[1].delta ELSE F!FoldLeft(LAMBDA a, x : a + x.delta, 0, F!SubSeq(track, 1, i))
Events(track) == [i \in DOMAIN track |-> << PulsesAt(track, i), InMemory(track[i].event) >>]

Whole(tracks) ==
    {[bytes |-> b, tracks |-> [t \in DOMAIN tracks |-> Events(tracks[t])], aliens |-> 0] :
        b \in F!SongFiles(Piece(tracks))}

One == << << Note(0, 1), Note(130, 0), Other(1, F!Sysex(<< 1, 247 >>)), Note(0, 2), End(1) >> >>
Two == << << Tempo(0, Slow), Note(2, 1), Tempo(2, Slower), End(0) >>,
          << Note(1, 1), Tempo(0, Slower), Note(2, 1), Note(2, 0), End(0) >> >>

\* A chunk of another kind in front of the tracks.
Alien == F!Chunk(<< 88, 70, 73, 72 >>, << 0 >>)
WithAlien(tracks) ==
    LET f == CHOOSE g \in Whole(tracks) : TRUE
    IN  [bytes |-> SubSeq(f.bytes, 1, 14) \o Alien \o SubSeq(f.bytes, 15, Len(f.bytes)),
         tracks |-> f.tracks, aliens |-> 1]

\* A track of these bytes, and what is to be read from it.
Raw(bytes, events) ==
    [bytes |-> F!Header(0, 1, 2) \o F!Chunk(MTrk, bytes), tracks |-> << events >>, aliens |-> 0]

\* Cut off in a message; a data byte with no status; one after a system
\* exclusive message; no end; an escape.
Broken ==
    {Raw(<< 1, 144, 60, 1, 2, 144, 60 >>, << << 1, << 144, 60, 1 >> >>, << 1, EndOfTrack >> >>),
     Raw(<< 1, 60, 1, 0 >>, << << 0, EndOfTrack >> >>),
     Raw(<< 0, 240, 1, 247, 0, 60, 1, 0, 255, 47, 0 >>, << >>),
     Raw(<< 0, 144, 60, 1 >>, << >>),
     Raw(<< 0, 247, 1, 248, 0, 255, 47, 0 >>, << >>)}

\* No track, a format libsmf does not know, a division in frames.
NoSong == [tracks |-> << >>, aliens |-> 0, bytes |-> << >>]
Unknown ==
    {[NoSong EXCEPT !.bytes = F!Header(h[1], h[2], h[3])] :
        h \in {<< 0, 0, 2 >>, << 2, 1, 2 >>, << 0, 1, 58880 >>}}

ForeignFiles == Whole(One) \cup Whole(Two) \cup {WithAlien(Two)} \cup Broken \cup Unknown \cup {NoSong}
=============================================================================
