----------------------------- MODULE MCMidiPath -----------------------------
(* Instances of MidiPath for TLC. *)
EXTENDS MidiPath

\* Two notes whose status differs by the channel, a program change with its
\* one data byte, and a text.
PlainEvents == {Reg(144, << 60, 64 >>), Reg(145, << 60, 64 >>), Reg(192, << 5 >>),
                Meta(1, << 65 >>)}

\* A pitch bend, a system exclusive message, and one that is passed through.
OddEvents == {Reg(224, << 1, 2 >>), Sysex(<< 126, 0, 247 >>), Escape(<< 243, 1 >>)}

\* The tracks of n events and their end, with these times before the first
\* event and before the others.
TracksOf(n, events, first, others) ==
    {[i \in 1 .. n + 1 |-> [delta |-> ds[i],
                            event |-> IF i <= n THEN es[i] ELSE EndOfTrack]] :
        es \in [1 .. n -> events],
        ds \in {d \in [1 .. n + 1 -> first \cup others] :
                  d[1] \in first /\ \A i \in 2 .. n + 1 : d[i] \in others}}

Song(ts) == [format |-> 1, division |-> 96, tracks |-> ts]

\* The songs of one track of up to max events.
Solos(max, events, first, others) ==
    UNION {{Song(<< t >>) : t \in TracksOf(n, events, first, others)} : n \in 0 .. max}

\* Common events: one track, or two that share up to three events.
CommonTracks(n) == TracksOf(n, PlainEvents, {0}, {0, 128, 16384})

CommonSongs ==
    Solos(3, PlainEvents, {0}, {0, 128, 16384})
      \cup {Song(ts) : ts \in UNION {CommonTracks(p[1]) \X CommonTracks(p[2]) :
                                      p \in {q \in (0 .. 3) \X (0 .. 3) : q[1] + q[2] <= 3}}}

\* All events, and a rest before the first.
OddSongs == Solos(2, OddEvents \cup {Reg(144, << 60, 64 >>)}, {0, 127}, {0, 127, 16384})

AnySongs == CommonSongs \cup OddSongs
=============================================================================
