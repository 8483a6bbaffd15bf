--------------------------------- MODULE Smf ---------------------------------
(***************************************************************************)
(* Standard MIDI Files, as the program meets them: what a song is, and the *)
(* files that hold it.  A song says when each event happens, in ticks      *)
(* since the one before; its file may leave out the status byte of a       *)
(* channel event that repeats the status of the event before it.           *)
(***************************************************************************)
EXTENDS Integers, Sequences, FiniteSets, SequencesExt

CONSTANT IoFault   \* may reading or writing a file fail?

ASSUME SmfAssumption == IoFault \in BOOLEAN

Byte == 0 .. 255

\* The first bytes of status, and the types of meta events, that count here.
meta_event == 255
system_exclusive == 240
escape == 247
end_of_track == 47

MThd == << 77, 84, 104, 100 >>
MTrk == << 77, 84, 114, 107 >>

\* A number as n bytes, the highest first.
BigEndian(v, n) == [i \in 1 .. n |-> (v \div 256 ^ (n - i)) % 256]

Flatten(seqs) == FoldLeft(LAMBDA a, b : a \o b, << >>, seqs)

\* A number of up to 21 bits in bytes of 7 bits, all but the last one marked.
VarLen(v) ==
    IF v < 128 THEN << v >>
    ELSE IF v < 16384 THEN << 128 + v \div 128, v % 128 >>
    ELSE << 128 + v \div 16384, 128 + ((v \div 128) % 128), v % 128 >>

\* Events: "reg" for a channel event with its status byte, "meta" with its
\* type, "sysex" and "escape".
Reg(status, data) == [kind |-> "reg", code |-> status, data |-> data]
Meta(type, data) == [kind |-> "meta", code |-> type, data |-> data]
Sysex(data) == [kind |-> "sysex", code |-> system_exclusive, data |-> data]
Escape(data) == [kind |-> "escape", code |-> escape, data |-> data]
EndOfTrack == Meta(end_of_track, << >>)

\* How an event is written, with or without its status byte.
EventBytes(e, running) ==
    CASE e.kind = "reg"  -> IF running THEN e.data ELSE << e.code >> \o e.data
      [] e.kind = "meta" -> << meta_event, e.code >> \o VarLen(Len(e.data)) \o e.data
      [] OTHER           -> << e.code >> \o VarLen(Len(e.data)) \o e.data

\* A track is a sequence of events with the time since the one before.
MayRun(track) ==
    {i \in 2 .. Len(track) : /\ track[i].event.kind = "reg"
                             /\ track[i - 1].event.kind = "reg"
                             /\ track[i].event.code = track[i - 1].event.code}

TrackBytes(track, runs) ==
    Flatten([i \in DOMAIN track |->
                VarLen(track[i].delta) \o EventBytes(track[i].event, i \in runs)])

Chunk(id, bytes) == id \o BigEndian(Len(bytes), 4) \o bytes

Header(format, ntracks, division) ==
    Chunk(MThd, BigEndian(format, 2) \o BigEndian(ntracks, 2) \o BigEndian(division, 2))

\* The files that hold a song, one for each choice of what to leave out.
TrackFiles(track) == {Chunk(MTrk, TrackBytes(track, runs)) : runs \in SUBSET MayRun(track)}

SongFiles(song) ==
    {Header(song.format, Len(song.tracks), song.division) \o Flatten(chunks) :
        chunks \in {cs \in [DOMAIN song.tracks -> UNION {TrackFiles(song.tracks[t]) :
                                                            t \in DOMAIN song.tracks}] :
                       \A t \in DOMAIN cs : cs[t] \in TrackFiles(song.tracks[t])}}
=============================================================================
