----------------------------- MODULE MidiReader -----------------------------
(***************************************************************************)
(* Loading a song: mfread and its helpers in server/midifile.c, with the   *)
(* callbacks of server/midi_reader.c that build the tracks.  The file is a *)
(* sequence of bytes; one round of the loop of readtrack, with the         *)
(* callback it ends in, is one action.                                     *)
(***************************************************************************)
EXTENDS Smf

VARIABLES
    file,         \* the bytes of the file
    stream,       \* "ok", or "eof": fgetc returns EOF from now on
    pos,          \* the position of the next byte, from 1
    Mf_toberead,  \* bytes of the chunk not yet read
    Mf_currtime,  \* ticks since the start of the track
    status,       \* the last status byte of the track, 0 before the first
    mfile,        \* format, ntracks and division, from the header
    tracks,       \* the finished tracks
    cur_track,    \* the events of the one being read
    rpc           \* "header", "chunk", "event", "loaded" or "exited"

fileVars == << file, stream >>
readerVars == << fileVars, pos, Mf_toberead, Mf_currtime, status, mfile, tracks,
                 cur_track, rpc >>

\* Nothing is known of the song before the header is read.
NoHeader == [format |-> 0, ntracks |-> 0, division |-> 0]

ReaderInit ==
    /\ stream = "ok"
    /\ pos = 1
    /\ Mf_toberead = 0 /\ Mf_currtime = 0 /\ status = 0
    /\ mfile = NoHeader
    /\ tracks = << >> /\ cur_track = << >>
    /\ rpc = "header"

-----------------------------------------------------------------------------
(* Bytes and numbers.                                                       *)

Bytes(from, n) == SubSeq(file, from, from + n - 1)

\* to16bit and to32bit.
Number(bytes) == FoldLeft(LAMBDA v, b : v * 256 + b, 0, bytes)

\* readvarinum: where the number at p ends, whether it does, what it is.
Ends(p) == {q \in p .. Len(file) : file[q] < 128}
VarEnd(p) == CHOOSE q \in Ends(p) : \A r \in Ends(p) : q <= r
readvarinum(p) == FoldLeft(LAMBDA v, b : v * 128 + (b % 128), 0, SubSeq(file, p, VarEnd(p)))

\* chantype: the data bytes of a channel message with this status, 0 for any
\* other.
chantype(s) ==
    IF s \div 16 \in {12, 13} THEN 1 ELSE IF s \div 16 \in 8 .. 14 THEN 2 ELSE 0

-----------------------------------------------------------------------------
(* Tracks.                                                                  *)

\* append_mevent computes the delta time of all events but the first, whose
\* calloc left it 0.
append_mevent(track, time, e) ==
    Append(track, [time  |-> time,
                   delta |-> IF track = << >> THEN 0 ELSE time - track[Len(track)].time,
                   event |-> e])

\* The callbacks of channel messages pass the data bytes on in their order, but
\* for those of a pitch bend, which they take for msb and lsb.
ChannelData(s, data) == IF s \div 16 = 14 THEN << data[2], data[1] >> ELSE data

\* The callbacks of meta events keep all types and data as they are (those of a
\* fixed length are taken at that length).
MetaData(type, data) == data

(* new_msysex_event copies a string: of what follows a zero byte only the   *)
(* length is kept, and the bytes may be any.                                *)
Garbage == 256
new_msysex_event(msg) ==
    Sysex([i \in DOMAIN msg |-> IF \E j \in 1 .. i - 1 : msg[j] = 0 THEN Garbage ELSE msg[i]])

-----------------------------------------------------------------------------
(* The environment: the file cannot be read any further.                    *)
FileEnds ==
    /\ IoFault
    /\ stream = "ok" /\ stream' = "eof"
    /\ rpc \in {"header", "chunk", "event"}
    /\ UNCHANGED << file, pos, Mf_toberead, Mf_currtime, status, mfile, tracks, cur_track, rpc >>

AtEof == stream = "eof" \/ pos > Len(file)

\* readheader.  A longer header than the 6 known bytes is skipped.
readheader ==
    /\ rpc = "header"
    /\ ~AtEof
    /\ Bytes(pos, 4) = MThd
    /\ mfile' = [format   |-> Number(Bytes(pos + 8, 2)),
                 ntracks  |-> Number(Bytes(pos + 10, 2)),
                 division |-> Number(Bytes(pos + 12, 2))]
    /\ pos' = pos + 8 + Number(Bytes(pos + 4, 4))
    /\ rpc' = "chunk"
    /\ UNCHANGED << fileVars, Mf_toberead, Mf_currtime, status, tracks, cur_track >>

\* Where a chunk should begin, up to the end of its name, the end of the file
\* is no error: loading is over, with the tracks there are, or without even a
\* header.
NoMoreChunks ==
    /\ rpc \in {"header", "chunk"}
    /\ AtEof
    /\ rpc' = IF rpc = "header" THEN "chunk" ELSE "loaded"
    /\ UNCHANGED << fileVars, pos, Mf_toberead, Mf_currtime, status, mfile, tracks, cur_track >>

\* readtrack up to its loop, with handle_track_start.
TrackStart ==
    /\ rpc = "chunk"
    /\ ~AtEof
    /\ Bytes(pos, 4) = MTrk
    /\ Mf_toberead' = Number(Bytes(pos + 4, 4))
    /\ pos' = pos + 8
    /\ Mf_currtime' = 0 /\ status' = 0
    /\ cur_track' = << >>
    /\ rpc' = "event"
    /\ UNCHANGED << fileVars, mfile, tracks >>

\* The loop of readtrack: the delta time, and the byte c that follows it.
InTrack == rpc = "event" /\ Mf_toberead > 0
c == file[VarEnd(pos) + 1]
Now_NotSummed == readvarinum(pos)
Now == Mf_currtime + readvarinum(pos)

NextStatus == IF c < 128 THEN status ELSE c

\* This event ends before position p.
Consumed(p) ==
    /\ pos' = p
    /\ Mf_toberead' = Mf_toberead - (p - pos)
    /\ Mf_currtime' = Now
    /\ status' = NextStatus
    /\ UNCHANGED << fileVars, mfile, tracks, rpc >>

\* chanmessage and its callbacks; under running status c is the first data
\* byte.
ChannelEvent ==
    LET n == chantype(NextStatus)
        first == VarEnd(pos) + IF c < 128 THEN 1 ELSE 2
    IN  /\ InTrack /\ ~AtEof
        /\ n > 0
        /\ Consumed(first + n)
        /\ cur_track' = append_mevent(cur_track, Now,
                            Reg(NextStatus, ChannelData(NextStatus, Bytes(first, n))))

\* What follows the status: a length, and as many bytes.
MessageAt_OneEarly(p) == Bytes(VarEnd(p), readvarinum(p))
MessageAt(p) == Bytes(VarEnd(p) + 1, readvarinum(p))
AfterMessage(p) == VarEnd(p) + 1 + readvarinum(p)

\* metaevent and its callbacks.
MetaEvent ==
    LET p == VarEnd(pos) + 3
    IN  /\ InTrack /\ ~AtEof
        /\ c = meta_event
        /\ Consumed(AfterMessage(p))
        /\ cur_track' = append_mevent(cur_track, Now,
                            Meta(file[p - 1], MetaData(file[p - 1], MessageAt(p))))

\* The message handed to handle_sysex begins with the status byte itself.
SysexEvent ==
    LET p == VarEnd(pos) + 2
    IN  /\ InTrack /\ ~AtEof
        /\ c = system_exclusive
        /\ Consumed(AfterMessage(p))
        /\ cur_track' = append_mevent(cur_track, Now,
                            new_msysex_event(<< system_exclusive >> \o MessageAt(p)))

\* handle_arbitrary forgets the message, but its time has passed.
ArbitraryEvent ==
    LET p == VarEnd(pos) + 2
    IN  /\ InTrack /\ ~AtEof
        /\ c = escape
        /\ Consumed(AfterMessage(p))
        /\ UNCHANGED cur_track

\* handle_track_end; there is no room for more tracks than were announced.
TrackEnd ==
    /\ rpc = "event" /\ Mf_toberead <= 0
    /\ Len(tracks) < mfile.ntracks
    /\ tracks' = Append(tracks, cur_track)
    /\ cur_track' = << >>
    /\ rpc' = "chunk"
    /\ UNCHANGED << fileVars, pos, Mf_toberead, Mf_currtime, status, mfile >>

(* mferror, or an assertion: a chunk of another name, one track too many, a *)
(* byte that begins no event, a status byte left out at the start of a      *)
(* track or after an event that cannot be repeated, or the end of the file  *)
(* within an event, or within a chunk's header and after its name.          *)
Known == chantype(NextStatus) > 0 \/ c \in {meta_event, system_exclusive, escape}
Readable ==
    /\ rpc = "header" => AtEof \/ Bytes(pos, 4) = MThd
    /\ rpc = "chunk" => AtEof \/ Bytes(pos, 4) = MTrk
    /\ InTrack => ~AtEof /\ Known
    /\ rpc = "event" /\ ~InTrack => Len(tracks) < mfile.ntracks

CutInHeader == rpc \in {"header", "chunk"} /\ stream = "eof" /\ pos <= Len(file)

ReadFails ==
    /\ rpc \in {"header", "chunk", "event"}
    /\ ~Readable \/ CutInHeader
    /\ rpc' = "exited"
    /\ UNCHANGED << fileVars, pos, Mf_toberead, Mf_currtime, status, mfile, tracks, cur_track >>

mfread ==
    \/ readheader \/ NoMoreChunks \/ TrackStart \/ TrackEnd \/ ReadFails
    \/ ChannelEvent \/ MetaEvent \/ SysexEvent \/ ArbitraryEvent
=============================================================================
