----------------------------- MODULE MidiWriter -----------------------------
(***************************************************************************)
(* Writing a part of a song: Mfile_write_to_midi in server/midi_writer.c   *)
(* and mfwrite with its helpers in server/midifile.c.  One event is one    *)
(* action; its bytes are appended to the file.                             *)
(***************************************************************************)
EXTENDS Smf

VARIABLES
    part,         \* format, division and tracks of the part
    out,          \* the bytes of its file
    track_i,      \* the track being written, from 1
    e,            \* its next event, from 1
    laststatus,   \* the last status byte written, 0 for none
    offset,       \* the length of the file before the chunk being written
    Mf_numbyteswritten, \* the bytes written since the length field
    wpc           \* "idle", "header", "track", "event", "written" or "exited"

writerVars == << part, out, track_i, e, laststatus, offset, Mf_numbyteswritten, wpc >>

NoPart == [format |-> 0, division |-> 0, tracks |-> << >>]

WriterInit ==
    /\ part = NoPart
    /\ out = << >>
    /\ track_i = 1 /\ e = 1
    /\ laststatus = 0
    /\ offset = 0 /\ Mf_numbyteswritten = 0
    /\ wpc = "idle"

\* eputc for each of these bytes.
Put(bytes) ==
    /\ out' = out \o bytes
    /\ Mf_numbyteswritten' = Mf_numbyteswritten + Len(bytes)

\* WriteVarLen collects groups of 7 bits, the lowest first, in a buffer, and
\* writes the buffer from the other end.
WriteVarLen(v) ==
    LET groups == Cardinality({k \in 1 .. 3 : v >= 128 ^ k}) + 1
    IN  [i \in 1 .. groups |->
            ((v \div 128 ^ (groups - i)) % 128) + IF i < groups THEN 128 ELSE 0]

\* write_event: the status byte is left out when it repeats the last one.
StatusBytes(s) == IF laststatus = s THEN << >> ELSE << s >>

\* A meta event sets laststatus too, so that no status is left out after one.
StatusAfter_NoMeta(ev) == IF ev.kind = "meta" THEN laststatus ELSE ev.code
StatusAfter(ev) == IF ev.kind = "meta" THEN meta_event ELSE ev.code

\* mf_write_midi_event: a system exclusive message always has its status byte.
EventWritten(ev) ==
    CASE ev.kind = "meta"  ->
            << meta_event, ev.code >> \o WriteVarLen(Len(ev.data)) \o ev.data
      [] ev.kind = "sysex" ->
            << ev.code >> \o WriteVarLen(Len(ev.data)) \o ev.data
      [] OTHER             ->
            StatusBytes(ev.code) \o ev.data

mf_write_header_chunk ==
    /\ wpc = "header"
    /\ out' = MThd \o BigEndian(6, 4) \o BigEndian(part.format, 2)
                   \o BigEndian(Len(part.tracks), 2) \o BigEndian(part.division, 2)
    /\ wpc' = "track"
    /\ UNCHANGED << part, track_i, e, laststatus, offset, Mf_numbyteswritten >>

\* mf_write_track_chunk: the length is not known yet, and written as 0.
ChunkStart ==
    /\ wpc = "track" /\ track_i <= Len(part.tracks)
    /\ laststatus' = 0
    /\ offset' = Len(out)
    /\ out' = out \o MTrk \o BigEndian(0, 4)
    /\ Mf_numbyteswritten' = 0
    /\ e' = 1
    /\ wpc' = "event"
    /\ UNCHANGED << part, track_i >>

write_event ==
    LET ev == part.tracks[track_i][e]
    IN  /\ wpc = "event" /\ e <= Len(part.tracks[track_i])
        /\ Put(WriteVarLen(ev.delta) \o EventWritten(ev.event))
        /\ laststatus' = StatusAfter(ev.event)
        /\ e' = e + 1
        /\ UNCHANGED << part, track_i, offset, wpc >>

\* The chunk header is written again over the first one, with the length.
Patched(bytes, length) ==
    [i \in DOMAIN bytes |->
        IF i \in offset + 5 .. offset + 8 THEN BigEndian(length, 4)[i - offset - 4]
        ELSE bytes[i]]

ChunkEnd ==
    /\ wpc = "event" /\ e > Len(part.tracks[track_i])
    /\ out' = Patched(out, Mf_numbyteswritten)
    /\ track_i' = track_i + 1
    /\ wpc' = "track"
    /\ UNCHANGED << part, e, laststatus, offset, Mf_numbyteswritten >>

AllWritten ==
    /\ wpc = "track" /\ track_i > Len(part.tracks)
    /\ wpc' = "written"
    /\ UNCHANGED << part, out, track_i, e, laststatus, offset, Mf_numbyteswritten >>

\* The file cannot be opened, or eputc gets an error: handle_out_error exits.
WriteFails ==
    /\ IoFault
    /\ wpc \in {"header", "track", "event"}
    /\ wpc' = "exited"
    /\ UNCHANGED << part, out, track_i, e, laststatus, offset, Mf_numbyteswritten >>

mfwrite ==
    \/ WriteFails
    \/ mf_write_header_chunk \/ ChunkStart \/ write_event \/ ChunkEnd \/ AllWritten
=============================================================================
