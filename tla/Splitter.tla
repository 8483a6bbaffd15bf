------------------------------ MODULE Splitter ------------------------------
(***************************************************************************)
(* Mfile_split_by_tracks of server/midi_splitter.c: the tracks of a song   *)
(* are dealt to the clients, one part each.  A track is its number in the  *)
(* song; the tempo map is track 0 of a format 1 file and goes to everyone. *)
(***************************************************************************)
EXTENDS Integers, Sequences

CONSTANTS
    MaxTracks,    \* bound: tracks of a song
    MaxClients,   \* bound: clients that get a part
    Unknown       \* what is copied from beyond the array of tracks

ASSUME SplitterAssumption ==
    /\ MaxTracks \in Nat
    /\ MaxClients \in Nat \ {0}
    /\ Unknown \notin Int

VARIABLES
    format,    \* of the song, from its header
    ntracks,   \* the tracks its header announces
    nread,     \* the tracks the reader found: the pointers of the others are NULL
    ndest,     \* the number of clients
    parts,     \* the tracks of each part made so far, in the order of its file
    split      \* "called", "splitting", "done", "null" or "crashed"

song == << format, ntracks, nread, ndest >>
splitVars == << song, parts, split >>

TypeOK ==
    /\ format \in 0 .. 2
    /\ ntracks \in 0 .. MaxTracks
    /\ nread \in 0 .. ntracks
    /\ ndest \in 1 .. MaxClients
    /\ parts \in Seq(Seq((0 .. MaxTracks) \cup {Unknown}))
    /\ Len(parts) <= ndest
    /\ split \in {"called", "splitting", "done", "null", "crashed"}

Init ==
    /\ format \in 0 .. 2
    /\ ntracks \in 0 .. MaxTracks
    /\ nread \in 0 .. ntracks
    /\ ndest \in 1 .. MaxClients
    /\ parts = << >>
    /\ split = "called"

\* The tracks that are dealt: all but the tempo map.
nsrc == IF format = 1 THEN ntracks - 1 ELSE ntracks
First == IF format = 1 THEN 1 ELSE 0
TempoMap == IF format = 1 THEN << 0 >> ELSE << >>

\* How many tracks each of dest_len parts gets, when there are at least as
\* many tracks as parts.
track_num_map_NoRemainder(src_len, dest_len) ==
    [i \in 0 .. dest_len - 1 |-> src_len \div dest_len]

track_num_map_LastGetsRest(src_len, dest_len) ==
    [i \in 0 .. dest_len - 1 |->
        src_len \div dest_len + IF i = dest_len - 1 THEN src_len % dest_len ELSE 0]

track_num_map(src_len, dest_len) ==
    [i \in 0 .. dest_len - 1 |->
        src_len \div dest_len + IF i < src_len % dest_len THEN 1 ELSE 0]

\* Fewer parts than tracks: part i takes every ndest-th track from its own.
Mixed_InBlocks(i) ==
    LET n == track_num_map(nsrc, ndest)[i]
    IN  [d \in 1 .. n |-> i * n + (d - 1) + First]

Mixed(i) ==
    [d \in 1 .. track_num_map(nsrc, ndest)[i] |-> i + (d - 1) * ndest + First]

\* Otherwise each part is one track, and the tracks are gone through again
\* when they are used up.  The first one is skipped in every format.
Looped_FromZero(i) == << i % nsrc >>
Looped(i) == << (i % nsrc) + 1 >>

Sources(i) == TempoMap \o IF ndest >= nsrc THEN Looped(i) ELSE Mixed(i)

Among(t, tracks) == \E j \in DOMAIN tracks : tracks[j] = t

\* A file of format 0 is not split.
Start ==
    /\ split = "called"
    /\ split' = IF format = 0 THEN "null" ELSE "splitting"
    /\ UNCHANGED << song, parts >>

Splitting == split = "splitting" /\ Len(parts) < ndest

MakePart ==
    /\ Splitting
    /\ nsrc > 0
    /\ \A j \in DOMAIN Sources(Len(parts)) : Sources(Len(parts))[j] < nread
    /\ parts' = Append(parts, Sources(Len(parts)))
    /\ UNCHANGED << song, split >>

\* One pointer beyond the array is read, and happens to be one.
MakeUnknownPart ==
    /\ Splitting
    /\ nsrc > 0
    /\ Among(ntracks, Sources(Len(parts)))
    /\ parts' = Append(parts, << Unknown >>)
    /\ UNCHANGED << song, split >>

(* i % 0 or a failed assertion; a NULL track, or a pointer that is none;    *)
(* the overwritten heap.  And at any part, since Mfile_from_headers         *)
(* (midi.c:14-23) and Mevent_copy (midi.c:48-54) have no return statement:  *)
(* what their callers take for the new song or event may be NULL.           *)
SplitCrashes ==
    /\ Splitting
    /\ split' = "crashed"
    /\ UNCHANGED << song, parts >>

Return ==
    /\ split = "splitting" /\ Len(parts) = ndest
    /\ split' = "done"
    /\ UNCHANGED << song, parts >>

Next == Start \/ MakePart \/ MakeUnknownPart \/ SplitCrashes \/ Return

Spec == Init /\ [][Next]_splitVars

-----------------------------------------------------------------------------
\* No track of a format 1 song is lost: each is in some part
\* (midi_splitter.c:41-116).
EveryTrackSent ==
    split = "done" /\ format = 1 =>
        \A t \in 1 .. ntracks - 1 : \E i \in 1 .. ndest : Among(t, parts[i])

\* With fewer clients than tracks, in any format, no track but the tempo map
\* is played twice, by two clients or by one (midi_splitter.c:76-116).
NoTrackTwice ==
    split = "done" /\ ndest < nsrc =>
        \A i1, i2 \in 1 .. ndest :
            \A j1 \in DOMAIN parts[i1], j2 \in DOMAIN parts[i2] :
                parts[i1][j1] = parts[i2][j2] /\ parts[i1][j1] >= First =>
                    i1 = i2 /\ j1 = j2

\* No client gets two tracks more than another (midi_splitter.c:11-15).
EvenParts ==
    \A i, j \in DOMAIN parts : Len(parts[i]) <= Len(parts[j]) + 1

\* Every part of a format 1 song starts with the tempo map, which no other of
\* its tracks is, and has something to play (midi_splitter.c:50-62, 85-98).
InTime ==
    format = 1 => \A i \in DOMAIN parts :
        /\ parts[i][1] = 0
        /\ Len(parts[i]) >= 2
        /\ \A j \in 2 .. Len(parts[i]) : parts[i][j] \in 1 .. ntracks - 1
=============================================================================
