\* Songs of up to two tracks and three common events, and songs of one track with
\* the rarer events and a rest before the first, in all their files.
SPECIFICATION Spec
CONSTANTS
    IoFault = TRUE
    Songs <- AnySongs
INVARIANTS
    ReadInTime
    ReadAlike
    PassedOn
\* A song is loaded and written once.
CHECK_DEADLOCK FALSE
