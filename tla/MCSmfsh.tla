------------------------------- MODULE MCSmfsh -------------------------------
(* Instances of Smfsh for TLC.  The time 129166 is a pulse at 120 pulses to a *)
(* quarter note, but for rounding, and between two at 4.                      *)
EXTENDS Smfsh

Note == [kind |-> "note", val |-> 0]
Faster == [kind |-> "tempo", val |-> 250000]
End == [kind |-> "eot", val |-> 0]

\* (`text' adds notes.)
SomeMessages == {Faster, End}

\* A file of one track and one of two; none of a song without tracks.
SomeFiles == {<< << << 0, Faster >>, << 31, End >> >> >>, << << << 31, Note >> >>, << >> >>}
SomeSeconds == {-1000000, 129166}
=============================================================================
