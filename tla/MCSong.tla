------------------------------- MODULE MCSong -------------------------------
(* Instances of Song for TLC, in the values of a real song: pulse 31 is one *)
(* whose seconds lead to the pulse before, at 120 pulses to a quarter note. *)
EXTENDS Song

\* A note, and a tempo twice as fast as the first.
TwoMessages == {[kind |-> "note", val |-> 0], [kind |-> "tempo", val |-> 250000]}
=============================================================================
