---------------------------- MODULE MCOrchestra ----------------------------
(* Instances of Orchestra for TLC. *)
EXTENDS Orchestra, TLC

CONSTANTS c1, c2, c3

\* Connections are interchangeable: used by the runs of safety properties only.
Symmetry == Permutations(Conn)
=============================================================================
