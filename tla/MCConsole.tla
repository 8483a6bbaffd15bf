------------------------------ MODULE MCConsole ------------------------------
(* A console with a short and a long song: a hundred times 150 ticks is an   *)
(* int of 16 bits, a hundred times 400 is not.                               *)
EXTENDS Console

MCSongs == {"short", "long"}
MCLength == [s \in MCSongs |-> IF s = "short" THEN 150 ELSE 400]

OneWord == {"play", "pause", "resume", "restart", "loop", "noloop", "status",
            "quit", "reconnect", "help", "tune", "seek"}
MCLines ==
    { << Word(name) >> : name \in OneWord }
    \cup { << Word("load"), Space, Word(file) >> : file \in MCSongs \cup {"notes"} }
    \cup { << Word("seek"), Space, arg >> :
              arg \in { Percent(0), Percent(50), Percent(99), Percent(101),
                        Ticks(200), Ticks(300), Ticks(65536), Word("end") } }
    \cup { << Space, Space >>,
           << Word("seek"), Space >>,
           << Space, Word("seek"), Space, Space, Percent(99), Space >>,
           EOF }
=============================================================================
