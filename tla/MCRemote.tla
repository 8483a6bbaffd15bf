------------------------------ MODULE MCRemote ------------------------------
(* Two sessions: what the server sends today and one more song, and the      *)
(* commands the protocol has besides.                                        *)
EXTENDS Remote

MCScripts ==
    { << Command(NFILE, << 77, 84, 1 >>), Command(PLAY, << >>), Command(NFILE, << 77, 3 >>) >>,
      << Command(LOOP, << >>), Command(SEEK, << 0, 0, 1, 6 >>), Command(PAUSE, << >>),
         Command(RESUME, << >>), Command(NOLOOP, << >>), Command(QUIT, << >>) >> }
=============================================================================
