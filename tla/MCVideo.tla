------------------------------- MODULE MCVideo -------------------------------
(* Two displays, one of them followed, so that either can hold the writer   *)
(* up while the other goes on; two frames, so that the second can overtake  *)
(* or tear the first.                                                       *)
EXTENDS Video

CONSTANTS d1, d2

MCDisplays  == {d1, d2}
MCFollowed  == {d1}
MCMaxFrames == 2
=============================================================================
