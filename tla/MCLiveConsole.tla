--------------------------- MODULE MCLiveConsole ---------------------------
(***************************************************************************)
(* Names for an instance of LiveConsole.                                   *)
(***************************************************************************)
EXTENDS LiveConsole

CONSTANTS w1, w2, s1, s2, p1
=============================================================================
