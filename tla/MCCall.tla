------------------------------- MODULE MCCall -------------------------------
(* Two calls of one room, each with the same small set of tracks.          *)
EXTENDS Call
=============================================================================
