------------------------------- MODULE MCNim -------------------------------
(***************************************************************************)
(* Constants for the run on Nim: two handlers in one process and one in    *)
(* the other.                                                              *)
(***************************************************************************)
EXTENDS Nim

MCProcessOf == <<"api", "api", "bot">>
MCAsks      == <<{"k", "l"}, {"k"}, {"k"}>>
MCDelays    == <<{0, 1}>>
=============================================================================
