------------------------------ MODULE MCOutput ------------------------------
(***************************************************************************)
(* Two ranks, an output at every other step, four steps and three starts:  *)
(* enough to be stopped, or to die, in a run that is already continued.    *)
(* Continued times are checked up to the duration of the run.              *)
(***************************************************************************)
EXTENDS Output
=============================================================================
