-------------------------- MODULE MCStartSequence --------------------------
(***************************************************************************)
(* StartSequence on the three bytes its automaton can tell apart: 1B, 01   *)
(* and any other.                                                          *)
(***************************************************************************)
EXTENDS StartSequence
=============================================================================
