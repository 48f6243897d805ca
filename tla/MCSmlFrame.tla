----------------------------- MODULE MCSmlFrame -----------------------------
(***************************************************************************)
(* SmlFrame with payloads of up to two words over one ordinary word and    *)
(* the escape word, every number of fill bytes from 0 to 4, and two faults *)
(* of the line per attempt.                                                *)
(***************************************************************************)
EXTENDS SmlFrame
=============================================================================
