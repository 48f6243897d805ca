--------------------------- MODULE MCApplications ---------------------------
(***************************************************************************)
(* The applications with cooperative threads.  One pending request and one *)
(* packet are enough for the races of MqttsnDevice's run; three samples    *)
(* leave room for some to arrive before and during a publish and for one   *)
(* after it failed; one fault may strike anywhere.  Two topics and two     *)
(* readings tell torn snapshots from whole ones.                           *)
(***************************************************************************)
EXTENDS Applications
=============================================================================
