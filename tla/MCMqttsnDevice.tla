--------------------------- MODULE MCMqttsnDevice ---------------------------
(***************************************************************************)
(* Watchdog, and with it MqttsnDevice, with two pending requests, two      *)
(* packets in the socket and two faults.  A feed interval of two lets the  *)
(* network go and come within it; the work queue may be late by one; a     *)
(* window of four is the shortest that WatchdogAssumption allows.          *)
(***************************************************************************)
EXTENDS Watchdog
=============================================================================
