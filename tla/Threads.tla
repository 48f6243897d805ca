------------------------------ MODULE Threads -------------------------------
(***************************************************************************)
(* Who may run when: what the applications assume of Zephyr's scheduler.   *)
(*                                                                         *)
(* The client thread of MqttsnDevice calls back into the application,      *)
(* whose own code runs on the system work queue or on the main thread.     *)
(* They share static variables without a lock.  The client thread's        *)
(* default priority -1 (modules/mqttsndev/Kconfig) and the work queue's    *)
(* are both cooperative: one gets its turn only when the other sleeps or   *)
(* waits.  The main thread is preemptible: both may interrupt it anywhere. *)
(***************************************************************************)
EXTENDS MqttsnDevice

CONSTANT Cooperative    \* client thread and work queue have these priorities

ASSUME ThreadsAssumption == Cooperative \in BOOLEAN

(* Where the client thread sleeps, waits or has not started.               *)
Waiting == {"none", "start", "connect", "sleep", "poll", "wait"}

(* Mutant: the client thread is given a preemptible priority.              *)
WqTurnPreempts == TRUE

(* Others run only while the client thread does not.                       *)
WqTurn == Cooperative => thread \in Waiting

(* The main thread runs while neither of the others does.                  *)
MainTurn == Cooperative => thread \in Waiting /\ wdpc = "idle"

(* What is left when the application and its main thread are taken away.   *)
Network == NetConnected \/ NetReschedule \/ NetDisconnected \/ PacketArrives

devvars == <<netvars, wdvars, mqttvars, eventfd>>
=============================================================================
