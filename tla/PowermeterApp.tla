---------------------------- MODULE PowermeterApp ----------------------------
(***************************************************************************)
(* The power meter's data path on top of the MQTT-SN device module:        *)
(* sml_data_cb and app_publish_callback of apps/powermeter/src/uart.c,     *)
(* which share active_power and num_samples without a lock.                *)
(*                                                                         *)
(* sml_data_cb runs inside uart_rx_work_handler on the system work queue,  *)
(* app_publish_callback on the client thread of MqttsnDevice.  Nothing but *)
(* the scheduler keeps them apart, see Threads.                            *)
(***************************************************************************)
EXTENDS Threads

CONSTANT MaxSamples     \* bound: num_samples saturates here

ASSUME PowermeterAppAssumption == MaxSamples \in Nat \ {0}

VARIABLES active_power, \* the number of values summed up in it
          num_samples,
          averaged,     \* num_samples as app_publish_callback divided by it
          cb,           \* sml_data_cb: "idle", "count", "request"
          pub           \* app_publish_callback: "idle", "energy", "reset"

sumvars == <<active_power, num_samples>>
appvars == <<sumvars, averaged, cb, pub>>
allvars == <<vars, appvars>>

AppTypeOK ==
    /\ TypeOK
    /\ active_power \in 0 .. MaxSamples
    /\ num_samples \in 0 .. MaxSamples
    /\ averaged \in 0 .. MaxSamples
    /\ cb \in {"idle", "count", "request"}
    /\ pub \in {"idle", "energy", "reset"}

AppInit ==
    /\ Init
    /\ active_power = 0 /\ num_samples = 0
    /\ averaged = 0
    /\ cb = "idle"
    /\ pub = "idle"

OneMore(n) == IF n < MaxSamples THEN n + 1 ELSE n

-----------------------------------------------------------------------------
(* Who may run.                                                            *)

(* Mutant: the work queue is given a preemptible priority.                 *)
ClientTurnPreempts == TRUE

(* The client thread, if both are cooperative, runs between two handlers.  *)
ClientTurn == Cooperative => cb = "idle" /\ wdpc = "idle"

-----------------------------------------------------------------------------
(* sml_data_cb.                                                            *)

(* active_power += new_active_power.                                       *)
SampleAdd ==
    /\ cb = "idle" /\ wdpc = "idle" /\ WqTurn
    /\ active_power' = OneMore(active_power)
    /\ cb' = "count"
    /\ UNCHANGED <<vars, num_samples, averaged, pub>>

(* Mutant: num_samples grows without limit.                                *)
SampleCountOverflows ==
    /\ cb = "count" /\ WqTurn
    /\ num_samples' = num_samples + 1
    /\ cb' = "request"
    /\ UNCHANGED <<vars, active_power, averaged, pub>>

(* num_samples++.                                                          *)
SampleCount ==
    /\ cb = "count" /\ WqTurn
    /\ num_samples' = OneMore(num_samples)
    /\ cb' = "request"
    /\ UNCHANGED <<vars, active_power, averaged, pub>>

(* Mutant: only the first sample of an average asks for a publish.         *)
SampleRequestOnce ==
    /\ cb = "request" /\ WqTurn
    /\ IF num_samples = 1 THEN SchedulePublish ELSE UNCHANGED vars
    /\ cb' = "idle"
    /\ UNCHANGED <<sumvars, averaged, pub>>

SampleRequest ==
    /\ cb = "request" /\ WqTurn
    /\ SchedulePublish
    /\ cb' = "idle"
    /\ UNCHANGED <<sumvars, averaged, pub>>

Sample == SampleAdd \/ SampleCount \/ SampleRequest

-----------------------------------------------------------------------------
(* app_publish_callback.                                                   *)

(* The average is computed and the client library takes the message.       *)
PublishPower ==
    /\ thread = "publish" /\ pub = "idle" /\ ClientTurn
    /\ averaged' = num_samples
    /\ pub' = "energy"
    /\ UNCHANGED <<vars, sumvars, cb>>

PublishPowerFails ==
    /\ pub = "idle" /\ ClientTurn
    /\ PublishFails
    /\ UNCHANGED appvars

PublishEnergy ==
    /\ pub = "energy" /\ ClientTurn
    /\ pub' = "reset"
    /\ UNCHANGED <<vars, sumvars, averaged, cb>>

(* The sum stays as it is, although its average was published: the next    *)
(* average counts these samples again.                                     *)
PublishEnergyFails ==
    /\ pub = "energy" /\ ClientTurn
    /\ PublishFails
    /\ averaged' = 0
    /\ pub' = "idle"
    /\ UNCHANGED <<sumvars, cb>>

PublishReset ==
    /\ pub = "reset" /\ ClientTurn
    /\ PublishOk
    /\ active_power' = 0 /\ num_samples' = 0
    /\ averaged' = 0
    /\ pub' = "idle"
    /\ UNCHANGED cb

Publish ==
    \/ PublishPower \/ PublishPowerFails \/ PublishEnergy \/ PublishEnergyFails
    \/ PublishReset

-----------------------------------------------------------------------------
(* The rest of the device.                                                 *)

Client == ClientTurn /\ ClientStep /\ UNCHANGED appvars

(* The work queue runs one handler at a time.                              *)
WqOthers ==
    /\ cb = "idle" /\ WqTurn
    /\ Watchdog \/ (wdpc = "idle" /\ KeepAliveLost)
    /\ UNCHANGED appvars

Others ==
    /\ \/ InitDevice \/ InitDeviceFails
       \/ NetConnected \/ NetReschedule \/ NetDisconnected
       \/ PacketArrives
    /\ UNCHANGED appvars

(* The chip is reset, wherever the handlers are.                           *)
AppReset ==
    /\ Reset
    /\ active_power' = 0 /\ num_samples' = 0
    /\ averaged' = 0
    /\ cb' = "idle"
    /\ pub' = "idle"

AppNext == Sample \/ Publish \/ Client \/ WqOthers \/ Others \/ AppReset

AppSpec == AppInit /\ [][AppNext]_allvars

-----------------------------------------------------------------------------
(* Properties.                                                             *)

(* The average app_publish_callback has computed is one: it has not divided*)
(* by num_samples = 0, nor between the two updates of sml_data_cb, when    *)
(* active_power holds a value that num_samples does not count yet.         *)
AverageIsWhole == pub # "idle" => averaged > 0 /\ active_power = averaged

(* What app_publish_callback resets is what it has averaged: no sample     *)
(* that sml_data_cb added meanwhile is thrown away.                        *)
NoSampleDropped ==
    [][num_samples' = 0 /\ num_samples # 0 => averaged = num_samples \/ main' = "boot"]_allvars

(* Whoever takes a request out of the eventfd finds samples to publish,    *)
(* although request and samples are set by the work queue and taken by the *)
(* client thread in several steps each, some of which fail.                *)
RequestMeansSamples == eventfd > 0 => num_samples > 0

(* Every sample is in the end published: the eventfd was read before a     *)
(* publish that failed, so only the next sample asks for it again.         *)
EverySamplePublished == num_samples > 0 ~> num_samples = 0
=============================================================================
