------------------------- MODULE ApplicationsProofs -------------------------
(***************************************************************************)
(* Theorems about the three applications, for any number of readings and   *)
(* topics and any bound on samples, requests, packets and faults: about    *)
(* the power meter's shared sum, with cooperative threads; about the       *)
(* values of the sensors; and that what was proved of the device module    *)
(* alone (MqttsnDeviceProofs, which also brings in Watchdog, of which      *)
(* nothing is used here) holds under every application.                    *)
(***************************************************************************)
EXTENDS Applications, MqttsnDeviceProofs

(* Who is in the middle of what: sml_data_cb and app_publish_callback      *)
(* never both.                                                             *)
TurnInv ==
    /\ cb \in {"idle", "count", "request"}
    /\ cb # "idle" => thread \in Waiting
    /\ pub # "idle" => thread = "publish"
    /\ ~started => thread = "none"

(* What num_samples is at each of these points.                            *)
CountInv ==
    /\ num_samples \in 0 .. MaxSamples
    /\ eventfd \in Int
    /\ eventfd > 0 => num_samples > 0
    /\ cb = "request" => num_samples > 0
    /\ thread = "publish" => num_samples > 0 /\ eventfd <= 0
    /\ pub # "idle" => averaged = num_samples

(* active_power is ahead of num_samples only inside sml_data_cb.           *)
SumInv ==
    active_power = (IF cb = "count" THEN OneMore(num_samples) ELSE num_samples)

IInv == TurnInv /\ CountInv /\ SumInv

-----------------------------------------------------------------------------
(* What the steps of MqttsnDevice do to the variables of IInv.             *)

(* A client step takes a request only in order to publish.                 *)
LEMMA ClientStepFacts ==
    ASSUME ClientStep
    PROVE  /\ thread \notin {"publish", "none"}
           /\ started' = started
           /\ \/ eventfd' = eventfd /\ thread' # "publish"
              \/ eventfd > 0 /\ eventfd' = 0 /\ thread' = "publish"
<1> USE DEF netvars, wdvars, ThreadGoto
<1>1. CASE StartClient \/ StartClientFails \/ CheckConnected
  BY <1>1 DEF StartClient, StartClientFails, CheckConnected
<1>2. CASE Connect \/ ConnectFails \/ Wake
  BY <1>2 DEF Connect, ConnectFails, Wake
<1>3. CASE ConnectInput \/ WorkInput
  BY <1>3 DEF ConnectInput, WorkInput, Input
<1>4. CASE Poll \/ PollFails
  BY <1>4 DEF Poll, PollFails
<1>5. CASE ReadRequest
  BY <1>5 DEF ReadRequest
<1>6. CASE Deinit \/ Retry
  BY <1>6 DEF Deinit, Retry
<1> QED
  BY <1>1, <1>2, <1>3, <1>4, <1>5, <1>6 DEF ClientStep

(* The other work items touch neither the client thread nor the eventfd.   *)
LEMMA WqOthersFacts ==
    ASSUME WqOthers
    PROVE  UNCHANGED <<thread, started, eventfd, main>>
BY DEF WqOthers, Watchdog, WatchdogWork, WatchdogFeed, WatchdogSubmit, KeepAliveLost,
       netvars, wdvars, mqttvars

(* The client thread starts once; the eventfd is created empty.            *)
LEMMA OthersFacts ==
    ASSUME Others
    PROVE  /\ eventfd' \in {eventfd, 0}
           /\ \/ thread' = thread /\ (started' = started \/ started')
              \/ ~started /\ started' /\ thread' = "start"
<1> USE DEF netvars, wdvars, mqttvars
<1>1. CASE InitDevice \/ InitDeviceFails
  BY <1>1 DEF InitDevice, InitDeviceFails
<1>2. CASE NetConnected
  BY <1>2 DEF NetConnected
<1>3. CASE NetReschedule \/ NetDisconnected \/ PacketArrives
  BY <1>3 DEF NetReschedule, NetDisconnected, PacketArrives
<1> QED
  BY <1>1, <1>2, <1>3 DEF Others

-----------------------------------------------------------------------------
(* Cooperative threads stay out of each other's callbacks.                 *)
LEMMA TurnInvInductive ==
    ASSUME Cooperative = TRUE
    PROVE  /\ AppInit => TurnInv
           /\ TurnInv /\ [AppNext]_allvars => TurnInv'
<1>1. AppInit => TurnInv
  BY DEF AppInit, Init, TurnInv
<1>2. ASSUME TurnInv, [AppNext]_allvars PROVE TurnInv'
  <2> USE <1>2 DEF TurnInv, Waiting
  <2>1. CASE Sample
    BY <2>1 DEF Sample, SampleAdd, SampleCount, SampleRequest, SchedulePublish, WqTurn,
         vars, netvars, mqttvars
  <2>2. CASE PublishPower \/ PublishEnergy
    BY <2>2 DEF PublishPower, PublishEnergy, ClientTurn, vars, netvars, mqttvars
  <2>3. CASE PublishPowerFails \/ PublishEnergyFails \/ PublishReset
    BY <2>3 DEF PublishPowerFails, PublishEnergyFails, PublishReset, PublishFails,
         PublishOk, ClientTurn, ThreadGoto, appvars, netvars
  <2>4. CASE Client
    <3>1. cb = "idle" /\ UNCHANGED <<cb, pub>>
      BY <2>4 DEF Client, ClientTurn, appvars
    <3> QED
      BY <2>4, <3>1, ClientStepFacts DEF Client
  <2>5. CASE WqOthers
    <3>1. UNCHANGED <<cb, pub>>
      BY <2>5 DEF WqOthers, appvars
    <3> QED
      BY <2>5, <3>1, WqOthersFacts
  <2>6. CASE Others
    <3>1. UNCHANGED <<cb, pub>>
      BY <2>6 DEF Others, appvars
    <3> QED
      BY <2>6, <3>1, OthersFacts
  <2>7. CASE AppReset
    BY <2>7 DEF AppReset, Reset
  <2>8. CASE UNCHANGED allvars
    BY <2>8 DEF allvars, vars, appvars, netvars, mqttvars
  <2> QED
    BY <2>1, <2>2, <2>3, <2>4, <2>5, <2>6, <2>7, <2>8 DEF AppNext, Publish
<1> QED
  BY <1>1, <1>2

(* num_samples keeps its relation to requests and callbacks.               *)
LEMMA CountInvInductive ==
    ASSUME Cooperative = TRUE
    PROVE  /\ AppInit => CountInv
           /\ TurnInv /\ CountInv /\ [AppNext]_allvars => CountInv'
<1> USE PowermeterAppAssumption, MqttsnDeviceAssumption
<1>1. AppInit => CountInv
  BY DEF AppInit, Init, CountInv
<1>2. ASSUME TurnInv, CountInv, [AppNext]_allvars PROVE CountInv'
  <2> USE <1>2 DEF CountInv
  <2>1. CASE SampleAdd
    BY <2>1 DEF SampleAdd, vars, mqttvars
  <2>2. CASE SampleCount
    <3>1. /\ cb' = "request" /\ UNCHANGED <<eventfd, thread, averaged, pub>>
          /\ num_samples' = OneMore(num_samples) /\ cb = "count"
      BY <2>2 DEF SampleCount, vars, mqttvars
    <3>2. OneMore(num_samples) \in 1 .. MaxSamples
      BY DEF OneMore
    <3>3. pub = "idle"
      BY <3>1 DEF TurnInv, Waiting
    <3> QED
      BY <3>1, <3>2, <3>3
  <2>3. CASE SampleRequest
    <3>1. /\ cb = "request" /\ cb' = "idle"
          /\ UNCHANGED <<thread, num_samples, averaged, pub>>
          /\ eventfd' \in Int
      BY <2>3 DEF SampleRequest, SchedulePublish, mqttvars, sumvars
    <3>2. thread # "publish"
      BY <3>1 DEF TurnInv, Waiting
    <3> QED
      BY <3>1, <3>2
  <2>4. CASE PublishPower \/ PublishEnergy
    BY <2>4 DEF PublishPower, PublishEnergy, vars, mqttvars, sumvars
  <2>5. CASE PublishPowerFails \/ PublishEnergyFails
    BY <2>5 DEF PublishPowerFails, PublishEnergyFails, PublishFails, ThreadGoto,
         appvars, sumvars
  <2>6. CASE PublishReset
    <3>1. /\ cb = "idle" /\ cb' = "idle" /\ pub' = "idle"
          /\ thread = "publish" /\ thread' = "check"
          /\ eventfd' = eventfd /\ num_samples' = 0
      BY <2>6 DEF PublishReset, PublishOk, ClientTurn, ThreadGoto
    <3> QED
      BY <3>1
  <2>7. CASE Client
    <3>1. UNCHANGED <<num_samples, averaged, cb, pub>>
      BY <2>7 DEF Client, appvars, sumvars
    <3> QED
      BY <2>7, <3>1, ClientStepFacts DEF Client
  <2>8. CASE WqOthers
    <3>1. UNCHANGED <<num_samples, averaged, cb, pub>>
      BY <2>8 DEF WqOthers, appvars, sumvars
    <3> QED
      BY <2>8, <3>1, WqOthersFacts
  <2>9. CASE Others
    <3>1. UNCHANGED <<num_samples, averaged, cb, pub>>
      BY <2>9 DEF Others, appvars, sumvars
    <3> QED
      BY <2>9, <3>1, OthersFacts
  <2>10. CASE AppReset
    BY <2>10 DEF AppReset, Reset
  <2>11. CASE UNCHANGED allvars
    BY <2>11 DEF allvars, vars, mqttvars, appvars, sumvars
  <2> QED
    BY <2>1, <2>2, <2>3, <2>4, <2>5, <2>6, <2>7, <2>8, <2>9, <2>10, <2>11
       DEF AppNext, Sample, Publish
<1> QED
  BY <1>1, <1>2

(* active_power keeps up with num_samples.                                 *)
LEMMA SumInvInductive ==
    ASSUME Cooperative = TRUE
    PROVE  /\ AppInit => SumInv
           /\ IInv /\ [AppNext]_allvars => SumInv'
<1>1. AppInit => SumInv
  BY DEF AppInit, SumInv
<1>2. ASSUME IInv, [AppNext]_allvars PROVE SumInv'
  <2> USE <1>2 DEF IInv, SumInv
  <2>1. CASE SampleAdd
    BY <2>1 DEF SampleAdd
  <2>2. CASE SampleCount
    BY <2>2 DEF SampleCount
  <2>3. CASE SampleRequest
    BY <2>3 DEF SampleRequest, sumvars
  <2>4. CASE PublishReset
    BY <2>4 DEF PublishReset, ClientTurn
  <2>5. CASE AppReset
    BY <2>5 DEF AppReset
  <2>6. CASE UNCHANGED <<sumvars, cb>>
    BY <2>6 DEF sumvars
  <2>7. CASE PublishPower \/ PublishPowerFails \/ PublishEnergy \/ PublishEnergyFails
    BY <2>6, <2>7 DEF PublishPower, PublishPowerFails, PublishEnergy,
         PublishEnergyFails, appvars
  <2>8. CASE Client \/ WqOthers \/ Others
    BY <2>6, <2>8 DEF Client, WqOthers, Others, appvars
  <2>9. CASE UNCHANGED allvars
    BY <2>6, <2>9 DEF allvars, appvars
  <2> QED
    BY <2>1, <2>2, <2>3, <2>4, <2>5, <2>7, <2>8, <2>9 DEF AppNext, Sample, Publish
<1> QED
  BY <1>1, <1>2

(* IInv holds throughout, if both threads are cooperative.                 *)
LEMMA Inductive ==
    ASSUME Cooperative = TRUE
    PROVE  AppSpec => []IInv
<1>1. AppInit => IInv
  BY TurnInvInductive, CountInvInductive, SumInvInductive DEF IInv
<1>2. IInv /\ [AppNext]_allvars => IInv'
  BY TurnInvInductive, CountInvInductive, SumInvInductive DEF IInv
<1> QED
  BY <1>1, <1>2, PTL DEF AppSpec

(* The divisor is never 0 and the sum never torn.  That both threads are   *)
(* cooperative is necessary: with a preemptible one TLC finds a division   *)
(* by zero.                                                                *)
THEOREM AverageNeverTorn ==
    ASSUME Cooperative = TRUE
    PROVE  AppSpec => []AverageIsWhole
<1>1. ASSUME IInv PROVE AverageIsWhole
  <2> SUFFICES ASSUME pub # "idle" PROVE averaged > 0 /\ active_power = averaged
    BY DEF AverageIsWhole
  <2>1. thread = "publish" /\ cb = "idle"
    BY <1>1 DEF IInv, TurnInv, Waiting
  <2> QED
    BY <1>1, <2>1 DEF IInv, CountInv, SumInv
<1> QED
  BY <1>1, Inductive, PTL

(* A request never arrives at the client thread without samples.           *)
THEOREM RequestHasSamples ==
    ASSUME Cooperative = TRUE
    PROVE  AppSpec => []RequestMeansSamples
<1>1. IInv => RequestMeansSamples
  BY DEF IInv, CountInv, RequestMeansSamples
<1> QED
  BY <1>1, Inductive, PTL

(* app_publish_callback resets exactly what it averaged.                   *)
THEOREM SamplesNeverDropped ==
    ASSUME Cooperative = TRUE
    PROVE  AppSpec => NoSampleDropped
<1>1. ASSUME IInv, [AppNext]_allvars, num_samples' = 0, num_samples # 0
      PROVE  averaged = num_samples \/ main' = "boot"
  <2>1. CASE Sample
    <3>1. num_samples' \in {num_samples, OneMore(num_samples)}
      BY <2>1 DEF Sample, SampleAdd, SampleCount, SampleRequest, sumvars
    <3>2. num_samples \in Nat /\ OneMore(num_samples) # 0
      BY <1>1, PowermeterAppAssumption DEF IInv, CountInv, OneMore
    <3> QED
      BY <1>1, <3>1, <3>2
  <2>2. CASE PublishReset
    BY <1>1, <2>2 DEF PublishReset, IInv, CountInv
  <2>3. CASE AppReset
    BY <2>3 DEF AppReset, Reset
  <2>4. num_samples' # num_samples
    BY <1>1
  <2> QED
    BY <1>1, <2>1, <2>2, <2>3, <2>4
       DEF AppNext, Publish, PublishPower, PublishPowerFails, PublishEnergy,
           PublishEnergyFails, Client, WqOthers, Others, allvars, appvars, sumvars
<1>2. IInv /\ [AppNext]_allvars =>
          [num_samples' = 0 /\ num_samples # 0 =>
             averaged = num_samples \/ main' = "boot"]_allvars
  BY <1>1
<1> QED
  BY <1>2, Inductive, PTL DEF AppSpec, NoSampleDropped

-----------------------------------------------------------------------------
(* The sensors.                                                            *)

SensorVarsOK == SensorTypeOK /\ raw_message \in Readings \union {"bad"}

DeviceOK == eventfd \in -1 .. MaxRequests /\ (~started => thread = "none")

(* The variables of an application that is not on the device.              *)
OthersIdle ==
    /\ firmware = "powermeter" => values = sent
    /\ firmware # "pms5003" => pmsmain = "boot"
    /\ firmware # "co2sensor" => co2main = "boot"

(* Nothing is measured before mqttsndev_init, and nothing received before  *)
(* rx_work_handler is done with the packet.                                *)
BootInv ==
    /\ pmsmain = "boot" => uart = "off" /\ rx_work = "idle"
    /\ rx_work # "idle" => uart = "off"
    /\ main = "boot" => /\ values = sent
                        /\ pmsmain = "boot"
                        /\ co2main \in {"boot", "init", "failed"}

(* A value the present publish has sent was changed since only if another  *)
(* request follows.                                                        *)
SentInv ==
    /\ thread # "publish" => topic = 0
    /\ \A t \in 1 .. topic : sent[t] # values[t] => AboutToRequest \/ eventfd # 0

ServeInv == DeviceOK /\ SentInv /\ NothingForgotten

IInvApps ==
    /\ SensorVarsOK /\ OthersIdle /\ BootInv
    /\ firmware # "powermeter" => ServeInv

-----------------------------------------------------------------------------
(* What the steps of MqttsnDevice do to the variables of ServeInv.         *)

LEMMA ClientStepKeepsMain == ClientStep => main' = main
<1> USE DEF netvars
<1>1. ASSUME ClientStep PROVE main' = main
  BY <1>1 DEF ClientStep, StartClient, StartClientFails, CheckConnected, Connect,
     ConnectFails, Wake, ConnectInput, WorkInput, Input, Poll, PollFails,
     ReadRequest, Deinit, Retry
<1> QED
  BY <1>1

(* Neither network nor work queue touch requests, and they start the       *)
(* client thread but once.                                                 *)
LEMMA NetworkFacts ==
    ASSUME Network \/ Watchdog \/ KeepAliveLost
    PROVE  /\ UNCHANGED <<main, eventfd>>
           /\ \/ thread' = thread /\ (started' = started \/ started')
              \/ ~started /\ started' /\ thread' = "start"
BY DEF Network, NetConnected, NetReschedule, NetDisconnected, PacketArrives,
       KeepAliveLost, Watchdog, WatchdogWork, WatchdogFeed, WatchdogSubmit,
       netvars, wdvars, mqttvars

LEMMA InitFacts ==
    ASSUME InitDevice \/ InitDeviceFails
    PROVE  /\ main = "boot" /\ main' # "boot"
           /\ eventfd' \in {eventfd, 0}
           /\ UNCHANGED <<thread, started>>
BY DEF InitDevice, InitDeviceFails, mqttvars

-----------------------------------------------------------------------------
(* The kinds of step the two sensors have, as their shared variables see   *)
(* them: Device leaves the sensor's variables alone.                       *)
Device ==
    /\ UNCHANGED sensorvars
    /\ AboutToRequest' = AboutToRequest
    /\ \/ UNCHANGED <<main, eventfd, thread, started>>
       \/ ClientStep
       \/ Network \/ Watchdog \/ KeepAliveLost
       \/ main = "boot" /\ (InitDevice \/ InitDeviceFails)

Measured ==
    /\ \E r \in Readings : Measure(r)
    /\ AboutToRequest'
    /\ UNCHANGED <<main, eventfd, thread, started>>

Assigning == AssignNext /\ AboutToRequest /\ AboutToRequest'

Requested == Request /\ AboutToRequest

Publishing == SensorPublish /\ AboutToRequest' = AboutToRequest

(* The chip is reset.                                                      *)
Restarted == Reset /\ SensorReset

LEMMA PmsKinds ==
    ASSUME Particles, PmsNext, SensorVarsOK, OthersIdle, BootInv
    PROVE  Device \/ Measured \/ Assigning \/ Requested \/ Publishing \/ Restarted
<1>1. co2main' = co2main /\ co2main = "boot"
  BY DEF Particles, OthersIdle
<1> USE <1>1 DEF AboutToRequest
<1>2. CASE PmsMain \/ RxError \/ RxDisabled \/ RestartRx
  BY <1>2 DEF PmsMain, RxError, RxDisabled, RestartRx, BootInv, Device, devvars,
     netvars, mqttvars
<1>3. CASE \E m \in Readings \union {"bad"} : RxReady(m)
  BY <1>3 DEF RxReady, Device, vars, netvars, mqttvars
<1>4. CASE Parse
  <2>1. CASE raw_message = "bad"
    BY <1>4, <2>1 DEF Parse, Device, vars, netvars, mqttvars
  <2>2. CASE raw_message # "bad"
    BY <1>4, <2>2 DEF Parse, Measured, SensorVarsOK, vars, netvars, mqttvars
  <2> QED
    BY <2>1, <2>2
<1>5. CASE Copy
  BY <1>5 DEF Copy, Assigning, pmsvars
<1>6. CASE RequestPacket
  BY <1>6 DEF RequestPacket, Requested
<1>7. CASE PmsClient
  BY <1>7 DEF PmsClient, Publishing, Device, pmsvars
<1>8. CASE PmsWatchdog
  BY <1>8 DEF PmsWatchdog, Device, pmsvars
<1>9. CASE PmsDevice
  BY <1>9 DEF PmsDevice, Device, pmsvars, InitDevice, InitDeviceFails
<1>10. CASE PmsReset
  BY <1>10 DEF PmsReset, Restarted
<1> QED
  BY <1>2, <1>3, <1>4, <1>5, <1>6, <1>7, <1>8, <1>9, <1>10 DEF PmsNext, RxWork

LEMMA Co2Kinds ==
    ASSUME Co2, Co2Next, OthersIdle, BootInv
    PROVE  Device \/ Measured \/ Assigning \/ Requested \/ Publishing \/ Restarted
<1>1. rx_work' = rx_work /\ rx_work # "copy"
  BY DEF Co2, OthersIdle, BootInv, pmsvars
<1> USE <1>1 DEF AboutToRequest
<1>2. CASE InitModbus \/ ReadRegistersFails \/ NextReading
  BY <1>2 DEF InitModbus, ReadRegistersFails, NextReading, Device, devvars, vars,
     netvars, mqttvars
<1>3. CASE Co2InitDevice
  BY <1>3 DEF Co2InitDevice, Device, InitDevice, InitDeviceFails
<1>4. CASE ReadRegisters
  BY <1>4 DEF ReadRegisters, Measured, vars, netvars, mqttvars
<1>5. CASE AssignRegister
  BY <1>5 DEF AssignRegister, Assigning
<1>6. CASE RequestRegisters
  BY <1>6 DEF RequestRegisters, Requested
<1>7. CASE Co2Client
  BY <1>7 DEF Co2Client, Publishing, Device
<1>8. CASE Co2Watchdog \/ Co2Network
  BY <1>8 DEF Co2Watchdog, Co2Network, Device
<1>9. CASE Co2Reset
  BY <1>9 DEF Co2Reset, Restarted
<1> QED
  BY <1>2, <1>3, <1>4, <1>5, <1>6, <1>7, <1>8, <1>9 DEF Co2Next, Co2Main

LEMMA NothingFacts ==
    /\ Nothing \in [1 .. Topics -> Reading]
    /\ 0 \in 0 .. Topics
<1>1. "nothing" \in Reading
  BY DEF Reading
<1> QED
  BY <1>1, SensorAssumption DEF Nothing

(* Every kind of step of the sensors preserves every part of ServeInv.     *)
LEMMA SensorVarsInductive ==
    /\ AppsInit => SensorVarsOK
    /\ SensorVarsOK /\ OthersIdle /\ BootInv /\ [AppsNext]_apps => SensorVarsOK'
<1> USE SensorAssumption DEF SensorVarsOK, SensorTypeOK
<1>1. AppsInit => SensorVarsOK
  BY NothingFacts DEF AppsInit, SensorInit, PmsInit, Reading
<1>2. ASSUME SensorVarsOK, OthersIdle, BootInv, [AppsNext]_apps PROVE SensorVarsOK'
  <2> USE <1>2
  <2>1. raw_message' \in Readings \union {"bad"}
    <3>1. CASE Particles /\ PmsNext
      BY <3>1 DEF PmsNext, PmsMain, RxReady, RxError, RxDisabled, RxWork, Parse, Copy,
         RequestPacket, RestartRx, PmsClient, PmsWatchdog, PmsDevice, PmsReset, pmsvars
    <3>2. CASE UNCHANGED pmsvars
      BY <3>2 DEF pmsvars
    <3> QED
      BY <3>1, <3>2 DEF AppsNext, Powermeter, Co2, othervars, apps
  <2>2. CASE UNCHANGED sensorvars
    BY <2>1, <2>2 DEF sensorvars
  <2>3. CASE Measured
    BY <2>1, <2>3 DEF Measured, Measure, Reading
  <2>4. CASE Assigning
    BY <2>1, <2>4 DEF Assigning, AssignNext, Assigned
  <2>5. CASE Requested
    BY <2>1, <2>5 DEF Requested, Request, Reading
  <2>6. CASE Publishing
    <3>1. CASE PublishTopic
      <4>1. topic + 1 \in 0 .. Topics /\ topic + 1 \in 1 .. Topics
        BY <3>1 DEF PublishTopic
      <4> QED
        BY <2>1, <3>1, <4>1 DEF PublishTopic
    <3>2. CASE PublishTopicFails \/ PublishedAll
      BY <2>1, <3>2, NothingFacts DEF PublishTopicFails, PublishedAll
    <3> QED
      BY <2>6, <3>1, <3>2 DEF Publishing, SensorPublish
  <2>7. CASE Restarted
    BY <2>1, <2>7, NothingFacts DEF Restarted, SensorReset, Reading
  <2> QED
    BY <2>2, <2>3, <2>4, <2>5, <2>6, <2>7, PmsKinds, Co2Kinds
       DEF AppsNext, Powermeter, othervars, apps, Device
<1> QED
  BY <1>1, <1>2

LEMMA OthersIdleInductive ==
    /\ AppsInit => OthersIdle
    /\ OthersIdle /\ [AppsNext]_apps => OthersIdle'
<1>1. AppsInit => OthersIdle
  BY DEF AppsInit, SensorInit, PmsInit, Co2Init, OthersIdle
<1>2. ASSUME OthersIdle, [AppsNext]_apps PROVE OthersIdle'
  BY <1>2 DEF OthersIdle, AppsNext, Powermeter, Particles, Co2, othervars, apps,
     pmsvars, sensorvars
<1> QED
  BY <1>1, <1>2

(* The publish callback keeps main, and what is equal.                     *)
LEMMA SensorPublishFacts ==
    ASSUME SensorVarsOK, SensorPublish
    PROVE  main' = main /\ (values = sent => values' = sent')
<1>1. CASE PublishTopic
  <2>1. main' = main /\ values' = values
    BY <1>1 DEF PublishTopic, vars, netvars
  <2>2. ASSUME values = sent PROVE sent' = values
    BY <1>1, <2>2 DEF PublishTopic, SensorVarsOK, SensorTypeOK
  <2> QED
    BY <2>1, <2>2
<1>2. CASE PublishTopicFails \/ PublishedAll
  BY <1>2 DEF PublishTopicFails, PublishedAll, PublishFails, PublishOk, netvars
<1> QED
  BY <1>1, <1>2 DEF SensorPublish

LEMMA BootInvInductive ==
    /\ AppsInit => BootInv
    /\ SensorVarsOK /\ OthersIdle /\ BootInv /\ [AppsNext]_apps => BootInv'
<1>1. AppsInit => BootInv
  BY DEF AppsInit, AppInit, Init, SensorInit, PmsInit, Co2Init, BootInv
<1>2. ASSUME SensorVarsOK, OthersIdle, BootInv, [AppsNext]_apps PROVE BootInv'
  <2> USE <1>2 DEF BootInv
  <2>1. CASE UNCHANGED othervars /\ firmware = "powermeter"
    BY <2>1 DEF OthersIdle, othervars, pmsvars, sensorvars
  <2>2. CASE Particles /\ PmsNext
    <3> USE DEF StartRx
    <3>1. co2main' = co2main /\ co2main = "boot"
      BY <2>2 DEF Particles, OthersIdle
    <3> USE <3>1
    <3>2. CASE PmsMain \/ RxError \/ RxDisabled \/ RestartRx
      BY <3>2 DEF PmsMain, RxError, RxDisabled, RestartRx, devvars, netvars, sensorvars
    <3>3. CASE \E m \in Readings \union {"bad"} : RxReady(m)
      BY <3>3 DEF RxReady, vars, netvars, sensorvars
    <3>4. CASE Parse \/ Copy \/ RequestPacket
      BY <3>4 DEF Parse, Copy, RequestPacket, AssignNext, Request, SchedulePublish,
         pmsvars, vars, netvars
    <3>5. CASE PmsClient
      BY <3>5, SensorPublishFacts, ClientStepKeepsMain DEF PmsClient, pmsvars, sensorvars
    <3>6. CASE PmsWatchdog
      BY <3>6, NetworkFacts DEF PmsWatchdog, pmsvars, sensorvars
    <3>7. CASE PmsDevice
      BY <3>7, NetworkFacts, InitFacts DEF PmsDevice, pmsvars, sensorvars
    <3>8. CASE PmsReset
      BY <3>8 DEF PmsReset, SensorReset
    <3> QED
      BY <2>2, <3>2, <3>3, <3>4, <3>5, <3>6, <3>7, <3>8 DEF PmsNext, RxWork
  <2>3. CASE Co2 /\ Co2Next
    <3>1. UNCHANGED pmsvars
      BY <2>3 DEF Co2
    <3> USE <3>1 DEF pmsvars
    <3>2. CASE InitModbus \/ ReadRegistersFails \/ NextReading
      BY <3>2 DEF InitModbus, ReadRegistersFails, NextReading, devvars, vars, netvars,
         sensorvars
    <3>3. CASE Co2InitDevice
      BY <3>3, InitFacts DEF Co2InitDevice
    <3>4. CASE ReadRegisters \/ AssignRegister \/ RequestRegisters
      BY <3>4 DEF ReadRegisters, AssignRegister, RequestRegisters, AssignNext, Request,
         SchedulePublish, vars, netvars
    <3>5. CASE Co2Client
      BY <3>5, SensorPublishFacts, ClientStepKeepsMain DEF Co2Client, sensorvars
    <3>6. CASE Co2Watchdog \/ Co2Network
      BY <3>6, NetworkFacts DEF Co2Watchdog, Co2Network, sensorvars
    <3>7. CASE Co2Reset
      BY <2>3, <3>7 DEF Co2, Co2Reset, SensorReset, OthersIdle
    <3> QED
      BY <2>3, <3>2, <3>3, <3>4, <3>5, <3>6, <3>7 DEF Co2Next, Co2Main
  <2>4. CASE UNCHANGED apps
    BY <2>4 DEF apps, allvars, vars, netvars, othervars, sensorvars, pmsvars
  <2> QED
    BY <2>1, <2>2, <2>3, <2>4 DEF AppsNext, Powermeter
<1> QED
  BY <1>1, <1>2

-----------------------------------------------------------------------------
(* Every kind of step preserves ServeInv.                                  *)

LEMMA DeviceServes ==
    ASSUME SensorVarsOK, BootInv, ServeInv, Device
    PROVE  ServeInv'
<1> USE MqttsnDeviceAssumption DEF ServeInv, DeviceOK, SentInv, NothingForgotten
<1>1. /\ UNCHANGED <<values, sent, topic, unserved>>
      /\ AboutToRequest' = AboutToRequest
  BY DEF Device, sensorvars
<1>2. CASE UNCHANGED <<main, eventfd, thread, started>>
  BY <1>1, <1>2
<1>3. CASE ClientStep
  BY <1>1, <1>3, ClientStepFacts
<1>4. CASE Network \/ Watchdog \/ KeepAliveLost
  BY <1>1, <1>4, NetworkFacts
<1>5. CASE main = "boot" /\ (InitDevice \/ InitDeviceFails)
  <2>1. values = sent
    BY <1>5 DEF BootInv
  <2> QED
    BY <1>1, <1>5, <2>1, InitFacts
<1> QED
  BY <1>2, <1>3, <1>4, <1>5 DEF Device

LEMMA MeasuredServes ==
    ASSUME SensorVarsOK, ServeInv, Measured
    PROVE  ServeInv'
BY DEF ServeInv, DeviceOK, SentInv, NothingForgotten, Measured, Measure

LEMMA AssigningServes ==
    ASSUME SensorVarsOK, ServeInv, Assigning
    PROVE  ServeInv'
BY DEF ServeInv, DeviceOK, SentInv, NothingForgotten, Assigning, AssignNext, vars,
       netvars, mqttvars

(* What is still to be published is published for this request.            *)
LEMMA RequestedServes ==
    ASSUME SensorVarsOK, ServeInv, Requested
    PROVE  ServeInv'
<1> USE MqttsnDeviceAssumption
        DEF ServeInv, DeviceOK, SentInv, NothingForgotten
<1>1. /\ UNCHANGED <<values, sent, topic, thread, started>>
      /\ eventfd' \in -1 .. MaxRequests /\ eventfd' # 0
  BY DEF Requested, Request, SchedulePublish, netvars, mqttvars
<1> QED
  BY <1>1

LEMMA PublishingServes ==
    ASSUME SensorVarsOK, ServeInv, Publishing
    PROVE  ServeInv'
<1> USE SensorAssumption
        DEF ServeInv, DeviceOK, SentInv, NothingForgotten, SensorVarsOK, SensorTypeOK
<1>1. AboutToRequest' = AboutToRequest
  BY DEF Publishing
<1>2. CASE PublishTopic
  <2>1. UNCHANGED <<eventfd, started, thread, values, unserved>> /\ thread = "publish"
    BY <1>2 DEF PublishTopic, vars, netvars, mqttvars
  <2>2. topic' = topic + 1 /\ topic \in Nat /\ topic + 1 \in 1 .. Topics
    BY <1>2 DEF PublishTopic
  <2>3. \A t \in 1 .. Topics :
            sent'[t] = IF t = topic + 1 THEN values[t] ELSE sent[t]
    BY <1>2 DEF PublishTopic
  <2>4. DeviceOK' /\ thread' = "publish"
    BY <2>1
  <2>5. ASSUME NEW t \in 1 .. topic', sent'[t] # values'[t]
        PROVE  (AboutToRequest \/ eventfd # 0)'
    <3>1. t \in 1 .. topic /\ t \in 1 .. Topics /\ sent[t] # values[t]
      BY <2>1, <2>3, <2>5, <2>2
    <3> QED
      BY <1>1, <2>1, <3>1
  <2>6. NothingForgotten'
    BY <1>1, <2>1, <2>3, <2>2
  <2> QED
    BY <2>4, <2>5, <2>6
<1>3. CASE PublishTopicFails
  BY <1>1, <1>3 DEF PublishTopicFails, PublishFails, ThreadGoto, netvars
<1>4. CASE PublishedAll
  BY <1>1, <1>4 DEF PublishedAll, PublishOk, ThreadGoto, netvars
<1> QED
  BY <1>2, <1>3, <1>4 DEF Publishing, SensorPublish

LEMMA RestartedServes ==
    ASSUME Restarted
    PROVE  ServeInv'
BY MqttsnDeviceAssumption
   DEF Restarted, Reset, SensorReset, ServeInv, DeviceOK, SentInv, NothingForgotten

LEMMA InductiveApps == AppsSpec => []IInvApps
<1>1. AppsInit => IInvApps
  BY SensorVarsInductive, OthersIdleInductive, BootInvInductive, MqttsnDeviceAssumption
     DEF IInvApps, ServeInv, DeviceOK, SentInv, NothingForgotten, AppsInit, AppInit,
         Init, SensorInit
<1>2. ASSUME IInvApps, [AppsNext]_apps PROVE IInvApps'
  <2>1. SensorVarsOK' /\ OthersIdle' /\ BootInv'
    BY <1>2, SensorVarsInductive, OthersIdleInductive, BootInvInductive DEF IInvApps
  <2>2. firmware' = firmware
    BY <1>2 DEF AppsNext, Powermeter, Particles, Co2, apps, othervars
  <2>3. ASSUME ServeInv, firmware # "powermeter" PROVE ServeInv'
    <3> USE <2>3
    <3>1. CASE Device \/ Measured \/ Assigning \/ Requested \/ Publishing \/ Restarted
      BY <1>2, <3>1, DeviceServes, MeasuredServes, AssigningServes, RequestedServes,
         PublishingServes, RestartedServes DEF IInvApps
    <3>2. CASE UNCHANGED apps
      BY <3>2 DEF apps, othervars, sensorvars, pmsvars, allvars, vars, netvars, mqttvars,
         ServeInv, DeviceOK, SentInv, NothingForgotten, AboutToRequest
    <3> QED
      BY <1>2, <3>1, <3>2, PmsKinds, Co2Kinds DEF IInvApps, AppsNext, Powermeter
  <2> QED
    BY <1>2, <2>1, <2>2, <2>3 DEF IInvApps
<1> QED
  BY <1>1, <1>2, PTL DEF AppsSpec

(* Whatever the threads' priorities, the gateway is in the end told of     *)
(* every value: no order of assignments, requests and publishes leaves one *)
(* behind without a request, a publish or a failure to account for it.     *)
THEOREM NoValueForgotten == AppsSpec => []NothingForgotten
<1>1. ASSUME IInvApps PROVE NothingForgotten
  BY <1>1 DEF IInvApps, ServeInv, OthersIdle, NothingForgotten
<1> QED
  BY <1>1, InductiveApps, PTL

-----------------------------------------------------------------------------
(* What is published comes from one reading, if the work queue and the     *)
(* client thread are cooperative.                                          *)
WholeInv ==
    /\ AboutToRequest => \A t \in 1 .. written : values[t] = reading
    /\ ~AboutToRequest => \A t \in 1 .. Topics : values[t] = values[1]

(* rx_work_handler is not interrupted by the publish callback.             *)
CopyInv == rx_work = "copy" => thread \in Waiting

LEMMA WholeInvInductive ==
    /\ AppsInit => WholeInv
    /\ IInvApps /\ WholeInv /\ [AppsNext]_apps => WholeInv'
<1> USE SensorAssumption DEF WholeInv
<1>1. AppsInit => WholeInv
  BY DEF AppsInit, SensorInit, Nothing, AboutToRequest
<1>2. ASSUME IInvApps, WholeInv, [AppsNext]_apps PROVE WholeInv'
  <2> USE <1>2 DEF IInvApps, SensorVarsOK, SensorTypeOK
  <2>1. CASE UNCHANGED sensorvars /\ AboutToRequest' = AboutToRequest
    BY <2>1 DEF sensorvars
  <2>2. CASE Measured
    BY <2>2 DEF Measured, Measure
  <2>3. CASE Assigning
    BY <2>3 DEF Assigning, AssignNext, Assigned
  <2>4. CASE Requested
    BY <2>4 DEF Requested, Request, Assigned
  <2>5. CASE Publishing
    BY <2>5 DEF Publishing, SensorPublish, PublishTopic, PublishTopicFails, PublishedAll
  <2>6. CASE Restarted
    BY <2>6 DEF Restarted, SensorReset, Nothing
  <2> QED
    BY <2>1, <2>2, <2>3, <2>4, <2>5, <2>6, PmsKinds, Co2Kinds
       DEF AppsNext, Powermeter, othervars, pmsvars, apps, Device, AboutToRequest
<1> QED
  BY <1>1, <1>2

LEMMA CopyInvInductive ==
    ASSUME Cooperative = TRUE
    PROVE  /\ AppsInit => CopyInv
           /\ OthersIdle /\ BootInv /\ CopyInv /\ [AppsNext]_apps => CopyInv'
<1> USE DEF CopyInv
<1>1. AppsInit => CopyInv
  BY DEF AppsInit, PmsInit
<1>2. ASSUME OthersIdle, BootInv, CopyInv, [AppsNext]_apps PROVE CopyInv'
  <2> USE <1>2
  <2>1. CASE UNCHANGED pmsvars /\ rx_work # "copy"
    BY <2>1 DEF pmsvars
  <2>2. CASE Particles /\ PmsNext
    <3>1. CASE PmsMain \/ RxError \/ RxDisabled \/ RestartRx
      BY <3>1 DEF PmsMain, RxError, RxDisabled, RestartRx, devvars, mqttvars
    <3>2. CASE \E m \in Readings \union {"bad"} : RxReady(m)
      BY <3>2 DEF RxReady, vars, mqttvars
    <3>3. CASE Parse \/ Copy \/ RequestPacket
      BY <3>3 DEF Parse, Copy, RequestPacket, PmsWqTurn, WqTurn, AssignNext, vars,
         mqttvars, pmsvars
    <3>4. CASE PmsClient
      BY <3>4 DEF PmsClient, PmsClientTurn, pmsvars
    <3>5. CASE PmsWatchdog
      BY <3>5 DEF PmsWatchdog, pmsvars
    <3>6. CASE PmsDevice
      BY <3>6, NetworkFacts, InitFacts DEF PmsDevice, pmsvars, Waiting
    <3>7. CASE PmsReset
      BY <3>7 DEF PmsReset
    <3> QED
      BY <2>2, <3>1, <3>2, <3>3, <3>4, <3>5, <3>6, <3>7 DEF PmsNext, RxWork
  <2>3. CASE UNCHANGED apps
    BY <2>3 DEF apps, allvars, vars, mqttvars, othervars, pmsvars
  <2> QED
    BY <2>1, <2>2, <2>3 DEF AppsNext, Powermeter, Co2, othervars, OthersIdle, BootInv
<1> QED
  BY <1>1, <1>2

(* All thirteen channels of the particle sensor come from one packet, that *)
(* the receiver does not overwrite before; the registers of the CO2 sensor *)
(* may not, while its main thread assigns them or has asked for another    *)
(* publish.                                                                *)
THEOREM SnapshotIsWhole ==
    ASSUME Cooperative = TRUE
    PROVE  AppsSpec => []PublishedWhole
<1>1. ASSUME IInvApps, WholeInv, CopyInv PROVE PublishedWhole
  <2>0. PacketKept
    BY <1>1 DEF PacketKept, IInvApps, BootInv
  <2> SUFFICES ASSUME thread = "publish", topic = Topics, co2main # "assign",
                      eventfd = 0, NEW t \in 1 .. Topics
               PROVE  sent[t] = sent[1]
    BY <2>0 DEF PublishedWhole, Whole
  <2>1. ~AboutToRequest
    BY <1>1 DEF CopyInv, Waiting, AboutToRequest
  <2>2. ASSUME firmware # "powermeter" PROVE sent[t] = values[t] /\ sent[1] = values[1]
    BY <1>1, <2>1, <2>2, SensorAssumption DEF IInvApps, ServeInv, SentInv
  <2>3. values[t] = values[1]
    BY <1>1, <2>1 DEF WholeInv
  <2> QED
    BY <1>1, <2>2, <2>3 DEF IInvApps, OthersIdle
<1>2. AppsInit => WholeInv /\ CopyInv
  BY WholeInvInductive, CopyInvInductive
<1>3. IInvApps /\ WholeInv /\ CopyInv /\ [AppsNext]_apps => WholeInv' /\ CopyInv'
  BY WholeInvInductive, CopyInvInductive DEF IInvApps
<1> QED
  BY <1>1, <1>2, <1>3, InductiveApps, PTL DEF AppsSpec

-----------------------------------------------------------------------------
(* The device module under the applications.                               *)

(* A step of the device module, or a call of the application that fails,   *)
(* which leaves all but the number of faults alone.                        *)
DeviceStep == Next \/ (UNCHANGED devvars /\ Fault)

(* The client thread with the application's publish callback.              *)
LEMMA PublishIsDeviceStep ==
    ASSUME SensorPublish
    PROVE  [Next]_vars
BY DEF SensorPublish, PublishTopic, PublishTopicFails, PublishedAll, Next, ClientThread

(* The power meter ...                                                     *)
LEMMA PowermeterOnDevice == [AppNext]_allvars => [DeviceStep]_vars
<1> USE DEF DeviceStep, Next, ClientThread, vars
<1>1. Sample => [DeviceStep]_vars
  BY DEF Sample, SampleAdd, SampleCount, SampleRequest
<1>2. Publish => [DeviceStep]_vars
  BY DEF Publish, PublishPower, PublishPowerFails, PublishEnergy, PublishEnergyFails,
     PublishReset
<1>3. Client \/ WqOthers \/ Others => [DeviceStep]_vars
  BY DEF Client, WqOthers, Others
<1>4. AppReset \/ UNCHANGED allvars => [DeviceStep]_vars
  BY DEF AppReset, allvars
<1> QED
  BY <1>1, <1>2, <1>3, <1>4 DEF AppNext

(* ... the particle sensor ...                                             *)
LEMMA ParticlesOnDevice == PmsNext => [DeviceStep]_vars
<1> USE DEF DeviceStep, NoFault, devvars, vars
<1>1. PmsMain \/ RxError \/ RxDisabled \/ RestartRx => [DeviceStep]_vars
  BY DEF PmsMain, RxError, RxDisabled, RestartRx, StartRx
<1>2. (\E m \in Readings \union {"bad"} : RxReady(m)) \/ Parse \/ Copy => [DeviceStep]_vars
  BY DEF RxReady, Parse, Copy, AssignNext
<1>3. RequestPacket => [DeviceStep]_vars
  BY DEF RequestPacket, Request, Next
<1>4. PmsClient => [DeviceStep]_vars
  BY PublishIsDeviceStep DEF PmsClient, Next, ClientThread
<1>5. PmsWatchdog \/ PmsDevice \/ PmsReset => [DeviceStep]_vars
  BY DEF PmsWatchdog, PmsDevice, PmsReset, Network, Next
<1> QED
  BY <1>1, <1>2, <1>3, <1>4, <1>5 DEF PmsNext, RxWork

(* ... and the CO2 sensor.                                                 *)
LEMMA Co2OnDevice == Co2Next => [DeviceStep]_vars
<1> USE DEF DeviceStep, NoFault, devvars, vars
<1>1. InitModbus => [DeviceStep]_vars
  BY DEF InitModbus
<1>2. Co2InitDevice \/ RequestRegisters => [DeviceStep]_vars
  BY DEF Co2InitDevice, RequestRegisters, Request, Next
<1>3. ReadRegisters \/ ReadRegistersFails \/ AssignRegister \/ NextReading => [DeviceStep]_vars
  BY DEF ReadRegisters, ReadRegistersFails, AssignRegister, AssignNext, NextReading
<1>4. Co2Client => [DeviceStep]_vars
  BY PublishIsDeviceStep DEF Co2Client, Next, ClientThread
<1>5. Co2Watchdog \/ Co2Network \/ Co2Reset => [DeviceStep]_vars
  BY DEF Co2Watchdog, Co2Network, Co2Reset, Network, Next
<1> QED
  BY <1>1, <1>2, <1>3, <1>4, <1>5 DEF Co2Next, Co2Main

(* Whatever the firmware.                                                  *)
LEMMA AppsOnDevice == [AppsNext]_apps => [DeviceStep]_vars
<1>1. AppsNext => [DeviceStep]_vars
  BY PowermeterOnDevice, ParticlesOnDevice, Co2OnDevice DEF AppsNext
<1>2. UNCHANGED apps => [DeviceStep]_vars
  BY DEF apps, allvars
<1> QED
  BY <1>1, <1>2

(* And they start where it starts.                                         *)
LEMMA AppsInitIsInit == AppsInit => Init
BY DEF AppsInit, AppInit

(* So every application is one of the device module: it changes the        *)
(* module's state by calling it, and not behind its back.                  *)
THEOREM AppsUseTheDevice == AppsSpec => Init /\ [][DeviceStep]_vars
BY AppsInitIsInit, AppsOnDevice, PTL DEF AppsSpec

(* The module's variables keep their types ...                             *)
LEMMA DeviceTypes == AppsSpec => []TypeOK
<1> DEFINE Parts == FlagsOK /\ StepsOK /\ NumbersOK /\ InboxOK
<1>1. Init => Parts
  <2> SUFFICES ASSUME Init PROVE Parts
    OBVIOUS
  <2>1. FlagsOK /\ StepsOK
    BY DEF Init, FlagsOK, StepsOK, ThreadSteps
  <2>2. NumbersOK /\ InboxOK
    BY MqttsnDeviceAssumption DEF Init, NumbersOK, InboxOK
  <2> QED
    BY <2>1, <2>2
<1>2. Parts /\ [Next]_vars => Parts'
  BY FlagsKept, StepsKept, NumbersKept, InboxKept
<1>3. ASSUME Parts, UNCHANGED devvars, Fault PROVE Parts'
  <2> USE <1>3 DEF devvars, netvars, wdvars, mqttvars
  <2>1. FlagsOK' /\ StepsOK' /\ InboxOK'
    BY DEF FlagsOK, StepsOK, InboxOK
  <2>2. NumbersOK'
    BY MqttsnDeviceAssumption DEF NumbersOK, Fault
  <2> QED
    BY <2>1, <2>2
<1>4. Parts => TypeOK
  BY DEF TypeOK, FlagsOK, StepsOK, NumbersOK, InboxOK
<1>5. Parts /\ [AppsNext]_apps => Parts'
  BY <1>2, <1>3, AppsOnDevice DEF DeviceStep
<1> QED
  BY <1>1, <1>4, <1>5, AppsInitIsInit, PTL DEF AppsSpec

(* The flag mqtt_sn_connected never outlives the client, whatever the      *)
(* application does in its publish callback.                               *)
THEOREM FlagBelongsToClientOfApps == AppsSpec => []ConnectedMeansClient
<1>1. ClientInv /\ UNCHANGED devvars => ClientInv'
  BY DEF ClientInv, devvars, mqttvars
<1>2. ClientInv /\ [AppsNext]_apps => ClientInv'
  BY <1>1, ClientInvInductive, AppsOnDevice DEF DeviceStep
<1>3. ClientInv => ConnectedMeansClient
  BY DEF ClientInv, ConnectedMeansClient
<1> QED
  BY <1>2, <1>3, ClientInvInductive, AppsInitIsInit, PTL DEF AppsSpec

(* No application gets between the network events and the feeding of the   *)
(* watchdog.                                                               *)
THEOREM WatchdogStaysFedUnderApps == AppsSpec => []FeedArmed
<1>1. Init => FeedArmed
  BY DEF Init, FeedArmed
<1>2. FeedArmed /\ UNCHANGED devvars => FeedArmed'
  BY DEF FeedArmed, devvars, netvars, wdvars
<1>3. FeedArmed /\ [AppsNext]_apps => FeedArmed'
  BY <1>2, FeedArmedKept, AppsOnDevice DEF DeviceStep
<1> QED
  BY <1>1, <1>3, AppsInitIsInit, PTL DEF AppsSpec

-----------------------------------------------------------------------------
(* The types of the applications.                                          *)

(* The shared sum of the power meter.                                      *)
SumsOK ==
    /\ active_power \in 0 .. MaxSamples /\ num_samples \in 0 .. MaxSamples
    /\ averaged \in 0 .. MaxSamples
    /\ cb \in {"idle", "count", "request"}
    /\ pub \in {"idle", "energy", "reset"}

(* It saturates at its bound, and only the power meter changes it.         *)
LEMMA SumsKept == SumsOK /\ [AppNext]_allvars => SumsOK'
<1>1. ASSUME SumsOK, [AppNext]_allvars PROVE SumsOK'
  <2> USE <1>1 DEF SumsOK
  <2>1. \A n \in 0 .. MaxSamples : OneMore(n) \in 0 .. MaxSamples
    BY PowermeterAppAssumption DEF OneMore
  <2>2. 0 \in 0 .. MaxSamples
    BY PowermeterAppAssumption
  <2>3. CASE Sample
    BY <2>1, <2>3 DEF Sample, SampleAdd, SampleCount, SampleRequest, sumvars
  <2>4. CASE Publish
    BY <2>2, <2>4 DEF Publish, PublishPower, PublishPowerFails, PublishEnergy,
         PublishEnergyFails, PublishReset, appvars, sumvars
  <2>5. CASE AppReset
    BY <2>2, <2>5 DEF AppReset
  <2>6. CASE Client \/ WqOthers \/ Others \/ UNCHANGED allvars
    BY <2>6 DEF Client, WqOthers, Others, allvars, appvars, sumvars
  <2> QED
    BY <2>3, <2>4, <2>5, <2>6 DEF AppNext
<1> QED
  BY <1>1

(* What SensorVarsOK does not say of the sensors.                          *)
StagesOK ==
    /\ pmsmain \in {"boot", "done", "failed"}
    /\ uart \in {"off", "on", "stopping"}
    /\ stop_reason \in BOOLEAN
    /\ rx_work \in {"idle", "queued", "copy", "restart"}
    /\ Co2TypeOK
    /\ firmware \in {"powermeter", "pms5003", "co2sensor"}

(* Every step keeps them.                                                  *)
LEMMA StagesKept == StagesOK /\ [AppsNext]_apps => StagesOK'
<1>1. ASSUME StagesOK, [AppsNext]_apps PROVE StagesOK'
  <2> USE <1>1 DEF StagesOK, Co2TypeOK
  <2>1. CASE UNCHANGED othervars
    BY <2>1 DEF othervars, pmsvars
  <2>2. CASE Particles /\ PmsNext
    <3>1. UNCHANGED <<co2main, firmware>>
      BY <2>2 DEF Particles
    <3>2. CASE PmsMain \/ RxError \/ RxDisabled
      BY <3>1, <3>2 DEF PmsMain, RxError, RxDisabled, StartRx
    <3>3. CASE \E m \in Readings \union {"bad"} : RxReady(m)
      BY <3>1, <3>3 DEF RxReady
    <3>4. CASE RxWork
      BY <3>1, <3>4 DEF RxWork, Parse, Copy, RequestPacket, RestartRx, StartRx, pmsvars
    <3>5. CASE PmsClient \/ PmsWatchdog \/ PmsDevice
      BY <3>1, <3>5 DEF PmsClient, PmsWatchdog, PmsDevice, pmsvars
    <3>6. CASE PmsReset
      BY <3>1, <3>6 DEF PmsReset
    <3> QED
      BY <2>2, <3>2, <3>3, <3>4, <3>5, <3>6 DEF PmsNext
  <2>3. CASE Co2 /\ Co2Next
    <3>1. UNCHANGED <<pmsvars, firmware>>
      BY <2>3 DEF Co2
    <3>2. co2main' \in {"boot", "init", "read", "assign", "sleep", "failed"}
      BY <2>3 DEF Co2Next, Co2Main, InitModbus, Co2InitDevice, ReadRegisters,
           ReadRegistersFails, AssignRegister, RequestRegisters, NextReading,
           Co2Client, Co2Watchdog, Co2Network, Co2Reset
    <3> QED
      BY <3>1, <3>2 DEF pmsvars
  <2> QED
    BY <2>1, <2>2, <2>3 DEF AppsNext, Powermeter, apps
<1> QED
  BY <1>1

(* The variables of all applications have their types, whatever the        *)
(* bounds.                                                                 *)
THEOREM AppsTypeCorrect == AppsSpec => []AppsTypeOK
<1>1. AppsInit => SumsOK /\ StagesOK
  <2>1. AppsInit => SumsOK
    BY PowermeterAppAssumption DEF AppsInit, AppInit, SumsOK
  <2>2. AppsInit => StagesOK
    BY DEF AppsInit, PmsInit, Co2Init, StagesOK, Co2TypeOK
  <2> QED
    BY <2>1, <2>2
<1>2. SumsOK /\ [AppsNext]_apps => SumsOK'
  <2>1. SumsOK /\ UNCHANGED appvars => SumsOK'
    BY DEF SumsOK, appvars, sumvars
  <2> QED
    BY <2>1, SumsKept DEF AppsNext, Particles, Co2, apps, allvars
<1>3. TypeOK /\ SumsOK /\ StagesOK /\ IInvApps => AppsTypeOK
  BY DEF AppsTypeOK, AppTypeOK, SumsOK, StagesOK, IInvApps, SensorVarsOK, PmsTypeOK
<1> QED
  BY <1>1, <1>2, <1>3, StagesKept, DeviceTypes, InductiveApps, PTL DEF AppsSpec

-----------------------------------------------------------------------------
(* The power meter as one of the applications.                             *)

IsPowermeter == firmware = "powermeter"

(* Flashed with its firmware, the device is the power meter ...            *)
LEMMA PowermeterIsApp == AppsSpec /\ IsPowermeter => AppSpec
<1>1. AppsInit => AppInit
  BY DEF AppsInit
<1>2. IsPowermeter /\ [AppsNext]_apps => IsPowermeter' /\ [AppNext]_allvars
  BY DEF IsPowermeter, AppsNext, Powermeter, Particles, Co2, apps, othervars
<1> QED
  BY <1>1, <1>2, PTL DEF AppsSpec, AppSpec

(* ... and with another one it never touches the sum.                      *)
NoSum == ~IsPowermeter /\ num_samples = 0 /\ pub = "idle"

LEMMA NeverASum == AppsSpec /\ ~IsPowermeter => []NoSum
<1>1. AppsInit /\ ~IsPowermeter => NoSum
  BY DEF AppsInit, AppInit, NoSum
<1>2. NoSum /\ [AppsNext]_apps => NoSum'
  BY DEF AppsNext, Powermeter, Particles, Co2, apps, allvars, othervars, appvars,
     sumvars, NoSum, IsPowermeter
<1> QED
  BY <1>1, <1>2, PTL DEF AppsSpec

(* Whatever the firmware, no average is torn ...                           *)
THEOREM AppsAverageNeverTorn ==
    ASSUME Cooperative = TRUE
    PROVE  AppsSpec => []AverageIsWhole
<1>1. NoSum => AverageIsWhole
  BY DEF NoSum, AverageIsWhole
<1> QED
  BY <1>1, PowermeterIsApp, NeverASum, AverageNeverTorn, PTL

(* ... and no sample is thrown away.                                       *)
THEOREM AppsSamplesNeverDropped ==
    ASSUME Cooperative = TRUE
    PROVE  AppsSpec => NoSampleDropped
<1>1. NoSum /\ NoSum' =>
          [num_samples' = 0 /\ num_samples # 0 =>
             averaged = num_samples \/ main' = "boot"]_allvars
  BY DEF NoSum
<1> QED
  BY <1>1, PowermeterIsApp, NeverASum, SamplesNeverDropped, PTL DEF NoSampleDropped

=============================================================================
