---------------------------- MODULE Applications ----------------------------
(***************************************************************************)
(* The three applications, each on the MQTT-SN device module.  firmware is *)
(* the one the device was flashed with; the variables of the other two     *)
(* keep their initial values.                                              *)
(***************************************************************************)
EXTENDS PowermeterApp, Pms5003, Co2Sensor

VARIABLE firmware

othervars == <<sensorvars, pmsvars, co2main, firmware>>
apps == <<allvars, othervars>>

Powermeter == firmware = "powermeter" /\ UNCHANGED othervars
Particles == firmware = "pms5003" /\ UNCHANGED <<appvars, co2main, firmware>>
Co2 == firmware = "co2sensor" /\ UNCHANGED <<appvars, pmsvars, firmware>>

AppsTypeOK ==
    /\ AppTypeOK /\ SensorTypeOK /\ PmsTypeOK /\ Co2TypeOK
    /\ firmware \in {"powermeter", "pms5003", "co2sensor"}

AppsInit ==
    /\ AppInit /\ SensorInit /\ PmsInit /\ Co2Init
    /\ firmware \in {"powermeter", "pms5003", "co2sensor"}

AppsNext ==
    \/ Powermeter /\ AppNext
    \/ Particles /\ PmsNext
    \/ Co2 /\ Co2Next

AppsSpec == AppsInit /\ [][AppsNext]_apps

(* The parts of AppsNext that do not put themselves off for ever.  firmware*)
(* never changes, so fairness of a disjunction is fairness of the disjunct *)
(* for the firmware there is.                                              *)
NetworkUp == InitDevice \/ NetConnected \/ NetReschedule

AppsNetwork ==
    \/ Powermeter /\ Others /\ NetworkUp
    \/ Particles /\ PmsDevice /\ NetworkUp
    \/ Co2 /\ Co2Network /\ NetworkUp

AppsWatchdog ==
    \/ Powermeter /\ WqOthers /\ Watchdog
    \/ Particles /\ PmsWatchdog /\ Watchdog
    \/ Co2 /\ Co2Watchdog /\ Watchdog

AppsClient ==
    \/ Powermeter /\ (Client \/ Publish)
    \/ Particles /\ PmsClient
    \/ Co2 /\ Co2Client

AppsWork ==
    \/ Powermeter /\ Sample
    \/ Particles /\ RxWork
    \/ Co2 /\ Co2Main /\ ~ReadRegistersFails

AppsReading ==
    \/ Particles /\ \E r \in Readings : RxReady(r)
    \/ Co2 /\ ReadRegisters

AppsReset ==
    /\ WatchdogReset
    /\ \/ Powermeter /\ AppReset
       \/ Particles /\ PmsReset
       \/ Co2 /\ Co2Reset

(* As in MqttsnDevice; the work queue and the client thread each get their *)
(* turn again and again.  The meter goes on sending, so does the particle  *)
(* sensor, whole packets among others, and the CO2 sensor's bus does not   *)
(* fail for ever.  Line errors, failing calls and lost packets have no     *)
(* fairness.                                                               *)
AppsFairness ==
    /\ WF_apps(AppsNetwork)
    /\ SF_apps(AppsWatchdog)
    /\ SF_apps(AppsClient)
    /\ SF_apps(AppsWork)
    /\ SF_apps(AppsReading)
    /\ WF_apps(Particles /\ (PmsMain \/ RxDisabled))
    /\ WF_apps(AppsReset)

FairAppsSpec == AppsSpec /\ AppsFairness

-----------------------------------------------------------------------------
(* Properties of the sensors.                                              *)

(* Somebody is about to ask for a publish.                                 *)
AboutToRequest == rx_work = "copy" \/ co2main = "assign"

(* No value is forgotten: if the gateway was last told another than the    *)
(* present one, then a publish is requested or will be, or the one under   *)
(* way has not come to this value yet; or a request was lost with a failed *)
(* publish, or there is no eventfd to ask through.  Values change and are  *)
(* sent by two threads in many steps, and one request stands for many.     *)
NothingForgotten ==
    \A t \in 1 .. Topics :
        sent[t] # values[t] =>
            \/ AboutToRequest \/ eventfd # 0
            \/ thread = "publish" /\ topic < t
            \/ unserved

(* The driver does not fill raw_message while the work queue is to parse   *)
(* it: nothing but the order of uart_rx_disable, rx_work and start_rx      *)
(* keeps the interrupt away from it.                                       *)
PacketKept == rx_work # "idle" => uart = "off"

(* The particle sensor's thirteen channels are published from one packet,  *)
(* which no later one overwrites before it is parsed and copied, while the *)
(* next may come at any time.  The CO2 sensor's registers may be torn      *)
(* apart, but only in the middle of an assignment, or when another publish *)
(* is already requested that will repair it.                               *)
PublishedWhole ==
    /\ PacketKept
    /\ thread = "publish" /\ topic = Topics /\ ~Whole => co2main = "assign" \/ eventfd # 0

(* A request that was lost with a failed publish is made up for by a later *)
(* reading, unless the device is reset first or the particle sensor is     *)
(* mute.                                                                   *)
LostRequestIsMadeUpFor ==
    unserved ~> (~unserved \/ main = "boot" \/ (firmware = "pms5003" /\ PmsMute))

(* Reception goes on after a line error: a packet that comes later is      *)
(* handed to the work queue.  boards/nrf52840dongle_nrf52840.conf chooses  *)
(* hardware counting to keep data processing from being delayed            *)
(* permanently; a stop_reason that nobody clears delays it for ever.       *)
ErrorDelaysOnly ==
    firmware = "pms5003" /\ stop_reason ~>
        rx_work = "queued" \/ uart = "off" \/ main = "boot"
=============================================================================
