---------------------------- MODULE MqttsnDevice ----------------------------
(***************************************************************************)
(* modules/mqttsndev/lib.c: the MQTT-SN client thread shared by all device *)
(* applications, the network events that start it and the watchdog work.   *)
(*                                                                         *)
(* Actors: the main thread (mqttsndev_init), Zephyr's network management   *)
(* (net_event_handler), the client thread (thread_entry), and the system   *)
(* work queue, which runs watchdog_work_handler and the client library's   *)
(* keep-alive.  The applications ask for a publish through an eventfd.     *)
(* The MQTT-SN library, the sockets and the eventfd are Zephyr's and are   *)
(* modelled from the calls lib.c makes; the gateway is the environment.    *)
(*                                                                         *)
(* Every step between two actors may interleave here.  Zephyr interleaves  *)
(* less (see Cooperative in PowermeterApp), so what holds here holds for   *)
(* any thread priority.                                                    *)
(***************************************************************************)
EXTENDS Integers, Sequences

CONSTANTS MaxRequests,  \* bound: the eventfd's count saturates here
          MaxPackets,   \* bound: packets waiting in the socket
          MaxFaults     \* bound: faults of the network, the gateway and calls

ASSUME MqttsnDeviceAssumption ==
    MaxRequests \in Nat \ {0} /\ MaxPackets \in Nat \ {0} /\ MaxFaults \in Nat

VARIABLES main,         \* mqttsndev_init: "boot", "done", "failed"
          registered,   \* net_event_handler is registered
          eventfd,      \* count of eventfd_publish, -1 before it exists
          connected,    \* the network is up
          started,      \* the client thread was started
          netpc,        \* net_event_handler: "idle", "reschedule"
          watchdog,     \* watchdog_work is scheduled
          wdpc,         \* watchdog_work_handler: "idle", "feed", "submit"
          thread,       \* where the client thread is
          client,       \* mqtt_client is initialised
          mqtt_sn_connected,
          inbox,        \* packets of the gateway in the socket
          faults

netvars == <<main, registered, connected, started, netpc>>
wdvars == <<watchdog, wdpc>>
mqttvars == <<thread, client, mqtt_sn_connected, inbox>>
vars == <<netvars, wdvars, mqttvars, eventfd, faults>>

Packet == {"connack", "disconnect", "other", "bad"}

ThreadSteps ==
    {"none", "start", "check", "connect", "sleep", "input", "poll", "work",
     "request", "publish", "deinit", "wait"}

TypeOK ==
    /\ main \in {"boot", "done", "failed"}
    /\ registered \in BOOLEAN
    /\ eventfd \in -1 .. MaxRequests
    /\ connected \in BOOLEAN /\ started \in BOOLEAN
    /\ netpc \in {"idle", "reschedule"}
    /\ watchdog \in BOOLEAN
    /\ wdpc \in {"idle", "feed", "submit"}
    /\ thread \in ThreadSteps
    /\ client \in BOOLEAN /\ mqtt_sn_connected \in BOOLEAN
    /\ inbox \in Seq(Packet) /\ Len(inbox) <= MaxPackets
    /\ faults \in 0 .. MaxFaults

(* The state after a reset: watchdog_init has run, main has not.           *)
Init ==
    /\ main = "boot"
    /\ registered = FALSE
    /\ eventfd = -1
    /\ connected = FALSE /\ started = FALSE
    /\ netpc = "idle"
    /\ watchdog = TRUE
    /\ wdpc = "idle"
    /\ thread = "none"
    /\ client = FALSE /\ mqtt_sn_connected = FALSE
    /\ inbox = << >>
    /\ faults = 0

Fault == faults < MaxFaults /\ faults' = faults + 1
NoFault == faults' = faults

-----------------------------------------------------------------------------
(* mqttsndev_init, on the main thread.                                     *)

InitDevice ==
    /\ main = "boot"
    /\ main' = "done"
    /\ eventfd' = 0
    /\ registered' = TRUE
    /\ UNCHANGED <<connected, started, netpc, wdvars, mqttvars, faults>>

(* The eventfd cannot be created.  The applications ignore the result.     *)
InitDeviceFails ==
    /\ main = "boot"
    /\ main' = "failed"
    /\ Fault
    /\ UNCHANGED <<registered, eventfd, connected, started, netpc, wdvars, mqttvars>>

(* Mutant: the eventfd counts beyond its limit.                            *)
SchedulePublishOverflows ==
    /\ eventfd' = (IF eventfd = -1 THEN eventfd ELSE eventfd + 1)
    /\ UNCHANGED <<netvars, wdvars, mqttvars, faults>>

(* mqttsndev_schedule_publish_callback, called by the application: without *)
(* an eventfd it only logs.                                                *)
SchedulePublish ==
    /\ eventfd' = (IF eventfd \in {-1, MaxRequests} THEN eventfd ELSE eventfd + 1)
    /\ UNCHANGED <<netvars, wdvars, mqttvars, faults>>

-----------------------------------------------------------------------------
(* net_event_handler.                                                      *)

(* NET_EVENT_L4_CONNECTED, first half: start_thread, but only once.        *)
NetConnected ==
    /\ registered /\ netpc = "idle"
    /\ connected' = TRUE
    /\ started' = TRUE
    /\ thread' = (IF started THEN thread ELSE "start")
    /\ netpc' = "reschedule"
    /\ UNCHANGED <<main, registered, eventfd, wdvars, client, mqtt_sn_connected,
                   inbox, faults>>

(* Mutant: schedules the watchdog work only for the first connection.      *)
NetRescheduleOnce ==
    /\ netpc = "reschedule"
    /\ netpc' = "idle"
    /\ watchdog' = (watchdog \/ thread = "start")
    /\ UNCHANGED <<main, registered, eventfd, connected, started, wdpc, mqttvars,
                   faults>>

(* Second half: k_work_reschedule of the watchdog work.                    *)
NetReschedule ==
    /\ netpc = "reschedule"
    /\ netpc' = "idle"
    /\ watchdog' = TRUE
    /\ UNCHANGED <<main, registered, eventfd, connected, started, wdpc, mqttvars,
                   faults>>

NetDisconnected ==
    /\ registered /\ netpc = "idle" /\ connected
    /\ connected' = FALSE
    /\ Fault
    /\ UNCHANGED <<main, registered, eventfd, started, netpc, wdvars, mqttvars>>

-----------------------------------------------------------------------------
(* watchdog_work_handler, on the work queue.                               *)

(* Mutant: the watchdog is fed without a network as well.                  *)
WatchdogWorkAlways ==
    /\ watchdog /\ wdpc = "idle"
    /\ watchdog' = FALSE
    /\ wdpc' = "feed"
    /\ UNCHANGED <<netvars, mqttvars, eventfd, faults>>

(* Without a network the handler returns and does not submit itself again. *)
WatchdogWork ==
    /\ watchdog /\ wdpc = "idle"
    /\ watchdog' = FALSE
    /\ wdpc' = (IF connected THEN "feed" ELSE "idle")
    /\ UNCHANGED <<netvars, mqttvars, eventfd, faults>>

(* wdt_feed; its failure is only logged.                                   *)
WatchdogFeed ==
    /\ wdpc = "feed"
    /\ wdpc' = "submit"
    /\ UNCHANGED <<netvars, watchdog, mqttvars, eventfd, faults>>

(* Mutant: what was scheduled meanwhile is cancelled.                      *)
WatchdogSubmitCancels ==
    /\ wdpc = "submit"
    /\ wdpc' = "idle"
    /\ watchdog' = ~watchdog
    /\ UNCHANGED <<netvars, mqttvars, eventfd, faults>>

(* submit_watchdog_work: a no-op if it was rescheduled meanwhile.          *)
WatchdogSubmit ==
    /\ wdpc = "submit"
    /\ wdpc' = "idle"
    /\ watchdog' = TRUE
    /\ UNCHANGED <<netvars, mqttvars, eventfd, faults>>

(* The chip starts anew: power, reset pin, watchdog or sys_reboot.         *)
Reset ==
    /\ main' = "boot" /\ registered' = FALSE
    /\ eventfd' = -1
    /\ connected' = FALSE /\ started' = FALSE /\ netpc' = "idle"
    /\ watchdog' = TRUE /\ wdpc' = "idle"
    /\ thread' = "none"
    /\ client' = FALSE /\ mqtt_sn_connected' = FALSE
    /\ inbox' = << >>
    /\ NoFault

(* Nobody will feed the watchdog any more: it resets the chip.  Watchdog   *)
(* says when, with a clock.                                                *)
WatchdogReset == ~watchdog /\ wdpc = "idle" /\ netpc = "idle" /\ ~connected /\ Reset

Watchdog == WatchdogWork \/ WatchdogFeed \/ WatchdogSubmit

-----------------------------------------------------------------------------
(* The gateway and the library's keep-alive.                               *)

(* A packet arrives; the gateway acknowledges a connect (see Connect).     *)
PacketArrives ==
    /\ client /\ Len(inbox) < MaxPackets
    /\ \E p \in {"disconnect", "other", "bad"} : inbox' = Append(inbox, p)
    /\ Fault
    /\ UNCHANGED <<netvars, wdvars, thread, client, mqtt_sn_connected, eventfd>>

(* evt_cb with MQTT_SN_EVT_DISCONNECTED from the library's own work: the   *)
(* gateway did not answer.  The thread may well be in zsock_poll.          *)
KeepAliveLost ==
    /\ client /\ mqtt_sn_connected
    /\ mqtt_sn_connected' = FALSE
    /\ Fault
    /\ UNCHANGED <<netvars, wdvars, thread, client, inbox, eventfd>>

-----------------------------------------------------------------------------
(* The client thread.                                                      *)

ThreadGoto(step) == thread' = step

(* run_mqtt_client: transport and client are initialised ...               *)
StartClient ==
    /\ thread = "start"
    /\ client' = TRUE
    /\ inbox' = << >>
    /\ ThreadGoto("check")
    /\ UNCHANGED <<netvars, wdvars, mqtt_sn_connected, eventfd, faults>>

(* ... or one of them fails and the thread waits for the next attempt.     *)
StartClientFails ==
    /\ thread = "start"
    /\ ThreadGoto("wait")
    /\ Fault
    /\ UNCHANGED <<netvars, wdvars, client, mqtt_sn_connected, inbox, eventfd>>

(* while (!mqtt_sn_connected).                                             *)
CheckConnected ==
    /\ thread = "check"
    /\ ThreadGoto(IF mqtt_sn_connected THEN "poll" ELSE "connect")
    /\ UNCHANGED <<netvars, wdvars, client, mqtt_sn_connected, inbox, eventfd, faults>>

(* mqtt_sn_connect sends CONNECT; the gateway's CONNACK arrives, or one of *)
(* the two is lost.                                                        *)
Connect ==
    /\ thread = "connect"
    /\ ThreadGoto("sleep")
    /\ \/ Len(inbox) < MaxPackets /\ inbox' = Append(inbox, "connack") /\ NoFault
       \/ Len(inbox) = MaxPackets /\ UNCHANGED inbox /\ NoFault
       \/ UNCHANGED inbox /\ Fault
    /\ UNCHANGED <<netvars, wdvars, client, mqtt_sn_connected, eventfd>>

ConnectFails ==
    /\ thread = "connect"
    /\ ThreadGoto("deinit")
    /\ Fault
    /\ UNCHANGED <<netvars, wdvars, client, mqtt_sn_connected, inbox, eventfd>>

(* k_sleep of 500 ms.                                                      *)
Wake ==
    /\ thread = "sleep"
    /\ ThreadGoto("input")
    /\ UNCHANGED <<netvars, wdvars, client, mqtt_sn_connected, inbox, eventfd, faults>>

(* mqtt_sn_input handles at most one packet, calls evt_cb for it, and      *)
(* fails on a malformed one.                                               *)
Input(step, next) ==
    /\ thread = step
    /\ \/ /\ inbox = << >>
          /\ ThreadGoto(next)
          /\ UNCHANGED <<mqtt_sn_connected, inbox>>
       \/ /\ inbox # << >> /\ Head(inbox) # "bad"
          /\ ThreadGoto(next)
          /\ mqtt_sn_connected' =
                 (Head(inbox) = "connack" \/
                    (Head(inbox) # "disconnect" /\ mqtt_sn_connected))
          /\ inbox' = Tail(inbox)
       \/ /\ inbox # << >> /\ Head(inbox) = "bad"
          /\ ThreadGoto("deinit")
          /\ inbox' = Tail(inbox)
          /\ UNCHANGED mqtt_sn_connected
    /\ UNCHANGED <<netvars, wdvars, client, eventfd, faults>>

ConnectInput == Input("input", "check")
WorkInput == Input("work", "request")

(* zsock_poll without a timeout: an event or a packet ends it.             *)
Poll ==
    /\ thread = "poll"
    /\ eventfd > 0 \/ inbox # << >>
    /\ ThreadGoto("work")
    /\ UNCHANGED <<netvars, wdvars, client, mqtt_sn_connected, inbox, eventfd, faults>>

PollFails ==
    /\ thread = "poll"
    /\ ThreadGoto("deinit")
    /\ Fault
    /\ UNCHANGED <<netvars, wdvars, client, mqtt_sn_connected, inbox, eventfd>>

(* Mutant: the request is taken although nothing can be published now.     *)
ReadRequestAlways ==
    /\ thread = "request"
    /\ eventfd' = 0
    /\ ThreadGoto(IF mqtt_sn_connected /\ eventfd > 0 THEN "publish" ELSE "check")
    /\ UNCHANGED <<netvars, wdvars, client, mqtt_sn_connected, inbox, faults>>

(* do_work goes on only while connected, and takes all requests at once.   *)
ReadRequest ==
    /\ thread = "request"
    /\ IF mqtt_sn_connected /\ eventfd > 0
       THEN eventfd' = 0 /\ ThreadGoto("publish")
       ELSE UNCHANGED eventfd /\ ThreadGoto("check")
    /\ UNCHANGED <<netvars, wdvars, client, mqtt_sn_connected, inbox, faults>>

(* publish_callback of the application.                                    *)
PublishOk ==
    /\ thread = "publish"
    /\ ThreadGoto("check")
    /\ UNCHANGED <<netvars, wdvars, client, mqtt_sn_connected, inbox, eventfd, faults>>

(* The library refuses the message, because its queue is full or it has    *)
(* lost the connection: do_work fails and the client is torn down.         *)
PublishFails ==
    /\ thread = "publish"
    /\ ThreadGoto("deinit")
    /\ Fault
    /\ UNCHANGED <<netvars, wdvars, client, mqtt_sn_connected, inbox, eventfd>>

(* Mutant: mqtt_sn_connected survives the client.                          *)
DeinitKeepsFlag ==
    /\ thread = "deinit"
    /\ client' = FALSE
    /\ inbox' = << >>
    /\ ThreadGoto("wait")
    /\ UNCHANGED <<netvars, wdvars, mqtt_sn_connected, eventfd, faults>>

(* out_deinit.                                                             *)
Deinit ==
    /\ thread = "deinit"
    /\ client' = FALSE
    /\ inbox' = << >>
    /\ mqtt_sn_connected' = FALSE
    /\ ThreadGoto("wait")
    /\ UNCHANGED <<netvars, wdvars, eventfd, faults>>

(* thread_entry sleeps before the next run_mqtt_client.                    *)
Retry ==
    /\ thread = "wait"
    /\ ThreadGoto("start")
    /\ UNCHANGED <<netvars, wdvars, client, mqtt_sn_connected, inbox, eventfd, faults>>

(* The thread but for the publish callback, which is the application's.    *)
ClientStep ==
    \/ StartClient \/ StartClientFails \/ CheckConnected \/ Connect \/ ConnectFails
    \/ Wake \/ ConnectInput \/ Poll \/ PollFails \/ WorkInput \/ ReadRequest
    \/ Deinit \/ Retry

ClientThread == ClientStep \/ PublishOk \/ PublishFails

Next ==
    \/ InitDevice \/ InitDeviceFails
    \/ SchedulePublish
    \/ NetConnected \/ NetReschedule \/ NetDisconnected
    \/ Watchdog \/ Reset
    \/ PacketArrives \/ KeepAliveLost
    \/ ClientThread

Spec == Init /\ [][Next]_vars

(* Threads and queued works run; the network comes up and the watchdog     *)
(* bites.  Nothing is assumed of the order of the actors, nor of resets    *)
(* for other reasons.                                                      *)
Fairness ==
    /\ WF_vars(InitDevice)
    /\ WF_vars(NetConnected)
    /\ WF_vars(NetReschedule)
    /\ WF_vars(Watchdog)
    /\ WF_vars(WatchdogReset)
    /\ WF_vars(ClientThread)

FairSpec == Spec /\ Fairness

-----------------------------------------------------------------------------
(* Properties.                                                             *)

(* mqtt_sn_connected is never left over from an earlier client, although   *)
(* three parties write it: a new run_mqtt_client would skip its connect    *)
(* loop and wait in zsock_poll for a gateway that does not know it.        *)
ConnectedMeansClient == mqtt_sn_connected => client

(* While the network is up, somebody is about to feed the watchdog or the  *)
(* work that does is scheduled: no order of network events and work item   *)
(* breaks the chain and lets the watchdog reset a device that is fine.     *)
FeedArmed ==
    connected => watchdog \/ wdpc # "idle" \/ netpc = "reschedule"

(* A publish request is taken up by the client thread, whatever happened   *)
(* to the connection meanwhile: it stays in the eventfd through a lost     *)
(* connection, a failed client and the wait before the next one.  Only a   *)
(* reset loses it.                                                         *)
RequestServed == eventfd > 0 ~> (thread = "publish" \/ main = "boot")

(* A device whose mqttsndev_init failed, which its main ignores, does not  *)
(* stay dead: the watchdog resets it.                                      *)
DeadDeviceResets == main = "failed" ~> main = "boot"
=============================================================================
