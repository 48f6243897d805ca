------------------------------ MODULE Watchdog ------------------------------
(***************************************************************************)
(* MqttsnDevice with time: when watchdog_work runs and when the hardware   *)
(* watchdog of watchdog_init bites.                                        *)
(*                                                                         *)
(* Code takes no time, waiting does: time passes in Tick, and only while   *)
(* neither net_event_handler nor watchdog_work_handler is under way.  The  *)
(* work queue runs one item after the other and some of them sleep, so     *)
(* watchdog_work may be due for at most MaxLate before its turn comes (the *)
(* longest sleep there is app_unrecoverable_error's: ten seconds).         *)
(***************************************************************************)
EXTENDS MqttsnDevice

CONSTANTS FeedInterval, \* SMARTMETER_MQTTSN_DEVICE_WDT_FEED_INTERVAL_MS
          MaxWindow,    \* SMARTMETER_MQTTSN_DEVICE_WDT_MAX_WINDOW_MS
          MaxLate       \* how long the work queue may be blocked

(* The defaults in Kconfig, in units of ten seconds: 1, 12 and 1.          *)
ASSUME WatchdogAssumption ==
    /\ FeedInterval \in Nat \ {0} /\ MaxLate \in Nat
    /\ MaxWindow \in Nat /\ FeedInterval + MaxLate < MaxWindow

VARIABLES dueIn,        \* when watchdog_work is due, if it is scheduled
          late,         \* for how long it has been due
          biteIn,       \* what is left of the watchdog's window
          lasted        \* since when connected has its value, if not longer
                        \* than the window

timevars == <<dueIn, late, biteIn, lasted>>
wdallvars == <<vars, timevars>>

WdTypeOK ==
    /\ TypeOK
    /\ dueIn \in 0 .. FeedInterval
    /\ late \in 0 .. MaxLate
    /\ biteIn \in 0 .. MaxWindow
    /\ lasted \in 0 .. MaxWindow

WdInit ==
    /\ Init
    /\ dueIn = FeedInterval /\ late = 0
    /\ biteIn = MaxWindow
    /\ lasted = 0

-----------------------------------------------------------------------------

(* What touches neither the work item nor the network.                     *)
Untimed ==
    /\ \/ InitDevice \/ InitDeviceFails \/ SchedulePublish
       \/ PacketArrives \/ KeepAliveLost \/ ClientThread
    /\ UNCHANGED timevars

WdNetConnected ==
    /\ NetConnected
    /\ lasted' = (IF connected THEN lasted ELSE 0)
    /\ UNCHANGED <<dueIn, late, biteIn>>

WdNetDisconnected ==
    /\ NetDisconnected
    /\ lasted' = 0
    /\ UNCHANGED <<dueIn, late, biteIn>>

(* K_NO_WAIT: due at once, and no earlier if it already waits for its turn.*)
WdNetReschedule ==
    /\ NetReschedule
    /\ dueIn' = 0
    /\ UNCHANGED <<late, biteIn, lasted>>

WdWork ==
    /\ WatchdogWork
    /\ dueIn = 0
    /\ late' = 0
    /\ UNCHANGED <<dueIn, biteIn, lasted>>

(* wdt_feed.  Of a channel that is installed it does not fail.             *)
WdFeed ==
    /\ WatchdogFeed
    /\ biteIn' = MaxWindow
    /\ UNCHANGED <<dueIn, late, lasted>>

(* k_work_schedule leaves an item that was rescheduled meanwhile alone.    *)
WdSubmit ==
    /\ WatchdogSubmit
    /\ dueIn' = (IF watchdog THEN dueIn ELSE FeedInterval)
    /\ UNCHANGED <<late, biteIn, lasted>>

(* Mutant: an item of the work queue may sleep twice as long.              *)
OnTimeTwice == watchdog /\ dueIn = 0 => late < 2 * MaxLate

(* The work queue's items end in time.                                     *)
OnTime == watchdog /\ dueIn = 0 => late < MaxLate

Tick ==
    /\ biteIn > 0 /\ OnTime
    /\ netpc = "idle" /\ wdpc = "idle"
    /\ biteIn' = biteIn - 1
    /\ dueIn' = (IF watchdog /\ dueIn > 0 THEN dueIn - 1 ELSE dueIn)
    /\ late' = (IF watchdog /\ dueIn = 0 THEN late + 1 ELSE late)
    /\ lasted' = (IF lasted < MaxWindow THEN lasted + 1 ELSE lasted)
    /\ UNCHANGED vars

WdReset ==
    /\ Reset
    /\ dueIn' = FeedInterval /\ late' = 0
    /\ biteIn' = MaxWindow
    /\ lasted' = 0

(* The window is over.                                                     *)
Bite == biteIn = 0 /\ WdReset

WdNext ==
    \/ Untimed
    \/ WdNetConnected \/ WdNetDisconnected \/ WdNetReschedule
    \/ WdWork \/ WdFeed \/ WdSubmit
    \/ Tick \/ WdReset

WdSpec == WdInit /\ [][WdNext]_wdallvars

(* As in MqttsnDevice, with the bite in the place of WatchdogReset.  Time  *)
(* passes whenever it is not held up for ever.                             *)
WdFairness ==
    /\ WF_wdallvars(InitDevice /\ UNCHANGED timevars)
    /\ WF_wdallvars(ClientThread /\ UNCHANGED timevars)
    /\ WF_wdallvars(WdNetConnected)
    /\ WF_wdallvars(WdNetReschedule)
    /\ WF_wdallvars(WdWork \/ WdFeed \/ WdSubmit)
    /\ WF_wdallvars(Tick)
    /\ WF_wdallvars(Bite)

FairWdSpec == WdSpec /\ WdFairness

-----------------------------------------------------------------------------
(* Properties.                                                             *)

(* The watchdog does not bite a device whose network is up, but for one    *)
(* whose network has come back so late that the work queue had no turn to  *)
(* feed it.  The network may come and go at any point of the handler, and  *)
(* the queue may be late every time.                                       *)
NoFalseReset == connected /\ lasted > MaxLate => biteIn > 0

(* No outage outlasts the watchdog's window, and neither does the time a   *)
(* device needs to get its first network: the device has been reset by     *)
(* then.  A feed that a handler begins just before the network goes does   *)
(* not buy a second window.                                                *)
OutageBounded == ~connected => biteIn + lasted <= MaxWindow
=============================================================================
