------------------------- MODULE MqttsnDeviceProofs -------------------------
(***************************************************************************)
(* Theorems about MqttsnDevice, for any bound on requests, packets and     *)
(* faults, and about Watchdog, for every feed interval, lateness and       *)
(* window that WatchdogAssumption allows.                                  *)
(***************************************************************************)
EXTENDS Watchdog, TLAPS

(* TypeOK in four parts, one for each kind of value.                       *)
FlagsOK ==
    /\ registered \in BOOLEAN /\ connected \in BOOLEAN /\ started \in BOOLEAN
    /\ watchdog \in BOOLEAN
    /\ client \in BOOLEAN /\ mqtt_sn_connected \in BOOLEAN

StepsOK ==
    /\ main \in {"boot", "done", "failed"}
    /\ netpc \in {"idle", "reschedule"}
    /\ wdpc \in {"idle", "feed", "submit"}
    /\ thread \in ThreadSteps

NumbersOK == eventfd \in -1 .. MaxRequests /\ faults \in 0 .. MaxFaults

InboxOK == inbox \in Seq(Packet) /\ Len(inbox) <= MaxPackets

(* No step turns a flag into anything but a Boolean.                       *)
LEMMA FlagsKept == FlagsOK /\ [Next]_vars => FlagsOK'
<1>1. ASSUME FlagsOK, [Next]_vars PROVE FlagsOK'
  <2> USE <1>1 DEF FlagsOK, netvars, wdvars, mqttvars, ThreadGoto
  <2>1. CASE InitDevice \/ InitDeviceFails \/ SchedulePublish
    BY <2>1 DEF InitDevice, InitDeviceFails, SchedulePublish
  <2>2. CASE NetConnected \/ NetReschedule \/ NetDisconnected
    BY <2>2 DEF NetConnected, NetReschedule, NetDisconnected
  <2>3. CASE Watchdog
    BY <2>3 DEF Watchdog, WatchdogWork, WatchdogFeed, WatchdogSubmit
  <2>4. CASE Reset
    BY <2>4 DEF Reset
  <2>5. CASE PacketArrives \/ KeepAliveLost
    BY <2>5 DEF PacketArrives, KeepAliveLost
  <2>6. CASE ClientThread
    <3>1. CASE StartClient \/ StartClientFails \/ CheckConnected
      BY <3>1 DEF StartClient, StartClientFails, CheckConnected
    <3>2. CASE Connect \/ ConnectFails \/ Wake
      BY <3>2 DEF Connect, ConnectFails, Wake
    <3>3. CASE ConnectInput \/ WorkInput
      BY <3>3 DEF ConnectInput, WorkInput, Input
    <3>4. CASE Poll \/ PollFails \/ ReadRequest
      BY <3>4 DEF Poll, PollFails, ReadRequest
    <3>5. CASE PublishOk \/ PublishFails \/ Deinit \/ Retry
      BY <3>5 DEF PublishOk, PublishFails, Deinit, Retry
    <3> QED
      BY <2>6, <3>1, <3>2, <3>3, <3>4, <3>5 DEF ClientThread, ClientStep
  <2>7. CASE UNCHANGED vars
    BY <2>7 DEF vars
  <2> QED
    BY <2>1, <2>2, <2>3, <2>4, <2>5, <2>6, <2>7 DEF Next
<1> QED
  BY <1>1

(* Every party stays on the steps of its code.                             *)
LEMMA StepsKept == StepsOK /\ [Next]_vars => StepsOK'
<1>1. ASSUME StepsOK, [Next]_vars PROVE StepsOK'
  <2> USE <1>1 DEF StepsOK, ThreadSteps, netvars, wdvars, mqttvars, ThreadGoto
  <2>1. CASE InitDevice \/ InitDeviceFails \/ SchedulePublish
    BY <2>1 DEF InitDevice, InitDeviceFails, SchedulePublish
  <2>2. CASE NetConnected \/ NetReschedule \/ NetDisconnected
    BY <2>2 DEF NetConnected, NetReschedule, NetDisconnected
  <2>3. CASE Watchdog
    BY <2>3 DEF Watchdog, WatchdogWork, WatchdogFeed, WatchdogSubmit
  <2>4. CASE Reset
    BY <2>4 DEF Reset
  <2>5. CASE PacketArrives \/ KeepAliveLost
    BY <2>5 DEF PacketArrives, KeepAliveLost
  <2>6. CASE ClientThread
    <3>1. CASE StartClient \/ StartClientFails \/ CheckConnected
      BY <3>1 DEF StartClient, StartClientFails, CheckConnected
    <3>2. CASE Connect \/ ConnectFails \/ Wake
      BY <3>2 DEF Connect, ConnectFails, Wake
    <3>3. CASE ConnectInput \/ WorkInput
      BY <3>3 DEF ConnectInput, WorkInput, Input
    <3>4. CASE Poll \/ PollFails \/ ReadRequest
      BY <3>4 DEF Poll, PollFails, ReadRequest
    <3>5. CASE PublishOk \/ PublishFails \/ Deinit \/ Retry
      BY <3>5 DEF PublishOk, PublishFails, Deinit, Retry
    <3> QED
      BY <2>6, <3>1, <3>2, <3>3, <3>4, <3>5 DEF ClientThread, ClientStep
  <2>7. CASE UNCHANGED vars
    BY <2>7 DEF vars
  <2> QED
    BY <2>1, <2>2, <2>3, <2>4, <2>5, <2>6, <2>7 DEF Next
<1> QED
  BY <1>1

(* The eventfd and the faults stay within their bounds.                    *)
LEMMA NumbersKept == NumbersOK /\ [Next]_vars => NumbersOK'
<1> USE MqttsnDeviceAssumption
<1>1. ASSUME NumbersOK, [Next]_vars PROVE NumbersOK'
  <2> USE <1>1 DEF NumbersOK, Fault, NoFault, netvars, wdvars, mqttvars, ThreadGoto
  <2>1. CASE InitDevice \/ InitDeviceFails \/ SchedulePublish
    BY <2>1 DEF InitDevice, InitDeviceFails, SchedulePublish
  <2>2. CASE NetConnected \/ NetReschedule \/ NetDisconnected
    BY <2>2 DEF NetConnected, NetReschedule, NetDisconnected
  <2>3. CASE Watchdog
    BY <2>3 DEF Watchdog, WatchdogWork, WatchdogFeed, WatchdogSubmit
  <2>4. CASE Reset
    BY <2>4 DEF Reset
  <2>5. CASE PacketArrives \/ KeepAliveLost
    BY <2>5 DEF PacketArrives, KeepAliveLost
  <2>6. CASE ClientThread
    <3>1. CASE StartClient \/ StartClientFails \/ CheckConnected
      BY <3>1 DEF StartClient, StartClientFails, CheckConnected
    <3>2. CASE Connect \/ ConnectFails \/ Wake
      BY <3>2 DEF Connect, ConnectFails, Wake
    <3>3. CASE ConnectInput \/ WorkInput
      BY <3>3 DEF ConnectInput, WorkInput, Input
    <3>4. CASE Poll \/ PollFails \/ ReadRequest
      BY <3>4 DEF Poll, PollFails, ReadRequest
    <3>5. CASE PublishOk \/ PublishFails \/ Deinit \/ Retry
      BY <3>5 DEF PublishOk, PublishFails, Deinit, Retry
    <3> QED
      BY <2>6, <3>1, <3>2, <3>3, <3>4, <3>5 DEF ClientThread, ClientStep
  <2>7. CASE UNCHANGED vars
    BY <2>7 DEF vars
  <2> QED
    BY <2>1, <2>2, <2>3, <2>4, <2>5, <2>6, <2>7 DEF Next
<1> QED
  BY <1>1

(* The socket holds packets, and no more than fit.                         *)
LEMMA InboxKept == InboxOK /\ [Next]_vars => InboxOK'
<1> USE MqttsnDeviceAssumption
<1>1. << >> \in Seq(Packet) /\ Len(<< >>) <= MaxPackets
  OBVIOUS
<1>2. ASSUME InboxOK, [Next]_vars PROVE InboxOK'
  <2> USE <1>2 DEF InboxOK, Packet, netvars, wdvars, mqttvars, ThreadGoto
  <2>1. CASE InitDevice \/ InitDeviceFails \/ SchedulePublish
    BY <2>1 DEF InitDevice, InitDeviceFails, SchedulePublish
  <2>2. CASE NetConnected \/ NetReschedule \/ NetDisconnected
    BY <2>2 DEF NetConnected, NetReschedule, NetDisconnected
  <2>3. CASE Watchdog
    BY <2>3 DEF Watchdog, WatchdogWork, WatchdogFeed, WatchdogSubmit
  <2>4. CASE Reset
    BY <2>4 DEF Reset
  <2>5. CASE PacketArrives \/ KeepAliveLost
    BY <2>5 DEF PacketArrives, KeepAliveLost
  <2>6. CASE ClientThread
    <3>1. CASE StartClient \/ StartClientFails \/ CheckConnected
      <4>1. inbox' = inbox \/ inbox' = << >>
        BY <3>1 DEF StartClient, StartClientFails, CheckConnected
      <4> QED
        BY <1>1, <4>1
    <3>2. CASE Connect \/ ConnectFails \/ Wake
      BY <3>2 DEF Connect, ConnectFails, Wake
    <3>3. CASE ConnectInput \/ WorkInput
      BY <3>3 DEF ConnectInput, WorkInput, Input
    <3>4. CASE Poll \/ PollFails \/ ReadRequest
      BY <3>4 DEF Poll, PollFails, ReadRequest
    <3>5. CASE PublishOk \/ PublishFails \/ Deinit \/ Retry
      <4>1. inbox' = inbox \/ inbox' = << >>
        BY <3>5 DEF PublishOk, PublishFails, Deinit, Retry
      <4> QED
        BY <1>1, <4>1
    <3> QED
      BY <2>6, <3>1, <3>2, <3>3, <3>4, <3>5 DEF ClientThread, ClientStep
  <2>7. CASE UNCHANGED vars
    BY <2>7 DEF vars
  <2> QED
    BY <2>1, <2>2, <2>3, <2>4, <2>5, <2>6, <2>7 DEF Next
<1> QED
  BY <1>2

(* The variables have their types, whatever the bounds.                    *)
THEOREM TypeCorrect == Spec => []TypeOK
<1> DEFINE Parts == FlagsOK /\ StepsOK /\ NumbersOK /\ InboxOK
<1>1. ASSUME Init PROVE Parts
  <2>1. FlagsOK
    BY <1>1 DEF Init, FlagsOK
  <2>2. StepsOK
    BY <1>1 DEF Init, StepsOK, ThreadSteps
  <2>3. NumbersOK
    BY <1>1, MqttsnDeviceAssumption DEF Init, NumbersOK
  <2>4. InboxOK
    BY <1>1, MqttsnDeviceAssumption DEF Init, InboxOK
  <2> QED
    BY <2>1, <2>2, <2>3, <2>4
<1>2. Parts /\ [Next]_vars => Parts'
  BY FlagsKept, StepsKept, NumbersKept, InboxKept
<1>3. Parts => TypeOK
  BY DEF TypeOK, FlagsOK, StepsOK, NumbersOK, InboxOK
<1> QED
  BY <1>1, <1>2, <1>3, PTL DEF Spec

(* Where run_mqtt_client is past client initialisation and not yet past    *)
(* out_deinit.                                                             *)
ClientSteps ==
    {"check", "connect", "sleep", "input", "poll", "work", "request", "publish",
     "deinit"}

(* evt_cb sets mqtt_sn_connected only from mqtt_sn_input, which the thread *)
(* calls between the client's initialisation and out_deinit.               *)
ClientInv ==
    /\ mqtt_sn_connected => client
    /\ thread \in ClientSteps => client

(* ClientInv is inductive.                                                 *)
LEMMA ClientInvInductive ==
    /\ Init => ClientInv
    /\ ClientInv /\ [Next]_vars => ClientInv'
<1>1. Init => ClientInv
  BY DEF Init, ClientInv, ClientSteps
<1>2. ASSUME ClientInv, [Next]_vars PROVE ClientInv'
  <2> USE <1>2 DEF ClientInv, ClientSteps, netvars, wdvars, mqttvars, ThreadGoto
  <2>1. CASE InitDevice \/ InitDeviceFails \/ SchedulePublish
    BY <2>1 DEF InitDevice, InitDeviceFails, SchedulePublish
  <2>2. CASE NetConnected \/ NetReschedule \/ NetDisconnected
    BY <2>2 DEF NetConnected, NetReschedule, NetDisconnected
  <2>3. CASE Watchdog
    BY <2>3 DEF Watchdog, WatchdogWork, WatchdogFeed, WatchdogSubmit
  <2>4. CASE Reset
    BY <2>4 DEF Reset
  <2>5. CASE PacketArrives \/ KeepAliveLost
    BY <2>5 DEF PacketArrives, KeepAliveLost
  <2>6. CASE ClientThread
    <3>1. CASE StartClient \/ StartClientFails \/ CheckConnected
      BY <3>1 DEF StartClient, StartClientFails, CheckConnected
    <3>2. CASE Connect \/ ConnectFails \/ Wake
      BY <3>2 DEF Connect, ConnectFails, Wake
    <3>3. CASE ConnectInput \/ WorkInput
      BY <3>3 DEF ConnectInput, WorkInput, Input
    <3>4. CASE Poll \/ PollFails \/ ReadRequest
      BY <3>4 DEF Poll, PollFails, ReadRequest
    <3>5. CASE PublishOk \/ PublishFails
      BY <3>5 DEF PublishOk, PublishFails
    <3>6. CASE Deinit \/ Retry
      BY <3>6 DEF Deinit, Retry
    <3> QED
      BY <2>6, <3>1, <3>2, <3>3, <3>4, <3>5, <3>6 DEF ClientThread, ClientStep
  <2>7. CASE UNCHANGED vars
    BY <2>7 DEF vars
  <2> QED
    BY <2>1, <2>2, <2>3, <2>4, <2>5, <2>6, <2>7 DEF Next
<1> QED
  BY <1>1, <1>2

(* mqtt_sn_connected never outlives the client it is about.                *)
THEOREM FlagBelongsToClient == Spec => []ConnectedMeansClient
<1>1. ClientInv => ConnectedMeansClient
  BY DEF ClientInv, ConnectedMeansClient
<1> QED
  BY <1>1, ClientInvInductive, PTL DEF Spec

(* FeedArmed is inductive as it stands.                                    *)
LEMMA FeedArmedKept == FeedArmed /\ [Next]_vars => FeedArmed'
<1>1. ASSUME FeedArmed, [Next]_vars PROVE FeedArmed'
  <2> USE <1>1 DEF FeedArmed, netvars, wdvars, mqttvars
  <2>1. CASE InitDevice \/ InitDeviceFails \/ SchedulePublish
    BY <2>1 DEF InitDevice, InitDeviceFails, SchedulePublish
  <2>2. CASE NetConnected \/ NetReschedule \/ NetDisconnected
    BY <2>2 DEF NetConnected, NetReschedule, NetDisconnected
  <2>3. CASE Watchdog
    BY <2>3 DEF Watchdog, WatchdogWork, WatchdogFeed, WatchdogSubmit
  <2>4. CASE Reset
    BY <2>4 DEF Reset
  <2>5. CASE PacketArrives \/ KeepAliveLost
    BY <2>5 DEF PacketArrives, KeepAliveLost
  <2>6. CASE ClientThread
    <3>1. UNCHANGED <<netvars, wdvars>>
      BY <2>6 DEF ClientThread, ClientStep, StartClient, StartClientFails,
           CheckConnected, Connect, ConnectFails, Wake, ConnectInput, WorkInput,
           Input, Poll, PollFails, ReadRequest, PublishOk, PublishFails, Deinit,
           Retry
    <3> QED
      BY <3>1
  <2>7. CASE UNCHANGED vars
    BY <2>7 DEF vars
  <2> QED
    BY <2>1, <2>2, <2>3, <2>4, <2>5, <2>6, <2>7 DEF Next
<1> QED
  BY <1>1

(* While the network is up the watchdog's feeding never stops.             *)
THEOREM WatchdogStaysFed == Spec => []FeedArmed
<1>1. Init => FeedArmed
  BY DEF Init, FeedArmed
<1> QED
  BY <1>1, FeedArmedKept, PTL DEF Spec

-----------------------------------------------------------------------------
(* With time.                                                              *)

(* Every timed step is a step of the untimed device.                       *)
LEMMA StepImplements == [WdNext]_wdallvars => [Next]_vars
  BY DEF WdNext, wdallvars, Untimed, WdNetConnected, WdNetDisconnected,
     WdNetReschedule, WdWork, WdFeed, WdSubmit, Tick, WdReset, Next, Watchdog

(* The timed device implements the untimed one, in which a reset may       *)
(* happen at any time: whatever is proved of Spec holds with time as well. *)
THEOREM TimedImplementsUntimed == WdSpec => Spec
<1>1. WdInit => Init
  BY DEF WdInit
<1> QED
  BY <1>1, StepImplements, PTL DEF WdSpec, Spec

-----------------------------------------------------------------------------

TimesOK ==
    /\ dueIn \in 0 .. FeedInterval /\ late \in 0 .. MaxLate
    /\ biteIn \in 0 .. MaxWindow /\ lasted \in 0 .. MaxWindow

LEMMA TimesKept == TimesOK /\ [WdNext]_wdallvars => TimesOK'
<1> USE WatchdogAssumption
<1>1. ASSUME TimesOK, [WdNext]_wdallvars PROVE TimesOK'
  <2> USE <1>1 DEF TimesOK
  <2>1. CASE Untimed \/ UNCHANGED wdallvars
    BY <2>1 DEF Untimed, wdallvars, timevars
  <2>2. CASE WdNetConnected \/ WdNetDisconnected \/ WdNetReschedule
    BY <2>2 DEF WdNetConnected, WdNetDisconnected, WdNetReschedule
  <2>3. CASE WdWork \/ WdFeed \/ WdSubmit
    BY <2>3 DEF WdWork, WdFeed, WdSubmit
  <2>4. CASE Tick
    BY <2>4 DEF Tick, OnTime
  <2>5. CASE WdReset
    BY <2>5 DEF WdReset
  <2> QED
    BY <2>1, <2>2, <2>3, <2>4, <2>5 DEF WdNext
<1> QED
  BY <1>1

(* The variables of the device and its times have their types.             *)
THEOREM WdTypeCorrect == WdSpec => []WdTypeOK
<1>1. WdInit => TimesOK
  BY WatchdogAssumption DEF WdInit, TimesOK
<1>2. TypeOK /\ TimesOK => WdTypeOK
  BY DEF WdTypeOK, TimesOK
<1> QED
  BY <1>1, <1>2, TimesKept, TimedImplementsUntimed, TypeCorrect, PTL DEF WdSpec

-----------------------------------------------------------------------------

(* While the network is up, a feed is on its way and comes before the end  *)
(* of the window; or the network is up so recently that watchdog_work,     *)
(* which was submitted then, may still wait for its turn.                  *)
FeedInv ==
    connected =>
        \/ watchdog /\ (biteIn > dueIn + MaxLate - late \/ lasted + dueIn <= late)
        \/ wdpc = "feed" /\ (biteIn > 0 \/ lasted <= MaxLate)
        \/ wdpc = "submit" /\ biteIn = MaxWindow
        \/ netpc = "reschedule" /\ lasted = 0

LEMMA FeedInvKept == TimesOK /\ FeedInv /\ [WdNext]_wdallvars => FeedInv'
<1> USE WatchdogAssumption
<1>1. ASSUME TimesOK, FeedInv, [WdNext]_wdallvars PROVE FeedInv'
  <2> USE <1>1 DEF TimesOK, FeedInv
  <2>1. CASE Untimed
    <3>1. UNCHANGED <<connected, watchdog, wdpc, netpc>>
      BY <2>1 DEF Untimed, InitDevice, InitDeviceFails, SchedulePublish,
           PacketArrives, KeepAliveLost, ClientThread, ClientStep, StartClient,
           StartClientFails, CheckConnected, Connect, ConnectFails, Wake,
           ConnectInput, WorkInput, Input, Poll, PollFails, ReadRequest,
           PublishOk, PublishFails, Deinit, Retry, netvars, wdvars
    <3> QED
      BY <2>1, <3>1 DEF Untimed, timevars
  <2>2. CASE WdNetConnected
    BY <2>2 DEF WdNetConnected, NetConnected, wdvars
  <2>3. CASE WdNetDisconnected
    BY <2>3 DEF WdNetDisconnected, NetDisconnected
  <2>4. CASE WdNetReschedule
    BY <2>4 DEF WdNetReschedule, NetReschedule
  <2>5. CASE WdWork
    BY <2>5 DEF WdWork, WatchdogWork, netvars
  <2>6. CASE WdFeed
    BY <2>6 DEF WdFeed, WatchdogFeed, netvars
  <2>7. CASE WdSubmit
    BY <2>7 DEF WdSubmit, WatchdogSubmit, netvars
  <2>8. CASE Tick
    BY <2>8 DEF Tick, OnTime, vars, netvars, wdvars
  <2>9. CASE WdReset
    BY <2>9 DEF WdReset, Reset
  <2>10. CASE UNCHANGED wdallvars
    BY <2>10 DEF wdallvars, vars, netvars, wdvars, timevars
  <2> QED
    BY <2>1, <2>2, <2>3, <2>4, <2>5, <2>6, <2>7, <2>8, <2>9, <2>10 DEF WdNext
<1> QED
  BY <1>1

(* The watchdog spares a device whose network has been up for longer than  *)
(* the work queue may be late.                                             *)
THEOREM ConnectedDeviceIsSpared == WdSpec => []NoFalseReset
<1>1. WdInit => TimesOK /\ FeedInv
  BY WatchdogAssumption DEF WdInit, Init, TimesOK, FeedInv
<1>2. TimesOK /\ FeedInv => NoFalseReset
  BY WatchdogAssumption DEF TimesOK, FeedInv, NoFalseReset
<1> QED
  BY <1>1, <1>2, TimesKept, FeedInvKept, PTL DEF WdSpec

-----------------------------------------------------------------------------

(* A handler that found the network up and lost it since feeds at once.    *)
OutageInv ==
    /\ OutageBounded
    /\ ~connected /\ wdpc = "feed" => lasted = 0

LEMMA OutageInvKept == TimesOK /\ OutageInv /\ [WdNext]_wdallvars => OutageInv'
<1> USE WatchdogAssumption
<1>1. ASSUME TimesOK, OutageInv, [WdNext]_wdallvars PROVE OutageInv'
  <2> USE <1>1 DEF TimesOK, OutageInv, OutageBounded
  <2>1. CASE Untimed
    <3>1. UNCHANGED <<connected, wdpc>>
      BY <2>1 DEF Untimed, InitDevice, InitDeviceFails, SchedulePublish,
           PacketArrives, KeepAliveLost, ClientThread, ClientStep, StartClient,
           StartClientFails, CheckConnected, Connect, ConnectFails, Wake,
           ConnectInput, WorkInput, Input, Poll, PollFails, ReadRequest,
           PublishOk, PublishFails, Deinit, Retry, netvars, wdvars
    <3> QED
      BY <2>1, <3>1 DEF Untimed, timevars
  <2>2. CASE WdNetConnected
    BY <2>2 DEF WdNetConnected, NetConnected
  <2>3. CASE WdNetDisconnected
    BY <2>3 DEF WdNetDisconnected, NetDisconnected, wdvars
  <2>4. CASE WdNetReschedule
    BY <2>4 DEF WdNetReschedule, NetReschedule
  <2>5. CASE WdWork
    BY <2>5 DEF WdWork, WatchdogWork, netvars
  <2>6. CASE WdFeed
    BY <2>6 DEF WdFeed, WatchdogFeed, netvars
  <2>7. CASE WdSubmit
    BY <2>7 DEF WdSubmit, WatchdogSubmit, netvars
  <2>8. CASE Tick
    BY <2>8 DEF Tick, vars, netvars, wdvars
  <2>9. CASE WdReset
    BY <2>9 DEF WdReset, Reset
  <2>10. CASE UNCHANGED wdallvars
    BY <2>10 DEF wdallvars, vars, netvars, wdvars, timevars
  <2> QED
    BY <2>1, <2>2, <2>3, <2>4, <2>5, <2>6, <2>7, <2>8, <2>9, <2>10 DEF WdNext
<1> QED
  BY <1>1

(* A device without a network is reset within the watchdog's window.       *)
THEOREM OutagesEnd == WdSpec => []OutageBounded
<1>1. WdInit => TimesOK /\ OutageInv
  BY WatchdogAssumption DEF WdInit, Init, TimesOK, OutageInv, OutageBounded
<1>2. OutageInv => OutageBounded
  BY DEF OutageInv
<1> QED
  BY <1>1, <1>2, TimesKept, OutageInvKept, PTL DEF WdSpec
=============================================================================
