------------------------------ MODULE Pms5003 -------------------------------
(***************************************************************************)
(* apps/pms5003/src/main.c: the particle sensor.  It sends packets of 32   *)
(* bytes on its own; uart_callback copies one and disables the receiver,   *)
(* rx_work_handler parses it and enables the receiver again.               *)
(*                                                                         *)
(* While the receiver is being disabled the driver may still report what   *)
(* came after an incomplete packet; that replaces one packet parse_packet  *)
(* refuses by another and is left out.                                     *)
(***************************************************************************)
EXTENDS Sensor

VARIABLES pmsmain,      \* main after mqttsndev_init: "boot", "done", "failed"
          uart,         \* receiver: "off", "on", "stopping"
          stop_reason,  \* is not zero
          raw_message,  \* a reading, or "bad": not a packet
          rx_work       \* "idle", "queued", "copy", "restart"

pmsvars == <<pmsmain, uart, stop_reason, raw_message, rx_work>>

PmsTypeOK ==
    /\ pmsmain \in {"boot", "done", "failed"}
    /\ uart \in {"off", "on", "stopping"}
    /\ stop_reason \in BOOLEAN
    /\ raw_message \in Readings \union {"bad"}
    /\ rx_work \in {"idle", "queued", "copy", "restart"}

PmsInit ==
    /\ pmsmain = "boot"
    /\ uart = "off"
    /\ stop_reason = FALSE
    /\ raw_message = "bad"
    /\ rx_work = "idle"

-----------------------------------------------------------------------------

(* start_rx: a failure is only logged.                                     *)
StartRx == \/ uart' = "on" /\ NoFault
           \/ uart' = "off" /\ Fault

(* main goes on whether or not mqttsndev_init succeeded.                   *)
PmsMain ==
    /\ pmsmain = "boot" /\ main # "boot" /\ MainTurn
    /\ \/ pmsmain' = "done" /\ StartRx
       \/ pmsmain' = "failed" /\ Fault /\ UNCHANGED uart
    /\ UNCHANGED <<devvars, sensorvars, stop_reason, raw_message, rx_work>>

(* UART_RX_RDY: the buffer is full, or the line was silent for too long.   *)
RxReady(message) ==
    /\ uart = "on"
    /\ raw_message' = message
    /\ uart' = "stopping"
    /\ UNCHANGED <<vars, sensorvars, pmsmain, stop_reason, rx_work>>

(* UART_RX_STOPPED: a line error, also while the receiver is disabled.     *)
RxError ==
    /\ uart \in {"on", "stopping"}
    /\ stop_reason' = TRUE
    /\ uart' = "stopping"
    /\ Fault
    /\ UNCHANGED <<devvars, sensorvars, pmsmain, raw_message, rx_work>>

(* Mutant: reception goes on while the packet waits to be parsed.          *)
RxDisabledGoesOn ==
    /\ uart = "stopping"
    /\ rx_work' = IF stop_reason THEN rx_work ELSE "queued"
    /\ StartRx
    /\ UNCHANGED <<devvars, sensorvars, pmsmain, stop_reason, raw_message>>

(* UART_RX_DISABLED: without an error the packet is handed to the work     *)
(* queue, which restarts reception.  Nobody clears stop_reason.            *)
RxDisabled ==
    /\ uart = "stopping"
    /\ \/ /\ ~stop_reason
          /\ uart' = "off"
          /\ rx_work' = "queued"
          /\ NoFault
       \/ /\ stop_reason
          /\ StartRx
          /\ UNCHANGED rx_work
    /\ UNCHANGED <<devvars, sensorvars, pmsmain, stop_reason, raw_message>>

-----------------------------------------------------------------------------
(* rx_work_handler.                                                        *)

PmsWqTurn == WqTurn /\ wdpc = "idle"

Parse ==
    /\ rx_work = "queued" /\ PmsWqTurn
    /\ IF raw_message = "bad"
       THEN rx_work' = "restart" /\ UNCHANGED sensorvars
       ELSE rx_work' = "copy" /\ Measure(raw_message)
    /\ UNCHANGED <<vars, pmsmain, uart, stop_reason, raw_message>>

(* memcpy to current_channels.                                             *)
Copy ==
    /\ rx_work = "copy" /\ PmsWqTurn
    /\ AssignNext
    /\ UNCHANGED pmsvars

RequestPacket ==
    /\ rx_work = "copy" /\ PmsWqTurn
    /\ Request
    /\ rx_work' = "restart"
    /\ UNCHANGED <<pmsmain, uart, stop_reason, raw_message>>

RestartRx ==
    /\ rx_work = "restart" /\ PmsWqTurn
    /\ rx_work' = "idle"
    /\ StartRx
    /\ UNCHANGED <<devvars, sensorvars, pmsmain, stop_reason, raw_message>>

RxWork == Parse \/ Copy \/ RequestPacket \/ RestartRx

-----------------------------------------------------------------------------

(* Mutant: the client thread may interrupt the work queue.                 *)
PmsClientTurnPreempts == TRUE

(* The client thread runs between two items of the work queue.             *)
PmsClientTurn == Cooperative => rx_work \in {"idle", "queued"} /\ wdpc = "idle"

PmsClient ==
    /\ PmsClientTurn
    /\ \/ SensorPublish
       \/ ClientStep /\ UNCHANGED sensorvars
    /\ UNCHANGED pmsvars

(* The work queue runs one item at a time.                                 *)
PmsWatchdog ==
    /\ rx_work \in {"idle", "queued"} /\ WqTurn
    /\ Watchdog \/ (wdpc = "idle" /\ KeepAliveLost)
    /\ UNCHANGED <<sensorvars, pmsvars>>

PmsDevice ==
    /\ InitDevice \/ InitDeviceFails \/ Network
    /\ UNCHANGED <<sensorvars, pmsvars>>

PmsReset ==
    /\ Reset
    /\ SensorReset
    /\ pmsmain' = "boot"
    /\ uart' = "off"
    /\ stop_reason' = FALSE
    /\ raw_message' = "bad"
    /\ rx_work' = "idle"

PmsNext ==
    \/ PmsMain
    \/ \E m \in Readings \union {"bad"} : RxReady(m)
    \/ RxError \/ RxDisabled
    \/ RxWork
    \/ PmsClient \/ PmsWatchdog \/ PmsDevice \/ PmsReset

(* The application will never publish again: the receiver is off with      *)
(* nobody to start it, or stop_reason keeps packets from being parsed.     *)
PmsMute ==
    \/ pmsmain = "failed"
    \/ pmsmain = "done" /\ uart = "off" /\ rx_work = "idle"
    \/ stop_reason /\ rx_work = "idle"
=============================================================================
