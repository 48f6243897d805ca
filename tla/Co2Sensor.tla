----------------------------- MODULE Co2Sensor ------------------------------
(***************************************************************************)
(* apps/co2sensor/src/main.c: the CO2 sensor, whose main thread reads four *)
(* registers every five seconds and assigns them one by one, while the     *)
(* client thread may interrupt it and publish them.                        *)
(***************************************************************************)
EXTENDS Sensor

VARIABLE co2main        \* where main is

Co2TypeOK == co2main \in {"boot", "init", "read", "assign", "sleep", "failed"}

Co2Init == co2main = "boot"

-----------------------------------------------------------------------------

(* init_modbus_client; if it fails main returns before mqttsndev_init.     *)
InitModbus ==
    /\ co2main = "boot" /\ MainTurn
    /\ \/ co2main' = "init" /\ NoFault
       \/ co2main' = "failed" /\ Fault
    /\ UNCHANGED <<devvars, sensorvars>>

(* The result of mqttsndev_init is ignored.                                *)
Co2InitDevice ==
    /\ co2main = "init" /\ MainTurn
    /\ InitDevice \/ InitDeviceFails
    /\ co2main' = "read"
    /\ UNCHANGED sensorvars

ReadRegisters ==
    /\ co2main = "read" /\ MainTurn
    /\ \E r \in Readings : Measure(r)
    /\ co2main' = "assign"
    /\ UNCHANGED vars

(* Mutant: main returns, as it does when the bus cannot be initialised.    *)
ReadRegistersFailsOnce ==
    /\ co2main = "read" /\ MainTurn
    /\ co2main' = "failed"
    /\ UNCHANGED <<vars, sensorvars>>

(* The bus may fail as often as it likes.                                  *)
ReadRegistersFails ==
    /\ co2main = "read" /\ MainTurn
    /\ co2main' = "sleep"
    /\ UNCHANGED <<vars, sensorvars>>

(* meterstatus, alarmstatus, outputstatus, spaceco2.                       *)
AssignRegister ==
    /\ co2main = "assign" /\ MainTurn
    /\ AssignNext
    /\ UNCHANGED co2main

RequestRegisters ==
    /\ co2main = "assign" /\ MainTurn
    /\ Request
    /\ co2main' = "sleep"

(* k_sleep of five seconds.                                                *)
NextReading ==
    /\ co2main = "sleep" /\ MainTurn
    /\ co2main' = "read"
    /\ UNCHANGED <<vars, sensorvars>>

Co2Main ==
    \/ InitModbus \/ Co2InitDevice
    \/ ReadRegisters \/ ReadRegistersFails \/ AssignRegister \/ RequestRegisters
    \/ NextReading

-----------------------------------------------------------------------------

(* The client thread interrupts main, but not the work queue.              *)
Co2Client ==
    /\ Cooperative => wdpc = "idle"
    /\ \/ SensorPublish
       \/ ClientStep /\ UNCHANGED sensorvars
    /\ UNCHANGED co2main

Co2Watchdog ==
    /\ WqTurn
    /\ Watchdog \/ (wdpc = "idle" /\ KeepAliveLost)
    /\ UNCHANGED <<sensorvars, co2main>>

Co2Network == Network /\ UNCHANGED <<sensorvars, co2main>>

Co2Reset == Reset /\ SensorReset /\ co2main' = "boot"

Co2Next == Co2Main \/ Co2Client \/ Co2Watchdog \/ Co2Network \/ Co2Reset
=============================================================================
