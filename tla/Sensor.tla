------------------------------- MODULE Sensor -------------------------------
(***************************************************************************)
(* What the two sensor applications have in common: static variables that  *)
(* a reading is assigned to, and a publish callback that sends one topic   *)
(* per variable and stops at the first that fails.                         *)
(*                                                                         *)
(* A value is the reading it was taken from.  sent and unserved are        *)
(* history: what the gateway was told since the reset, and whether a       *)
(* request was taken by a publish that failed.                             *)
(***************************************************************************)
EXTENDS Threads

CONSTANTS Readings,     \* what the sensor may measure
          Topics        \* number of static variables

ASSUME SensorAssumption == Topics \in Nat \ {0} /\ "nothing" \notin Readings

VARIABLES reading,      \* the reading being assigned
          written,      \* how many variables have it
          values,       \* the static variables
          topic,        \* how many of them publish_callback has sent
          sent,
          unserved

sensorvars == <<reading, written, values, topic, sent, unserved>>

Reading == Readings \union {"nothing"}
Nothing == [t \in 1 .. Topics |-> "nothing"]

SensorTypeOK ==
    /\ reading \in Reading
    /\ written \in 0 .. Topics /\ topic \in 0 .. Topics
    /\ values \in [1 .. Topics -> Reading] /\ sent \in [1 .. Topics -> Reading]
    /\ unserved \in BOOLEAN

SensorInit ==
    /\ reading = "nothing"
    /\ written = 0
    /\ values = Nothing
    /\ topic = 0
    /\ sent = Nothing
    /\ unserved = FALSE

SensorReset ==
    /\ reading' = "nothing"
    /\ written' = 0
    /\ values' = Nothing
    /\ topic' = 0
    /\ sent' = Nothing
    /\ unserved' = FALSE

(* A new reading, all of whose values are still to be assigned.            *)
Measure(r) ==
    /\ reading' = r
    /\ written' = 0
    /\ UNCHANGED <<values, topic, sent, unserved>>

Assigned == written = Topics

AssignNext ==
    /\ ~Assigned
    /\ written' = written + 1
    /\ values' = [values EXCEPT ![written + 1] = reading]
    /\ UNCHANGED <<vars, reading, topic, sent, unserved>>

(* mqttsndev_schedule_publish_callback for it.                             *)
Request ==
    /\ Assigned
    /\ SchedulePublish
    /\ reading' = "nothing"
    /\ written' = 0
    /\ UNCHANGED <<values, topic, sent, unserved>>

-----------------------------------------------------------------------------
(* publish_callback.                                                       *)

PublishTopic ==
    /\ thread = "publish" /\ topic < Topics
    /\ topic' = topic + 1
    /\ sent' = [sent EXCEPT ![topic + 1] = values[topic + 1]]
    /\ UNCHANGED <<vars, reading, written, values, unserved>>

PublishTopicFails ==
    /\ topic < Topics
    /\ PublishFails
    /\ topic' = 0
    /\ unserved' = TRUE
    /\ UNCHANGED <<reading, written, values, sent>>

PublishedAll ==
    /\ topic = Topics
    /\ PublishOk
    /\ topic' = 0
    /\ unserved' = FALSE
    /\ UNCHANGED <<reading, written, values, sent>>

SensorPublish == PublishTopic \/ PublishTopicFails \/ PublishedAll

(* All topics were sent from one reading.                                  *)
Whole == \A t \in 1 .. Topics : sent[t] = sent[1]
=============================================================================
