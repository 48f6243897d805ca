# A TLA+ model of smartmeter-openthread

This directory specifies, model-checks and proves properties of the firmware in
this repository: battery- and mains-powered Zephyr devices that read a smart
meter (SML over an optical UART), a particle sensor or a CO2 sensor and publish
what they read over MQTT-SN on an OpenThread network. Paths below are relative
to `src/`.

Contents: [parts](#the-systems-parts) · [modules](#modules) · [runs](#runs) ·
[assumptions](#assumptions) · [proofs](#proofs) ·
[what is not modelled](#not-modelled) · [plan](#plan)

## The system's parts

| part | code | state it keeps | operations | how it interacts |
|---|---|---|---|---|
| UART reception | `apps/powermeter/src/uart.c` 12-150, 201-231 | slab of receive buffers, ring buffer, semaphore, two work items | driver events, `startrx_work_handler`, `uart_rx_work_handler`, `app_setup_uart` | interrupt → semaphore → work queue → `sml_poll`, which calls back `sml_read_cb` |
| SML frame layer | `modules/rust/sml/src/frame.rs` | state of the start automaton; two word buffers, escape flag, digest | `wait_for_start_sequence`, `CheckingReader::poll_read`, `read_frame` | polled from `sml_poll`; pulls bytes from the ring buffer; pulled by the TLV reader |
| TLV reader | `modules/rust/sml/src/tlv.rs` | counters of bytes and items still to be skipped | read header, next item, drop, skip | between the message parsers and the message checksum reader |
| SML task and callback | `modules/rust/sml/src/lib.rs`, `message.rs`, `modules/rust/smartmeter/src/lib.rs` | digest of a message; the power and energy found so far | `task`, `message_received`, `frame_finished` | calls `sml_data_cb` once per valid frame |
| C interface | `modules/rust/smartmeter/src/capi.rs` | the future in the caller's memory | `sml_init`, `sml_poll`, `Reader::poll_read` | between `uart.c` and Rust |
| power samples | `uart.c` 33-35, 152-199 | `active_power`, `num_samples`, `active_energy` | `sml_data_cb`, `app_publish_callback` | written on the work queue, read and reset on the MQTT thread, without a lock |
| MQTT-SN device module | `modules/mqttsndev/lib.c` | `mqtt_sn_connected`, `connected`, `started`, the eventfd, `watchdog_work` | `mqttsndev_init`, `net_event_handler`, `run_mqtt_client`, `do_work`, `watchdog_work_handler` | applications write the eventfd; network events start the thread; the work queue feeds the watchdog |
| settings and shell | `modules/mqttsndev/settings.c` | gateway address and port, client id, in RAM and in flash | load, show, set | read by `run_mqtt_client` when a client starts |
| particle sensor | `apps/pms5003/src/main.c` | last message, 13 channels, `stop_reason` | UART events, `rx_work_handler`, `publish_callback` | work queue writes the channels, MQTT thread publishes them |
| CO2 sensor | `apps/co2sensor/src/main.c` | four registers | Modbus poll every 5 s, `publish_callback` | main thread writes the registers, MQTT thread publishes them |
| message type generator | `modules/rust/sml/build.rs` | the types and typedefs read so far, the block and the field being read | read the specification's text, validate, generate | runs at build time; its output is the next row |
| generated parsers | `modules/rust/sml/templates/messages.rs` | per object: the list it borrows, whether it was parsed; which field is next is the object's type | functions of fields, `parse`, `finish`, `next`, `read` | between the TLV reader and `read_frame`, `MessageCallback` |
| router, coprocessor | `apps/router`, `apps/coprocessor` | none | `main` logs | OpenThread does the work |

What makes this code hard, and what "correct" means for it:

* **UART reception** lives in three contexts (interrupt, work queue, main) with
  a semaphore that may hold one token, a work item that resubmits itself, and a
  driver that gives buffers back through a sequence of events. Correct: no
  buffer is lost, no wakeup is missed, the Rust future is polled by one party at
  a time, a receiver that stopped comes back.
* **The frame layer** decides about a word only when it has seen the next one,
  can be suspended between any two bytes, and reads a line that loses and
  garbles. Correct: what it delivers without an error was sent, exactly.
* **The device module** has one flag written by three contexts, an eventfd read
  before the work it asks for is done, and a watchdog fed by a chain of work
  submissions that network events cut and splice, on a queue whose other items
  may sleep for ten seconds. Correct: no stale flag, no lost request, no broken
  chain; no device with a network is reset, every device without one is.
* **The power samples** are protected by nothing but thread priorities. Correct:
  no 0/0, no torn average, no sample thrown away.
* **The sensors** assign several variables one by one while another thread
  publishes them one by one, and one request stands for many readings. Correct:
  what is published belongs together, and in the end the gateway knows every
  value, also when a publish failed in the middle. The particle sensor's
  receiver is stopped and started for every packet. Correct: no order of errors
  and packets stops it for good.
* **The generated parsers** fix at build time which item of a list a function
  reads, while the program decides at run time which fields it leaves out, drops
  half read or finishes; and what is generated depends on the layout of a text.
  Correct: each function reads its own field's item, no conforming message is
  refused, and the types are the specification's.

The full list of hazards, with the line where each bites and the property that
would catch it, is in `PROJECT.json`.

## Modules

```
BytePipe <--implements-- UartRx        StartSequence     CheckingReader
                           |                 |                 |
                     UartRxProofs   StartSequenceProofs    SmlFrame -- SmlFrameProofs

                 +--implements-- Watchdog -- MqttsnDeviceProofs
                 v                                 |             TlvReader -- TlvReaderProofs
            MqttsnDevice                           |             SmlTask -- SmlTaskProofs
                 |                                 |
              Threads                              |             SpecParser
              /     \                              |                 |
    PowermeterApp   Sensor                         |             MessageParser
            |      /    \                          |                 |
            |  Pms5003  Co2Sensor                  |             MessageParserProofs
            |      |      |                        |
            +-- Applications -- ApplicationsProofs-+    (MC<module>: instances for TLC)
```

A line down is EXTENDS.

**UartRx** — `uart.c`'s reception. One action per driver event, per step of the
two work handlers between two points where another context may act, and per step
of `app_setup_uart`. `pc` says where the work queue and the main thread are; the
interrupt is atomic. The driver is described by its contract: it fills `cur`,
keeps `nxt` in reserve, asks for a reserve (`request`), reports what it received
and ends with the release of its buffers. `filled`/`reported` count bytes, never
hold them. `RxStopped` and `RxBufEnd` are the two ways to stop: with and without
`UART_RX_STOPPED`. `app_unrecoverable_error` is `Reboot`, with everything else
running on during its ten seconds.

**BytePipe** — the promise of UartRx to the SML reader: a pipe with two variables,
the bytes received and not yet reported (`pending`) and those waiting to be read
(`queued`). A report moves all pending bytes into the queue, as many as fit; the
others, and only they, are lost. What is pending is eventually reported, what is
queued eventually read. `UartRx!ImplementsPipe` is its whole specification,
fairness included, under `queued <- ring` and `pending <- filled - reported`.

**StartSequence** — `wait_for_start_sequence`. `Advance` is the transition
function; `seen` is a history variable with the last nine bytes.

**CheckingReader** — `frame::CheckingReader`. One action per path through a turn
of `poll_read`'s loop. Words of four bytes are records (`Esc`, `Start`,
`DataWord`, `Footer`); `digest` is the sequence of what was digested, that is, an
ideal checksum. The byte arithmetic of the fill bytes, of `returned` and of
partial reads is kept.

**SmlFrame** — puts a sender that encodes payloads and a line that garbles,
inserts, repeats and loses words in front of CheckingReader, and a consumer that
asks for 1 to 4 bytes at its end. Each attempt begins with a fresh reader behind
a start marker, as in `read_frame`.

**TlvReader** — `tlv.rs`. The document is a sequence of bytes that may end
anywhere; `ReadTlvInner` is the header decoding, with the width of `usize` as
the parameter `UsizeRange`. The program that uses the reader is any that the
borrow checker lets compile: `open` is the chain of lists it holds, `item` the
value it was given. Dropping changes only `remaining_bytes` and
`remaining_tlvs`; the next call first works them off (`SkipBytes`, `SkipTlv` per
round of `skip_tlvs`), then reads a header. `messages` is a history variable.
`Behind`, at the end of the module, is the reference: where the n-th item begins
if everything is parsed from the front. `IsWellFormed` defines by it what a good
document is: messages one behind the other, each a list whose end mark is its last
item.

**SmlTask** — `task`, the message loop of `read_frame`, the message checksum and
`MessageCallback`. A frame is a sequence of messages with the entries that matter; that
it can be found, checked and taken apart is what the three modules above say. `digest`
is the set of message parts summed up, an ideal checksum again. `SkipNow` (what the
callback left unread is read into the digest) and `FinalizeBody` are two steps, as in
the code. `reported` is a history variable: the calls of the application's callback for
the present frame.

**MqttsnDevice** — `lib.c`. `thread` is the program counter of `run_mqtt_client`
and `do_work`, `netpc` and `wdpc` those of `net_event_handler` and
`watchdog_work_handler`, so that all three interleave in the places where they
touch shared state. The gateway answers a CONNECT or not, sends disconnects,
other packets and malformed ones; keep-alive may clear `mqtt_sn_connected` at any
time. `WatchdogReset` resets the chip when nobody is left to feed the watchdog;
without a clock that is all that can be said of when.

**Watchdog** — MqttsnDevice with a clock. `dueIn` and `late` say when
`watchdog_work` is due and how long it has been waiting for the work queue,
`biteIn` what is left of the hardware's window, `lasted` how long `connected` has
had its value (history). `Tick` is the only action that takes time. Every step
of it is a step of MqttsnDevice or leaves it alone.

**Threads** — who may run when. `Cooperative` states that the MQTT thread and the
work queue have their default priorities, so that one gets its turn only while
the other sleeps or waits (`WqTurn`); the main thread is interrupted by both
(`MainTurn`). The three applications extend it.

**PowermeterApp** — the power meter's two callbacks, each in as many steps as it
has accesses to shared variables. `active_power` is the number of values in the
sum.

**Sensor** — what the two sensors share: `values`, the static variables, to which
a reading is assigned one by one, and `publish_callback`, which sends them one by
one and stops at the first that fails. `sent` (what the gateway was last told)
and `unserved` (a request was taken by a publish that failed) are history
variables.

**Pms5003** — `uart_callback`, `rx_work_handler`, `main` and `publish_callback`.
`stop_reason` keeps whether it is zero, `raw_message` whether it is a packet and
which reading it holds.

**Co2Sensor** — `main`'s polling loop with its four assignments, and
`publish_callback`. `main` ignores the result of `mqttsndev_init`.

**Applications** — one device, flashed with one of the three: `firmware` selects
the next-state relation. It carries the properties of the sensors, which compare
their variables with those of the device module.

**SpecParser** — `build.rs`. One action per kind of line and state of the reader:
outside a block, in a block, in a comment of several lines. A line is what the
regular expressions make of it. `Put` is what adding a field does: a sequence keeps
them all in order, the other kinds are maps. `Validate` is the end of `main`, which
compares the names of variants (`Ambiguous`); that an implicit choice has no variant
that was defined nowhere (`Unsendable`) is what the template asks of it. `TlvTypes`
is `type_to_tlvtypes`; `DirectTypes` leaves the nested implicit choices out.
The end of the module says how a text is laid out (`LaidOut`): in `parts` of one line
or several (prose, a typedef, a header, a field with its comment, a blank line, what
closes a block, a defect), each with the type as it is defined so far. The parts are
no state of the program: nothing but the property looks at them. Which types and
typedefs are to be read (`TypesRead`, `TypedefsRead`) follows from them; of two with
one name the later one is in force.

**MessageParser** — `templates/messages.rs`: a program that holds a `stack` of
objects of the generated code, each of which borrows the list of the one below,
and calls any function of the youngest one, in any order. `CallField` is any
function of a sequence, also of a later field (`List::skip`); `Parse` and
`Finish` are those of the struct that stands before a field that is no number;
`NextEntry`, `ReadChoice` and `ReadImplicitChoice` are the other kinds' functions.
An item's value is kept only where it is a tag. `last` is a history variable.
`HasParser` says where which type may stand, so that the generated crate compiles
(`Compiles`); where it does not, nothing is read.
The end of the module says what a message that follows the types is. Items are trees
of any depth, and a definition by recursion is out of the provers' reach; so the
set `Sent` of pairs of an item and the type it is sent as is a parameter, and
`Faithful` says that each of its pairs obeys the rule of its type (`Fits`), where
what a list contains must be in `Sent` again. A message follows the types if there
is such a set for it.

## Runs

All runs check deadlock freedom, since these systems run for ever, except those of
TlvReader and `generated_parser`: a program stops after a fatal error and when
its message is read.

| run | instance | properties |
|---|---|---|
| `uart_rx` | 2 buffers of 2 bytes, ring of 3 | below |
| `start_sequence` | 3 bytes: 1B, 01, any other | `Sound`, `FindsMarkerAfterOther` |
| `start_sequence_missed` | the same | `FindsMarker` is **violated** |
| `sml_frame` | payloads of 0-2 words over {d, escape}, 0-4 fill bytes, 2 faults per attempt | below |
| `mqttsn_device` | 2 requests, 2 packets, 2 faults; feed interval 2, window 4, lateness 1 | below |
| `applications` | cooperative threads; 3 samples, 2 readings, 2 topics, 1 request, 1 packet, 1 fault | below |
| `pms5003_error` | the same with 1 reading, 1 topic, 1 sample | `ErrorDelaysOnly` is **violated** |
| `tlv_reader` | 2 well-formed documents of 2 messages, 5 malformed ones, cut anywhere; 12-bit lengths | below |
| `tlv_list_length` | a list of 16 items | `ListLengthIsItemCount` is **violated** |
| `tlv_huge_length` | a string whose length needs 16 bits | `LengthFits` is **violated** |
| `sml_task` | frames of 0-2 messages with 0-3 entries, 2 numbers | below |
| `generated_parser` | 3 layouts of a specification of seven types, 8 texts with a defect, 4 with variants that cannot be told apart or are undefined; 3 conforming messages, 14 others | below |

Each passing run also checks its module's type invariant, except `start_sequence` and
`sml_frame`; the first is part of the invariant StartSequenceProofs proves.

`uart_rx`: `SlabOwnership` (each buffer has one owner), `HandlerToken` (one activation
of `uart_rx_work_handler`), `NoLostWakeup`, `RestartArmed` (a receiver that does not run
has exactly one restart coming, a running one none), `RequestAnswered` (no buffer
starvation), `Recovers` (a stopped receiver runs again) and `ImplementsPipe` (every byte
the driver filled in comes into the ring once, with the report it belongs to, unless the
ring is full, and is read). *Bounds:* two buffers are the Kconfig default; two bytes let
a buffer be reported in one part or two; a ring of three overflows with the second
buffer. More bytes only repeat these cases, and the proofs below need no bound.

`start_sequence`: the automaton compares with two byte values only, so three
bytes are all there are. It returns only right after a marker, and finds every
marker that does not follow a byte 01. `start_sequence_missed` shows why not
every one: after `1B 1B 1B 1B 01` the first byte of the next marker sends the
automaton to 0 instead of 1, and the marker it begins is missed. One frame is
lost; the next is found.

`sml_frame`: `CleanIsSent` (a frame that ends without error is byte for byte one
that was sent, whatever the line did), `NoFillByteLeaks` and `EndIsExact` (on a
good line the consumer gets exactly the payload, and `has_ended` turns true with
its last byte; the end of an empty payload is known only after a read), `AttemptEnds`
(no attempt hangs on a reader that waits for a word it has no room for). *Bounds:*
the two word buffers swap with every word, so two words of payload plus escapes
and footer exercise each role of each buffer; two faults suffice to lose a footer
and garble what follows.

`tlv_reader`: `ItemsInOrder` (whatever was read, refused, skipped or dropped before, the
next item handed out is the next one of the list asked for, and the next message list
the next message), `NoFalseAlarm` (a well-formed document is never blamed),
`EndIsTheEnd` (`next_end` succeeds exactly at a message's end and leaves nothing to
skip). *Bounds:* the documents have lists in lists, an empty list, values longer than
the four bytes `skip_bytes` reads at a time, values made of bytes that would pass for
headers, and a header of two bytes; the program may do anything at any point of them.
Lists of 16 and more items are kept out of the well-formed documents, because of the
next run.

`tlv_list_length`: in a header of several bytes `read_tlv_inner` looks for the list
type in the last byte, where it never is, and subtracts the header's size from
the number of items. A list of 16 items is handed out with 14, and the last two
are then read one level too high. `tlv_huge_length`: `checked_shl` only refuses to
shift too far, and four bits are never too far, so a length that does not fit is
cut off and `TlvLengthTooBig`, documented in `error.rs`, is never returned. The
width is scaled down from 32 to 12 bits to keep the document short.

`sml_task`: `ReportsWhatWasSent` (one call of the application for a frame in which
nothing is damaged or unreadable and each of the two values stands once, with
these two values; none otherwise) and `ChecksumCoversMessage` (the checksum
compared is that of exactly this message: nothing of it is missing that the callback
did not ask for, nothing of the message before is left). Both values are
stored long before the checksums behind them are compared. As the code has it, a
negative power or a value that cannot be read makes the whole frame invalid, a
frame whose values stand twice too. *Bounds:* two messages make the reset between
messages matter, three entries put a duplicate behind both values; frames follow
each other without end, so that values may outlive a frame.

`mqttsn_device`: `ConnectedMeansClient` (the flag never outlives its client),
`FeedArmed` (while the network is up the feeding chain is unbroken),
`RequestServed` and `DeadDeviceResets`; with the clock `NoFalseReset` (the
watchdog does not bite a device whose network has been up for longer than the
work queue may be late) and `OutageBounded` (window and outage together never
exceed the window: an outage ends in a reset in time, and a feed begun just before
the network went does not buy a second window). A reset that meets a network that
has just come back is possible and not forbidden: the work queue had no turn yet.
*Bounds:* the eventfd is only tested for zero; two packets let a disconnect wait
behind a CONNACK; two faults let a failure hit the recovery from another. An
interval of two lets the network go and come within it, and four is the shortest
window that 2 + 1 leaves; the defaults are 1, 12 and 1 in units of ten seconds,
and the proofs hold for any with interval + lateness < window. 149 263 states.

`applications`: of the power meter `AverageIsWhole` (neither 0/0 nor a value that is not
counted), `NoSampleDropped`, `EverySamplePublished`; of the sensors `NothingForgotten`
(a value the gateway was not told is requested, about to be, still to be sent by the
publish under way, or its request was lost with a failed publish), `PublishedWhole` (a
publish that mixed two readings is followed by another; the particle sensor's never
does, and its receiver stays off while the work queue has a packet to parse, so that
`raw_message` is not overwritten) and `LostRequestIsMadeUpFor` (a later reading does it,
unless the device is reset or the particle sensor mute). *Bounds:* three samples may
arrive before, during and after a publish; two topics and two readings tell a torn
snapshot from a whole one; one fault may strike anywhere. With `Cooperative = FALSE` TLC
finds `AverageIsWhole`, `NoSampleDropped` and `PublishedWhole` violated: the priority in
`modules/mqttsndev/Kconfig` 22-26 is part of the correctness of `uart.c` and
`pms5003/src/main.c`, which say so nowhere. When the power meter's second publish fails
after the first, the published samples stay in the sum and are averaged a second time
(`PublishEnergyFails`); no property forbids that.

`pms5003_error`: `UART_RX_STOPPED` stores the reason of a line error in a static
variable that nothing clears. From then on `UART_RX_DISABLED` restarts the receiver
without submitting `rx_work`, also when it ends a good packet: packets are received for
ever and none is parsed until the next reset. `PmsMute` names this state and the one
where the receiver could not be started, so that the other properties can except them.
`boards/nrf52840dongle_nrf52840.conf` 4-5 takes trouble to avoid data processing that is
delayed permanently.

`generated_parser`: `SchemaIsSpecification` (the types and typedefs read are the ones
the parts of the text define; the build stops for a text with a defect or for types that
the validation refutes, and for no other), `VariantsToldApart` (no item fits two arms of
an implicit choice, which are generated in the order of a hash map), `FieldIsItsItem`
(whatever was left out, dropped half read or finished without being parsed, a field's
function reads that field's item) and `NoFalseRefusal` (a message that follows the types
that were read is never refused; that these are the specification's is
`SchemaIsSpecification`). Three exceptions are written into them. A comment of several
lines that also closes the block loses the field before it; in the specification only
`Boolean` is laid out so, which is left out anyway. The validation (`build.rs` 425)
compares names before typedefs and nested implicit choices are resolved, so that
ambiguous ones would pass; the specification has none. A field that is no number cannot
be asked for when it is absent. *Bounds:* the small specification has every kind,
typedefs, optional fields of both sorts, and every sort of item among the variants;
`MCSent` has every type of it with every length that may be sent, and all the good
messages obey its rules (`Conforming`), none of the malformed ones, which have a wrong
item, a wrong length or an end in every place. Every text of the instance is laid out in
the sense of `LaidOut`; one in which a choice has two variants of the same name, of
which the map keeps the last, would not be. A list that is not read to its end is the
business of `tlv_reader`. 4140 states.

## Assumptions

* *Driver contract.* A buffer request is answered before the buffer in use is
  full (at 9600 baud a 512-byte buffer lasts half a second); received bytes are
  reported once the line is silent; a stopping driver releases every buffer and
  then reports `UART_RX_DISABLED`. `uart_rx_buf_rsp` does not refuse: its result is
  ignored (`uart.c` 84), and a refused buffer would be lost for good.
* *`sml_poll` may fail.* `sml_read_cb` always returns 0, so today's
  `sml_poll` never ends its task (`capi.rs` 32-36 turn "no byte" into `Pending`, so
  SmlTask has no end of file); UartRx lets it fail, as `uart.c` provides for it.
* *Ideal checksums, aligned words.* A frame's CRC matches only the words it was
  computed over, a message's only what it was sent with, and the line loses whole
  words. Faults that shift the stream by
  single bytes end in garbled words, which are covered.
* *Fairness.* Weak fairness for every thread and work item: Zephyr runs a ready
  thread. Strong fairness for an item of the work queue to be begun: the queue is
  first in, first out, and both of its users return. Strong fairness of
  `StartRxEnable`: `uart_rx_enable` does not fail for ever. In SmlFrame the meter
  keeps sending and the task keeps reading. In the device module the network
  comes up, and a watchdog nobody feeds bites. Faults have no fairness and are
  bounded per run, since a network that always fails serves nobody.
  In Applications `firmware` never changes, so that fairness of a disjunction over
  it is fairness of the disjunct for the device there is; the particle sensor sends
  whole packets again and again among others (it does so on its own, whatever the
  receiver does), and Modbus does not fail for ever. The work queue and the client
  thread get their turns again and again, since both end what they began.
* *Time* (Watchdog). Code takes no time, waiting does. `wdt_feed` on an installed
  channel does not fail. An item of the work queue waits for at most `MaxLate`,
  ten seconds with `app_unrecoverable_error` as the longest sleep there is on it.
* *Messages* (MessageParser). Items are finite trees with lengths up to `MaxLength`, and
  an end mark, if there is one, is the last item of a message and in none of its lists
  (`ItemsAssumption`). It may come too early, when the message is short. The parse that
  meets it fails, and the program is not followed beyond: in the code the mark is then
  read but not counted (`tlv.rs` 233-234), and a skip over it fails (428-434), so that
  what comes next is not told by position. A number is sent with the lengths the tests
  in `tlv.rs` 474-521 accept: a wider type may lose leading zeros down to the next
  narrower type. The SML specification (paragraph 137) lets a sender drop all of them; a
  checksum below 256 sent in one byte is refused by the strict `into_` functions, and
  its frame is lost. The specification defines `SML_Message`: without it the crate does
  not compile.
* *Cooperative* (Threads): default priorities. `uart_rx_work_handler` runs
  once on the preemptible main thread, before the receiver can have delivered a
  frame (its start is scheduled a second later); that call is not considered
  there.
* *Configuration.* `CONFIG_WATCHDOG` and `CONFIG_NET_CONNECTION_MANAGER` are
  enabled and `watchdog_init` succeeds.

## Proofs

The theorems hold for every value of the constants; TLAPS checks them to the last
leaf. `Spec => []Inv` is always proved through an inductive invariant, one lemma
per group of actions.

* **UartRxProofs.** `IInv` adds to the properties `DriverShape`: which fields the
  driver has in which state, and that `startrx_work_handler` holds a buffer
  exactly between allocation and hand-over. Without it a second owner cannot be
  excluded. From it follow `TypeCorrect`, `BuffersHaveOneOwner`,
  `OneHandlerActivation` and `WakeupNeverLost`, for any number of buffers. The
  three results about restarts need `TwoBuffers` and `RInv`, which adds that
  nothing happens before `app_setup_uart` has scheduled the first start:
  `RestartNeverForgotten`, `NoStarvation`, `StartRxNeverWaitsInVain`. The crux is
  `FirstRequest`: when the receiver is enabled, everything but its own buffer is
  free. `PipeRefinement` is the safety half of `ImplementsPipe`, for any number of
  buffers: no byte is lost but those a report finds no room for. It needs that no byte
  is pending in a receiver without a buffer (`DriverShape`) and that nothing happens
  before `app_setup_uart` (`NothingBeforeSetup`), which empties the ring.
* **StartSequenceProofs.** The invariant says of each state how much of the
  marker the history ends with and that it is the longest match a byte other than
  01 can precede: `StartSound`, `StartFound`.
* **SmlFrameProofs.** `BufferInv` says that the second buffer holds a whole word
  or nothing while the reader reads, and that it has returned no more than there
  is: `NoEmptyRead`, `OneWordBehind`. Nothing is assumed of the words, so they
  hold for any line. `FrameInv` adds what was read and returned: there is a sequence
  D of payload words such that the digest is D with its escapes doubled, the second
  buffer holds its last word and the bytes before that have been returned
  (`Underway`), until a footer ends D and the last word is returned without its fill
  bytes (`ReturningLast`). Escaping maps no two sequences to the same one
  and the footer's checksum covers the number of fill bytes too, so a footer that
  matches tells that D is the payload it was sent for: `CleanFramesWereSent`, for
  any payloads and any number of faults. While there was no fault, what was digested
  and what is still on the line are together the encoded frame (`OnTrack`):
  `FillBytesStayHidden`, `FramesEndExactly`.
* **SmlTaskProofs.** `DigestInv`: what the digest holds at each point of the loop,
  empty where a message begins; the types cannot do without it, since they bound
  the number of messages read. `Passed`: every message behind the reader was
  intact. Together they give `OwnChecksum` and `ReportsAreIntact`, for frames of
  any size. `ValueInv` adds what `MessageCallback` knows: each option tells the
  value of the only entry of its name behind the reader, or there was none; and a
  frame is given up only for a reason. That is both halves of `ReportsAreExact`:
  whoever deserves a report gets one, with the right values, and nobody else.
* **TlvReaderProofs.** `TypeCorrect` needs `Serving`, that a call is worked off under
  the conditions it was made under, and that decoding a header ends: there is always a
  byte it stops with (`UsizeRange % 16 = 0` keeps the shifted length within the width).
  The other three speak of well-formed documents. `Placed` says that skipping `Owed`
  items from `From`, where the counters say the reader is, leads to where the innermost
  list has got to, by the reference `Behind` (`Inside`); or the message is over and the
  next begins there (`Between`); or only the end mark is left to skip, and the next call
  will fail on it (`MarkOwed`). From it follow `ReadsInOrder`, `GoodDocumentsPass` and
  `MessagesEndTogether`, for documents of any size and depth whose lists have fewer than
  16 items and whose lengths fit the width (see `tlv_list_length` and
  `tlv_huge_length`). The invariant was model-checked on the instance of `tlv_reader`
  before.
* **MqttsnDeviceProofs.** `TypeCorrect` in four parts; `FlagBelongsToClient`
  through `ClientInv` (the client exists between its initialisation and
  `out_deinit`, where alone the flag is set); `WatchdogStaysFed`: `FeedArmed` is
  inductive as it stands. `TimedImplementsUntimed`: Watchdog implements
  MqttsnDevice, so that these three hold of it too. `ConnectedDeviceIsSpared`
  (`NoFalseReset`) needs `FeedInv`: wherever the chain stands, what is left of the
  window covers what is left of the interval and of the permitted lateness, unless
  the network came back too late. `OutagesEnd` (`OutageBounded`) needs `OutageInv`:
  no feed is under way when the network has been gone for any time, since time
  does not pass inside a handler. Both hold for any interval, lateness and window
  with interval + lateness < window.
* **ApplicationsProofs**, the power meter. Assuming cooperative threads. `TurnInv`:
  the two callbacks are never active together; `CountInv`: what `num_samples` is at each
  of their points, in particular that no request arrives while one is published;
  `SumInv`: `active_power` is ahead only inside `sml_data_cb`. Together they give
  `AverageNeverTorn`, `RequestHasSamples` and the action property
  `SamplesNeverDropped`; `AppsAverageNeverTorn` and `AppsSamplesNeverDropped` say the
  same of the device that may have been flashed with any of the three, as the run
  checks it.
* **ApplicationsProofs**, the sensors. Every step of a sensor is of one of six kinds: of the
  device, measuring, assigning, requesting, publishing, restarting (`PmsKinds`,
  `Co2Kinds`), and each part of the invariant is preserved by each kind.
  `NothingForgotten` is not inductive: `SentInv` adds that a value already sent by the
  publish under way was changed since only if another request follows, `BootInv`
  that nothing is measured before `mqttsndev_init`, `OthersIdle` that the other
  applications' variables rest. `NoValueForgotten` holds for any priorities.
  `SnapshotIsWhole` assumes cooperative threads and adds `WholeInv` (outside an
  assignment all values come from one reading) and `CopyInv` (the client thread
  waits while `rx_work_handler` copies); that the receiver is off meanwhile is part of
  `BootInv`.
* **ApplicationsProofs**, the device module under the applications.
  `AppsUseTheDevice`: every step of an application is one of the device module,
  leaves its state alone, or is a call of the application that fails. A failed call
  counts as a fault and changes nothing else, so that the invariants of
  MqttsnDeviceProofs are preserved, and `FlagBelongsToClientOfApps`,
  `WatchdogStaysFedUnderApps` and `AppsTypeCorrect` follow.
* **MessageParserProofs.** An object is `Aligned` if its position in the list is the one
  its type's field stands for, or the end of a list that is too short. The stack of
  objects is a sequence of aligned ones: every function replaces the youngest by aligned
  objects and leaves the others alone, one lemma per function. `FieldsStayInStep` holds
  for every specification that the generator accepts and every document that obeys
  `ItemsAssumption`, of whatever shape and depth. Only what build.rs itself knows is
  used of the specification. `TypeCorrect` adds the errors a call may end with and the
  types of the generator. `VariantsAreToldApart`: what passed `Validate` has different
  names in different variants, and the lengths numbers may have differ from width to
  width, so that no item fits two variants that are not nested choices or typedefs
  themselves. `NeverRefused` (`NoFalseRefusal`) adds `Reading`: while a message that
  follows the types is read, what every object stands on `Holds`, that is, fits the
  fields, entries or variants its functions ask for, and the last call was not refused.
  An item that fits is parsed (`FitsParses`) to an object that holds what it asks for
  (`ChildHolds`), and the tag or, by `VariantsToldApart`, the item itself leads to the
  arm it was sent for (`ArmOfVariant`). TLC checked the invariant on the instance of
  `generated_parser` before. `Compiles` is needed: without an implementation for every
  field there is no parser to speak of. `SchemaIsRead` (`SchemaIsSpecification`) needs
  `TextInv`: the generator stands behind the first k parts of the text, or in the
  comment of the next one, with the block as these define it (`Standing`), and its two
  maps hold what they define (`Read`). One lemma per kind of line says which parts can
  begin with it (`OutsidePart`, `InsidePart`, `CommentPart`); a comment ends with the
  first line that can end it (`CommentEnds`), so that the generator and the layout agree
  on where that is. It holds for texts of any length and with any number of types, and
  TLC checked the invariant on the instance before.

Induction over numbers is done with sets. The library's induction theorems take
an operator as a parameter, which the provers cannot instantiate; that a set of
numbers has a least element (`LeastNumber`, from `WFMin`) says the same without one,
and so does that a set with 0 and every successor has all numbers (`AllNumbers`).
The recursive functions of the definitions (`FlattenSeq` in `Escaped`, `Behind`,
`Message`, `HeaderLen`) are shown to exist in this way before anything is said of them.

Only model-checked: everything that must eventually happen (`Recovers`, the
fairness half of `ImplementsPipe`, `AttemptEnds`, `RequestServed`,
`DeadDeviceResets`, `EverySamplePublished`, `LostRequestIsMadeUpFor`), which is
beyond the proof system.

Proved but in no run: `NoEmptyRead`, `OneWordBehind`, `StartRxNeverWaitsInVain` and
`RequestHasSamples`.

## Not modelled

* *Settings and shell* (`settings.c`): three values in RAM with a copy in flash.
  Nothing but the start of a client reads them. Two things in it are worth a
  reader's attention: the result of `settings_save_one` is ignored, so that the
  shell reports a value that is gone after a reset; and `client_id` of a running
  client points into the buffer the shell writes to while its size was fixed when
  the client started (`lib.c` 124-127).
* *Sequences of several types*, whose parser would only refuse. The one in the
  specification, `SML_CosemSelAccessDesc`, is left out by `is_cosem` (`build.rs` 235)
  like all types of its name. The identifiers and the formatting of the generated
  code.
* *Where a particle sensor's packet begins.* A receiver started in the middle of a
  packet may stay out of step with the sensor; how many bytes pass between stop
  and start is the driver's timing.
* *Logging* (`logger.rs`), *I/O adapters* (`modules/rust/io`): the first only
  writes, the second only forward.
* *Router, coprocessor, boards, snippets, container and scripts* have no behaviour of
  their own.

## Plan

Done: the core (reception, frames, TLV, task, device module, power samples), the
two sensors, the watchdog's clock, the code generator and its parsers; proofs of
every safety property the runs check. Next:

1. *PowerMeter*: UartRx and PowermeterApp on one work queue, with
   `app_unrecoverable_error` as what makes the queue late in Watchdog.
2. *TlvReader*: the two counters as a refinement of a cursor over the tree of items
   MessageParser reads; TlvReaderProofs has the invariant for it.
3. *Settings*: RAM against flash over resets, the client id under a running
   client; *LoggerSink*: the 1000-byte buffer and its truncation flag.
