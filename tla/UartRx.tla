------------------------------- MODULE UartRx -------------------------------
(***************************************************************************)
(* UART reception of the power meter: apps/powermeter/src/uart.c, started  *)
(* and given up by apps/powermeter/src/main.c.                             *)
(*                                                                         *)
(* Three parties run here.  The UART driver calls uart_async_callback from *)
(* its interrupt: one callback is one atomic step.  The system work queue  *)
(* ("wq") runs startrx_work_handler and uart_rx_work_handler, one at a     *)
(* time.  The main thread ("main") runs app_setup_uart, which calls        *)
(* uart_rx_work_handler itself once.  The driver, the slab, the ring       *)
(* buffer, the semaphore and the work queue are Zephyr's: they are         *)
(* modelled from the way uart.c uses them.                                 *)
(***************************************************************************)
EXTENDS Naturals

CONSTANTS Buffers,    \* the blocks of uart_async_rx_slab
          BufSize,    \* RX_BUFFER_SIZE
          RingSize,   \* CONFIG_APP_RINGBUF_SIZE
          NULL        \* no buffer

ASSUME UartRxAssumption ==
    /\ BufSize \in Nat \ {0}
    /\ RingSize \in Nat \ {0}
    /\ NULL \notin Buffers

VARIABLES slab,       \* free blocks of uart_async_rx_slab
          rx,         \* the driver's receiver: "disabled", "enabled", "stopping"
          cur, nxt,   \* buffer being filled, buffer the driver holds in reserve
          filled,     \* bytes received into cur
          reported,   \* the part of filled already handed over by UART_RX_RDY
          request,    \* a UART_RX_BUF_REQUEST is due
          ring,       \* bytes in rx_rb
          sem,        \* count of uart_rx_sem, at most 1
          startrx,    \* startrx_work is scheduled (or expired and queued)
          rxwork,     \* uart_rx_work: "idle", "polling", "queued"
          held,       \* the buffer startrx_work_handler has in its hands
          pc          \* where each thread is

driver == <<rx, cur, nxt, filled, reported, request>>
vars == <<slab, driver, ring, sem, startrx, rxwork, held, pc>>

Threads == {"main", "wq"}

(* Steps of uart_rx_work_handler, the same for either thread.              *)
HandlerSteps == {"take", "poll", "submit", "failed"}

MainSteps == HandlerSteps \cup {"setup", "init", "done"}
WqSteps == HandlerSteps \cup {"idle", "alloc", "enable", "giveback"}
Steps == MainSteps \cup WqSteps

TypeOK ==
    /\ slab \subseteq Buffers
    /\ rx \in {"disabled", "enabled", "stopping"}
    /\ cur \in Buffers \cup {NULL}
    /\ nxt \in Buffers \cup {NULL}
    /\ filled \in 0 .. BufSize
    /\ reported \in 0 .. filled
    /\ request \in BOOLEAN
    /\ ring \in 0 .. RingSize
    /\ sem \in 0 .. 1
    /\ startrx \in BOOLEAN
    /\ rxwork \in {"idle", "polling", "queued"}
    /\ held \in Buffers \cup {NULL}
    /\ pc \in [Threads -> Steps]
    /\ pc["main"] \in MainSteps /\ pc["wq"] \in WqSteps

Init ==
    /\ slab = Buffers
    /\ rx = "disabled"
    /\ cur = NULL /\ nxt = NULL
    /\ filled = 0 /\ reported = 0
    /\ request = FALSE
    /\ ring = 0
    /\ sem = 0
    /\ startrx = FALSE
    /\ rxwork = "idle"
    /\ held = NULL
    /\ pc = [t \in Threads |-> IF t = "main" THEN "setup" ELSE "idle"]

Goto(t, step) == pc' = [pc EXCEPT ![t] = step]

-----------------------------------------------------------------------------
(* The driver's interrupt and uart_async_callback.                         *)

(* A byte arrives while a buffer is being filled; the driver tells nobody  *)
(* until the buffer is full or the line falls silent.                      *)
RxByte ==
    /\ rx = "enabled" /\ cur # NULL /\ filled < BufSize
    /\ filled' = filled + 1
    /\ UNCHANGED <<slab, rx, cur, nxt, reported, request, ring, sem, startrx,
                   rxwork, held, pc>>

(* Mutant: the ring takes more than it can hold.                           *)
RxReadyOverfills ==
    /\ cur # NULL /\ reported < filled
    /\ ring' = ring + (filled - reported)
    /\ reported' = filled
    /\ sem' = 1
    /\ rxwork' = (IF rxwork = "polling" THEN "queued" ELSE rxwork)
    /\ UNCHANGED <<slab, rx, cur, nxt, filled, request, startrx, held, pc>>

(* Mutant: the callback submits the work itself instead of waking it.      *)
RxReadySubmits ==
    /\ cur # NULL /\ reported < filled
    /\ ring' = (IF ring + (filled - reported) <= RingSize
                THEN ring + (filled - reported) ELSE RingSize)
    /\ reported' = filled
    /\ sem' = 1
    /\ rxwork' = "queued"
    /\ UNCHANGED <<slab, rx, cur, nxt, filled, request, startrx, held, pc>>

(* Mutant: a report that does not fit the ring is dropped as a whole.      *)
RxReadyDropsAll ==
    /\ cur # NULL /\ reported < filled
    /\ ring' = (IF ring + (filled - reported) <= RingSize
                THEN ring + (filled - reported) ELSE ring)
    /\ reported' = filled
    /\ sem' = 1
    /\ rxwork' = (IF rxwork = "polling" THEN "queued" ELSE rxwork)
    /\ UNCHANGED <<slab, rx, cur, nxt, filled, request, startrx, held, pc>>

(* UART_RX_RDY: what fits goes to the ring, the rest is lost; the          *)
(* semaphore is given, which queues uart_rx_work if it was polling.        *)
RxReady ==
    /\ cur # NULL /\ reported < filled
    /\ ring' = (IF ring + (filled - reported) <= RingSize
                THEN ring + (filled - reported) ELSE RingSize)
    /\ reported' = filled
    /\ sem' = 1
    /\ rxwork' = (IF rxwork = "polling" THEN "queued" ELSE rxwork)
    /\ UNCHANGED <<slab, rx, cur, nxt, filled, request, startrx, held, pc>>

(* UART_RX_BUF_REQUEST: k_mem_slab_alloc with K_NO_WAIT; on an empty slab  *)
(* the callback only logs "RX buffer starvation".                          *)
RxBufRequest ==
    /\ rx = "enabled" /\ request
    /\ \E buf \in (IF slab = {} THEN {NULL} ELSE slab) :
          /\ nxt' = buf
          /\ slab' = slab \ {buf}
    /\ request' = FALSE
    /\ UNCHANGED <<rx, cur, filled, reported, ring, sem, startrx, rxwork,
                   held, pc>>

(* Mutant: UART_RX_BUF_RELEASED of a full buffer is not handled.           *)
RxBufEndLeaks ==
    /\ rx = "enabled" /\ cur # NULL /\ ~request
    /\ filled = BufSize /\ reported = BufSize
    /\ cur' = nxt
    /\ nxt' = NULL
    /\ filled' = 0 /\ reported' = 0
    /\ rx' = (IF nxt = NULL THEN "stopping" ELSE rx)
    /\ request' = (nxt # NULL)
    /\ UNCHANGED <<slab, ring, sem, startrx, rxwork, held, pc>>

(* The current buffer is full and reported: UART_RX_BUF_RELEASED returns   *)
(* it to the slab, the driver goes on with the reserve and asks for the    *)
(* next one.  Without a reserve it has to stop, unasked and without        *)
(* UART_RX_STOPPED.                                                        *)
RxBufEnd ==
    /\ rx = "enabled" /\ cur # NULL /\ ~request
    /\ filled = BufSize /\ reported = BufSize
    /\ slab' = slab \cup {cur}
    /\ cur' = nxt
    /\ nxt' = NULL
    /\ filled' = 0 /\ reported' = 0
    /\ rx' = (IF nxt = NULL THEN "stopping" ELSE rx)
    /\ request' = (nxt # NULL)
    /\ UNCHANGED <<ring, sem, startrx, rxwork, held, pc>>

(* Mutant: UART_RX_STOPPED is only logged, as UART_RX_DISABLED is.         *)
RxStoppedLogs ==
    /\ rx = "enabled"
    /\ rx' = "stopping"
    /\ request' = FALSE
    /\ UNCHANGED <<slab, cur, nxt, filled, reported, ring, sem, startrx, rxwork,
                   held, pc>>

(* UART_RX_STOPPED: a line error (framing, parity, overrun, break) ends    *)
(* reception and schedule_startrx_work asks for a restart.                 *)
RxStopped ==
    /\ rx = "enabled"
    /\ rx' = "stopping"
    /\ request' = FALSE
    /\ startrx' = TRUE
    /\ UNCHANGED <<slab, cur, nxt, filled, reported, ring, sem, rxwork, held, pc>>

(* UART_RX_BUF_RELEASED for each buffer of a stopping receiver, after what *)
(* it still holds was reported.                                            *)
RxReleaseCur ==
    /\ rx = "stopping" /\ cur # NULL /\ reported = filled
    /\ slab' = slab \cup {cur}
    /\ cur' = NULL
    /\ filled' = 0 /\ reported' = 0
    /\ UNCHANGED <<rx, nxt, request, ring, sem, startrx, rxwork, held, pc>>

RxReleaseNext ==
    /\ rx = "stopping" /\ cur = NULL /\ nxt # NULL
    /\ slab' = slab \cup {nxt}
    /\ nxt' = NULL
    /\ UNCHANGED <<rx, cur, filled, reported, request, ring, sem, startrx,
                   rxwork, held, pc>>

(* UART_RX_DISABLED ends the sequence; the callback only logs it.          *)
RxDisabled ==
    /\ rx = "stopping" /\ cur = NULL /\ nxt = NULL
    /\ rx' = "disabled"
    /\ UNCHANGED <<slab, cur, nxt, filled, reported, request, ring, sem,
                   startrx, rxwork, held, pc>>

StopSequence == RxReleaseCur \/ RxReleaseNext \/ RxDisabled

Interrupt == RxByte \/ RxReady \/ RxBufRequest \/ RxBufEnd \/ RxStopped \/ StopSequence

-----------------------------------------------------------------------------
(* startrx_work_handler, on the work queue.                                *)

StartRxBegin ==
    /\ pc["wq"] = "idle" /\ startrx
    /\ startrx' = FALSE
    /\ Goto("wq", "alloc")
    /\ UNCHANGED <<slab, driver, ring, sem, rxwork, held>>

(* k_mem_slab_alloc with K_FOREVER: the work queue waits for a free block. *)
StartRxAlloc ==
    /\ pc["wq"] = "alloc"
    /\ \E buf \in slab :
          /\ held' = buf
          /\ slab' = slab \ {buf}
    /\ Goto("wq", "enable")
    /\ UNCHANGED <<driver, ring, sem, startrx, rxwork>>

(* uart_rx_enable hands the buffer to the driver, which starts to receive  *)
(* into it and will ask for a reserve.                                     *)
StartRxEnable ==
    /\ pc["wq"] = "enable"
    /\ rx = "disabled"
    /\ rx' = "enabled"
    /\ cur' = held
    /\ held' = NULL
    /\ filled' = 0 /\ reported' = 0
    /\ request' = TRUE
    /\ Goto("wq", "idle")
    /\ UNCHANGED <<slab, nxt, ring, sem, startrx, rxwork>>

(* uart_rx_enable fails: always on a receiver that is still active         *)
(* (-EBUSY), and it may fail on an inactive one.                           *)
StartRxEnableFails ==
    /\ pc["wq"] = "enable"
    /\ Goto("wq", "giveback")
    /\ UNCHANGED <<slab, driver, ring, sem, startrx, rxwork, held>>

(* Mutants of the error path: the buffer is forgotten, or the retry is.    *)
GiveBackLeaks ==
    /\ pc["wq"] = "giveback"
    /\ held' = NULL
    /\ startrx' = TRUE
    /\ Goto("wq", "idle")
    /\ UNCHANGED <<slab, driver, ring, sem, rxwork>>

GiveBackGivesUp ==
    /\ pc["wq"] = "giveback"
    /\ slab' = slab \cup {held}
    /\ held' = NULL
    /\ Goto("wq", "idle")
    /\ UNCHANGED <<driver, ring, sem, startrx, rxwork>>

(* The buffer goes back to the slab and the handler schedules itself.      *)
StartRxGiveBack ==
    /\ pc["wq"] = "giveback"
    /\ slab' = slab \cup {held}
    /\ held' = NULL
    /\ startrx' = TRUE
    /\ Goto("wq", "idle")
    /\ UNCHANGED <<driver, ring, sem, rxwork>>

StartRx == StartRxBegin \/ StartRxAlloc \/ StartRxEnable \/ StartRxEnableFails
             \/ StartRxGiveBack

-----------------------------------------------------------------------------
(* uart_rx_work_handler, on the work queue and once on the main thread.    *)

RxWorkBegin ==
    /\ pc["wq"] = "idle" /\ rxwork = "queued"
    /\ rxwork' = "idle"
    /\ Goto("wq", "take")
    /\ UNCHANGED <<slab, driver, ring, sem, startrx, held>>

(* k_sem_take with K_NO_WAIT: without a token the handler only resubmits.  *)
SemTake(t) ==
    /\ pc[t] = "take"
    /\ sem' = 0
    /\ Goto(t, IF sem = 1 THEN "poll" ELSE "submit")
    /\ UNCHANGED <<slab, driver, ring, startrx, rxwork, held>>

(* sml_poll calls sml_read_cb, that is ring_buf_get, as long as it yields  *)
(* bytes ...                                                               *)
SmlPollRead(t) ==
    /\ pc[t] = "poll"
    /\ \E n \in 1 .. ring : ring' = ring - n
    /\ UNCHANGED <<slab, driver, sem, startrx, rxwork, held, pc>>

(* Mutant: one read per poll, whatever the ring still holds.               *)
SmlPollReturnsEarly(t) ==
    /\ pc[t] = "poll"
    /\ Goto(t, "submit")
    /\ UNCHANGED <<slab, driver, ring, sem, startrx, rxwork, held>>

(* ... and returns 0 once a read found the ring empty (Poll::Pending).     *)
SmlPollPending(t) ==
    /\ pc[t] = "poll" /\ ring = 0
    /\ Goto(t, "submit")
    /\ UNCHANGED <<slab, driver, ring, sem, startrx, rxwork, held>>

(* sml_poll returns non-zero: the SML task has ended.                      *)
SmlPollFails(t) ==
    /\ pc[t] = "poll"
    /\ Goto(t, "failed")
    /\ UNCHANGED <<slab, driver, ring, sem, startrx, rxwork, held>>

(* Mutant: the semaphore is reset before polling for it again.             *)
ResubmitResets(t) ==
    /\ pc[t] = "submit"
    /\ sem' = 0
    /\ rxwork' = "polling"
    /\ Goto(t, IF t = "main" THEN "done" ELSE "idle")
    /\ UNCHANGED <<slab, driver, ring, startrx, held>>

(* k_work_poll_submit: the work is queued at once if the semaphore is      *)
(* available already, and polls for it otherwise.                          *)
Resubmit(t) ==
    /\ pc[t] = "submit"
    /\ rxwork' = (IF sem = 1 THEN "queued" ELSE "polling")
    /\ Goto(t, IF t = "main" THEN "done" ELSE "idle")
    /\ UNCHANGED <<slab, driver, ring, sem, startrx, held>>

ResubmitFails(t) ==
    /\ pc[t] = "submit"
    /\ Goto(t, "failed")
    /\ UNCHANGED <<slab, driver, ring, sem, startrx, rxwork, held>>

RxWorkHandler(t) ==
    \/ SemTake(t) \/ SmlPollRead(t) \/ SmlPollPending(t) \/ SmlPollFails(t)
    \/ Resubmit(t) \/ ResubmitFails(t)

-----------------------------------------------------------------------------
(* app_setup_uart on the main thread.                                      *)

(* The device is ready and the callback is set: the ring is emptied and    *)
(* the first start of the receiver is scheduled.                           *)
SetupUart ==
    /\ pc["main"] = "setup"
    /\ ring' = 0
    /\ startrx' = TRUE
    /\ Goto("main", "init")
    /\ UNCHANGED <<slab, driver, sem, rxwork, held>>

(* The device is not ready, or uart_callback_set fails.                    *)
SetupUartFails ==
    /\ pc["main"] = "setup"
    /\ Goto("main", "failed")
    /\ UNCHANGED <<slab, driver, ring, sem, startrx, rxwork, held>>

SmlInit ==
    /\ pc["main"] = "init"
    /\ Goto("main", "take")
    /\ UNCHANGED <<slab, driver, ring, sem, startrx, rxwork, held>>

SmlInitFails ==
    /\ pc["main"] = "init"
    /\ Goto("main", "failed")
    /\ UNCHANGED <<slab, driver, ring, sem, startrx, rxwork, held>>

Setup == SetupUart \/ SetupUartFails \/ SmlInit \/ SmlInitFails

(* app_unrecoverable_error: the thread sleeps for ten seconds, in which    *)
(* everybody else goes on, and then resets the chip.                       *)
Reboot(t) ==
    /\ pc[t] = "failed"
    /\ slab' = Buffers
    /\ rx' = "disabled"
    /\ cur' = NULL /\ nxt' = NULL
    /\ filled' = 0 /\ reported' = 0
    /\ request' = FALSE
    /\ ring' = 0
    /\ sem' = 0
    /\ startrx' = FALSE
    /\ rxwork' = "idle"
    /\ held' = NULL
    /\ pc' = [u \in Threads |-> IF u = "main" THEN "setup" ELSE "idle"]

Next ==
    \/ Interrupt
    \/ StartRx
    \/ RxWorkBegin
    \/ Setup
    \/ \E t \in Threads : RxWorkHandler(t) \/ Reboot(t)

Spec == Init /\ [][Next]_vars

(* Threads that can run do run, received bytes are reported when the line  *)
(* falls silent, a stopping driver finishes its sequence.  The work queue  *)
(* is first in, first out: a queued item has its turn (strong fairness of  *)
(* the two Begin steps).  That uart_rx_enable does not fail for ever is a  *)
(* fact about the hardware: the strong fairness of StartRxEnable.          *)
Fairness ==
    /\ WF_vars(RxReady)
    /\ WF_vars(StopSequence)
    /\ WF_vars(StartRx)
    /\ WF_vars(Setup)
    /\ \A t \in Threads : WF_vars(RxWorkHandler(t)) /\ WF_vars(Reboot(t))
    /\ SF_vars(StartRxBegin)
    /\ SF_vars(RxWorkBegin)
    /\ SF_vars(StartRxEnable)

FairSpec == Spec /\ Fairness

-----------------------------------------------------------------------------
(* Properties.                                                             *)

(* Every receive buffer has exactly one owner: it is free in the slab, or  *)
(* the driver or startrx_work_handler has it in exactly one place.  A      *)
(* block freed twice or lost on an error path of startrx_work_handler or   *)
(* uart_async_callback breaks it.                                          *)
SlabOwnership ==
    /\ Buffers \subseteq slab \cup {cur, nxt, held}
    /\ cur # NULL => cur \notin slab \cup {nxt, held}
    /\ nxt # NULL => nxt \notin slab \cup {held}
    /\ held # NULL => held \notin slab

(* The activations of uart_rx_work_handler.                                *)
MainActive == pc["main"] # "done"
WorkActive == rxwork # "idle"
WqActive == pc["wq"] \in HandlerSteps

(* There is exactly one activation of uart_rx_work_handler: still to be    *)
(* made or under way on the main thread, waiting as uart_rx_work, or under *)
(* way on the work queue.  So sml_poll never runs twice at once on the one *)
(* context smlctx, and never again after it reported the end of its task.  *)
HandlerToken ==
    /\ MainActive => ~WorkActive /\ ~WqActive
    /\ WorkActive => ~WqActive
    /\ MainActive \/ WorkActive \/ WqActive

(* No wakeup is lost between the interrupt and uart_rx_work_handler: bytes *)
(* in the ring have a token in the semaphore, unless somebody reads them   *)
(* right now (or has given up); a token never meets a work item that still *)
(* polls; and a queued item always finds its token, so the "spurious uart  *)
(* work handler call" warning is never printed.                            *)
NoLostWakeup ==
    /\ ring > 0 => sem = 1 \/ \E t \in Threads : pc[t] \in {"poll", "failed"}
    /\ sem = 1 => rxwork # "polling"
    /\ rxwork = "queued" \/ pc["wq"] = "take" => sem = 1

(* startrx_work is on its way: scheduled, or running.                      *)
RestartRunning == pc["wq"] \in {"alloc", "enable", "giveback"}
RestartPending == startrx \/ RestartRunning

(* Once app_setup_uart has scheduled the first start, a receiver that is   *)
(* not running always has exactly one restart on its way, and a running    *)
(* one has none: no error path of startrx_work_handler or of               *)
(* uart_async_callback forgets it or asks for it twice.                    *)
RestartArmed ==
    /\ rx = "enabled" => ~RestartPending
    /\ rx = "stopping" => RestartPending
    /\ pc["main"] \notin {"setup", "failed"} => rx = "enabled" \/ RestartPending
    /\ ~(startrx /\ RestartRunning)

(* UART_RX_BUF_REQUEST never finds the slab empty and a running receiver   *)
(* always has a reserve: "RX buffer starvation", after which nothing would *)
(* ever restart the receiver, does not happen with two buffers (Kconfig:   *)
(* "needs to be at least 2 to avoid buffer starvation").                   *)
RequestAnswered ==
    rx = "enabled" => IF request THEN slab # {} ELSE nxt # NULL

(* When startrx_work_handler waits for ever (K_FOREVER) on the shared work *)
(* queue, the driver is in its stop sequence and about to release the      *)
(* buffers: the wait cannot be everybody's.                                *)
StartRxWaitEnds ==
    pc["wq"] = "alloc" /\ slab = {} => rx = "stopping"

(* A receiver stopped by a line error runs again, unless the chip reboots  *)
(* first: schedule_startrx_work retries until uart_rx_enable succeeds.     *)
Recovers == rx = "stopping" ~> (rx = "enabled" \/ pc["main"] = "setup")

(* Through all of this the SML reader sees a pipe: every byte the driver   *)
(* received comes into rx_rb once, unless the ring is full just then, and  *)
(* is read by sml_poll once, or is lost with a reboot.  No hand-over of a  *)
(* buffer, stop of the receiver or retry drops or repeats a byte.          *)
Pipe == INSTANCE BytePipe WITH Capacity <- RingSize, queued <- ring,
                               pending <- filled - reported
ImplementsPipe == Pipe!Spec
=============================================================================
