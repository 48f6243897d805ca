---------------------------- MODULE UartRxProofs ----------------------------
(***************************************************************************)
(* Proofs about UartRx, for any number of buffers and any buffer and ring  *)
(* sizes.                                                                  *)
(***************************************************************************)
EXTENDS UartRx, TLAPS

(* What the driver's fields say in each of its states, and who holds a     *)
(* buffer outside the slab.                                                *)
DriverShape ==
    /\ rx = "disabled" => cur = NULL /\ nxt = NULL
    /\ cur = NULL => filled = 0
    /\ rx = "enabled" => cur # NULL
    /\ request => rx = "enabled" /\ nxt = NULL
    /\ held # NULL <=> pc["wq"] \in {"enable", "giveback"}

(* The inductive invariant behind the results that hold for any number of  *)
(* buffers.                                                                *)
IInv ==
    /\ TypeOK
    /\ DriverShape
    /\ HandlerToken
    /\ SlabOwnership
    /\ NoLostWakeup

(* The state after a reset satisfies the invariant.                        *)
LEMMA InitIInv == Init => IInv
<1> SUFFICES ASSUME Init PROVE IInv
  OBVIOUS
<1>1. TypeOK
  <2>1. pc \in [Threads -> Steps] /\ pc["main"] = "setup" /\ pc["wq"] = "idle"
    BY DEF Init, Threads, Steps, MainSteps, WqSteps
  <2>2. /\ slab \subseteq Buffers /\ cur \in Buffers \cup {NULL}
        /\ nxt \in Buffers \cup {NULL} /\ held \in Buffers \cup {NULL}
    BY UartRxAssumption DEF Init
  <2>3. /\ filled \in 0 .. BufSize /\ reported \in 0 .. filled
        /\ ring \in 0 .. RingSize /\ sem \in 0 .. 1
    BY UartRxAssumption DEF Init
  <2>4. /\ rx \in {"disabled", "enabled", "stopping"}
        /\ rxwork \in {"idle", "polling", "queued"}
        /\ request \in BOOLEAN /\ startrx \in BOOLEAN
    BY UartRxAssumption DEF Init
  <2>5. QED
    BY <2>1, <2>2, <2>3, <2>4 DEF TypeOK, MainSteps, WqSteps
<1>2. DriverShape /\ SlabOwnership
  BY UartRxAssumption DEF Init, Threads, DriverShape, SlabOwnership
<1>3. HandlerToken /\ NoLostWakeup
  BY DEF Init, Threads, HandlerSteps, HandlerToken, NoLostWakeup, MainActive,
         WorkActive, WqActive
<1>4. QED
  BY <1>1, <1>2, <1>3 DEF IInv

(* A step of the driver's interrupt keeps the invariant.                   *)
LEMMA InterruptIInv == IInv /\ Interrupt => IInv'
<1> SUFFICES ASSUME IInv, Interrupt PROVE IInv'
  OBVIOUS
<1> USE UartRxAssumption
    DEF IInv, TypeOK, DriverShape, HandlerToken, SlabOwnership, NoLostWakeup,
        Threads, HandlerSteps, MainSteps, WqSteps, Steps, MainActive, WorkActive, WqActive
<1>1. CASE RxByte
  BY <1>1 DEF RxByte
<1>2. CASE RxReady
  BY <1>2 DEF RxReady
<1>3. CASE RxBufRequest
  BY <1>3, ZenonT(60) DEF RxBufRequest
<1>4. CASE RxBufEnd
  BY <1>4 DEF RxBufEnd
<1>5. CASE RxStopped
  BY <1>5, ZenonT(60) DEF RxStopped
<1>6. CASE RxReleaseCur
  BY <1>6 DEF RxReleaseCur
<1>7. CASE RxReleaseNext
  BY <1>7 DEF RxReleaseNext
<1>8. CASE RxDisabled
  BY <1>8 DEF RxDisabled
<1>9. QED
  BY <1>1, <1>2, <1>3, <1>4, <1>5, <1>6, <1>7, <1>8 DEF Interrupt, StopSequence

(* A step of startrx_work_handler keeps the invariant.                     *)
LEMMA StartRxIInv == IInv /\ StartRx => IInv'
<1> SUFFICES ASSUME IInv, StartRx PROVE IInv'
  OBVIOUS
<1> USE UartRxAssumption
    DEF IInv, TypeOK, DriverShape, HandlerToken, SlabOwnership, NoLostWakeup,
        Threads, HandlerSteps, MainSteps, WqSteps, Steps, MainActive, WorkActive, WqActive, Goto, driver
<1>1. CASE StartRxBegin
  BY <1>1 DEF StartRxBegin
<1>2. CASE StartRxAlloc
  BY <1>2 DEF StartRxAlloc
<1>3. CASE StartRxEnable
  BY <1>3 DEF StartRxEnable
<1>4. CASE StartRxEnableFails
  BY <1>4 DEF StartRxEnableFails
<1>5. CASE StartRxGiveBack
  BY <1>5 DEF StartRxGiveBack
<1>6. QED
  BY <1>1, <1>2, <1>3, <1>4, <1>5 DEF StartRx

(* A step of uart_rx_work_handler, on either thread, keeps the invariant.  *)
LEMMA RxWorkIInv ==
    ASSUME NEW t \in Threads, IInv, RxWorkHandler(t) \/ RxWorkBegin
    PROVE  IInv'
<1> USE UartRxAssumption
    DEF IInv, TypeOK, DriverShape, HandlerToken, SlabOwnership, NoLostWakeup,
        Threads, HandlerSteps, MainSteps, WqSteps, Steps, MainActive, WorkActive, WqActive, Goto, driver
<1>1. CASE SemTake(t)
  BY <1>1 DEF SemTake
<1>2. CASE SmlPollRead(t)
  BY <1>2 DEF SmlPollRead
<1>3. CASE SmlPollPending(t)
  BY <1>3 DEF SmlPollPending
<1>4. CASE SmlPollFails(t)
  BY <1>4 DEF SmlPollFails
<1>5. CASE Resubmit(t)
  BY <1>5 DEF Resubmit
<1>6. CASE ResubmitFails(t)
  BY <1>6 DEF ResubmitFails
<1>7. CASE RxWorkBegin
  BY <1>7 DEF RxWorkBegin
<1>8. QED
  BY <1>1, <1>2, <1>3, <1>4, <1>5, <1>6, <1>7 DEF RxWorkHandler

(* A step of app_setup_uart and a reboot keep the invariant.               *)
LEMMA SetupIInv ==
    ASSUME NEW t \in Threads, IInv, Setup \/ Reboot(t)
    PROVE  IInv'
<1> USE UartRxAssumption
    DEF IInv, TypeOK, DriverShape, HandlerToken, SlabOwnership, NoLostWakeup,
        Threads, HandlerSteps, MainSteps, WqSteps, Steps, MainActive, WorkActive, WqActive, Goto, driver
<1>1. CASE SetupUart
  BY <1>1 DEF SetupUart
<1>2. CASE SetupUartFails
  BY <1>2 DEF SetupUartFails
<1>3. CASE SmlInit
  BY <1>3 DEF SmlInit
<1>4. CASE SmlInitFails
  BY <1>4 DEF SmlInitFails
<1>5. CASE Reboot(t)
  <2>1. TypeOK'
    <3>1. pc' \in [Threads -> Steps] /\ pc'["main"] = "setup" /\ pc'["wq"] = "idle"
      BY <1>5 DEF Reboot
    <3>2. /\ slab' \subseteq Buffers /\ cur' \in Buffers \cup {NULL}
          /\ nxt' \in Buffers \cup {NULL} /\ held' \in Buffers \cup {NULL}
      BY <1>5 DEF Reboot
    <3>3. /\ filled' \in 0 .. BufSize /\ reported' \in 0 .. filled'
          /\ ring' \in 0 .. RingSize /\ sem' \in 0 .. 1
      BY <1>5 DEF Reboot
    <3>4. /\ rx' \in {"disabled", "enabled", "stopping"}
          /\ rxwork' \in {"idle", "polling", "queued"}
          /\ request' \in BOOLEAN /\ startrx' \in BOOLEAN
      BY <1>5 DEF Reboot
    <3>5. QED
      BY <3>1, <3>2, <3>3, <3>4 DEF TypeOK, MainSteps, WqSteps
  <2>2. DriverShape' /\ SlabOwnership'
    BY <1>5 DEF Reboot
  <2>3. HandlerToken' /\ NoLostWakeup'
    BY <1>5 DEF Reboot
  <2>4. QED
    BY <2>1, <2>2, <2>3
<1>6. QED
  BY <1>1, <1>2, <1>3, <1>4, <1>5 DEF Setup

(* The invariant is inductive.                                             *)
LEMMA StepIInv == IInv /\ [Next]_vars => IInv'
<1>1. CASE UNCHANGED vars
  BY <1>1 DEF vars, driver, IInv, TypeOK, DriverShape, HandlerToken, SlabOwnership,
              NoLostWakeup, MainActive, WorkActive, WqActive
<1>2. CASE Next
  <2>1. "wq" \in Threads
    BY DEF Threads
  <2>2. QED
    BY <1>2, <2>1, InterruptIInv, StartRxIInv, RxWorkIInv, SetupIInv DEF Next
<1>3. QED
  BY <1>1, <1>2

(* So it always holds.                                                     *)
LEMMA AlwaysIInv == Spec => []IInv
<1>1. Init => IInv
  BY InitIInv
<1>2. IInv /\ [Next]_vars => IInv'
  BY StepIInv
<1>3. QED
  BY <1>1, <1>2, PTL DEF Spec

(* Every variable of the reception pipeline keeps its range: the ring      *)
(* never holds more than CONFIG_APP_RINGBUF_SIZE bytes, and a thread is    *)
(* only where its own code can take it.                                    *)
THEOREM TypeCorrect == Spec => []TypeOK
<1>1. IInv => TypeOK
  BY DEF IInv
<1>2. QED
  BY <1>1, AlwaysIInv, PTL

(* No receive buffer is ever leaked, freed twice or owned by two.          *)
THEOREM BuffersHaveOneOwner == Spec => []SlabOwnership
<1>1. IInv => SlabOwnership
  BY DEF IInv
<1>2. QED
  BY <1>1, AlwaysIInv, PTL

(* uart_rx_work_handler has exactly one activation: sml_poll is never      *)
(* entered by two threads, nor after its task has ended.                   *)
THEOREM OneHandlerActivation == Spec => []HandlerToken
<1>1. IInv => HandlerToken
  BY DEF IInv
<1>2. QED
  BY <1>1, AlwaysIInv, PTL

(* Whatever the interleaving of interrupt and work queue, received bytes   *)
(* never sit in rx_rb without a wakeup on its way.                         *)
THEOREM WakeupNeverLost == Spec => []NoLostWakeup
<1>1. IInv => NoLostWakeup
  BY DEF IInv
<1>2. QED
  BY <1>1, AlwaysIInv, PTL

-----------------------------------------------------------------------------
(* What holds only with the two buffers Kconfig asks for.                  *)

TwoBuffers == \E b1, b2 \in Buffers : b1 # b2

(* Until app_setup_uart has scheduled the receiver, nothing happens.       *)
NothingBeforeSetup ==
    pc["main"] = "setup" => rx = "disabled" /\ ~RestartPending

RInv ==
    /\ NothingBeforeSetup
    /\ RestartArmed
    /\ RequestAnswered

(* The state after a reset satisfies the invariant of the restarts.        *)
LEMMA InitRInv == Init => RInv
BY DEF Init, Threads, RInv, NothingBeforeSetup, RestartArmed, RequestAnswered,
       RestartPending, RestartRunning

(* With a second buffer, a receiver that has just been enabled finds one   *)
(* free for its first request: everything but its own buffer is free.      *)
LEMMA FirstRequest ==
    ASSUME TwoBuffers, IInv, StartRxEnable
    PROVE  slab' # {}
<1>1. cur = NULL /\ nxt = NULL /\ slab' = slab
  BY DEF StartRxEnable, IInv, DriverShape
<1>2. Buffers \subseteq slab \cup {held} \cup {NULL}
  BY <1>1 DEF IInv, SlabOwnership
<1>3. PICK b \in Buffers : b # held
  BY DEF TwoBuffers
<1>4. b \in slab
  BY <1>2, <1>3, UartRxAssumption
<1>5. QED
  BY <1>1, <1>4

(* A step of the driver's interrupt keeps it.                              *)
LEMMA InterruptRInv == IInv /\ RInv /\ Interrupt => RInv'
<1> SUFFICES ASSUME IInv, RInv, Interrupt PROVE RInv'
  OBVIOUS
<1> USE UartRxAssumption
    DEF IInv, TypeOK, DriverShape, RInv, NothingBeforeSetup, RestartArmed,
        RequestAnswered, RestartPending, RestartRunning
<1>1. CASE RxByte
  BY <1>1 DEF RxByte
<1>2. CASE RxReady
  BY <1>2 DEF RxReady
<1>3. CASE RxBufRequest
  BY <1>3 DEF RxBufRequest
<1>4. CASE RxBufEnd
  BY <1>4 DEF RxBufEnd
<1>5. CASE RxStopped
  BY <1>5 DEF RxStopped
<1>6. CASE StopSequence
  BY <1>6 DEF StopSequence, RxReleaseCur, RxReleaseNext, RxDisabled
<1>7. QED
  BY <1>1, <1>2, <1>3, <1>4, <1>5, <1>6 DEF Interrupt

(* A step of startrx_work_handler keeps it.                                *)
LEMMA StartRxRInv == TwoBuffers /\ IInv /\ RInv /\ StartRx => RInv'
<1> SUFFICES ASSUME TwoBuffers, IInv, RInv, StartRx PROVE RInv'
  OBVIOUS
<1> USE DEF IInv, TypeOK, Threads, RInv, NothingBeforeSetup, RestartArmed,
            RequestAnswered, RestartPending, RestartRunning, Goto, driver
<1>1. CASE StartRxBegin
  BY <1>1 DEF StartRxBegin
<1>2. CASE StartRxAlloc
  BY <1>2 DEF StartRxAlloc
<1>3. CASE StartRxEnable
  <2>1. slab' # {}
    BY <1>3, FirstRequest
  <2>2. QED
    BY <1>3, <2>1 DEF StartRxEnable
<1>4. CASE StartRxEnableFails
  BY <1>4 DEF StartRxEnableFails
<1>5. CASE StartRxGiveBack
  BY <1>5 DEF StartRxGiveBack
<1>6. QED
  BY <1>1, <1>2, <1>3, <1>4, <1>5 DEF StartRx

(* A step of uart_rx_work_handler, of app_setup_uart and a reboot keep it. *)
LEMMA ThreadsRInv ==
    ASSUME NEW t \in Threads, IInv, RInv,
           RxWorkBegin \/ RxWorkHandler(t) \/ Setup \/ Reboot(t)
    PROVE  RInv'
<1> USE DEF IInv, TypeOK, Threads, MainSteps, WqSteps, Steps, HandlerSteps, RInv,
            NothingBeforeSetup, RestartArmed, RequestAnswered, RestartPending,
            RestartRunning, Goto, driver
<1>1. CASE RxWorkBegin
  BY <1>1 DEF RxWorkBegin
<1>2. CASE RxWorkHandler(t)
  <2>1. CASE SemTake(t)
    BY <2>1 DEF SemTake
  <2>2. CASE SmlPollRead(t)
    BY <2>2 DEF SmlPollRead
  <2>3. CASE SmlPollPending(t)
    BY <2>3 DEF SmlPollPending
  <2>4. CASE SmlPollFails(t)
    BY <2>4 DEF SmlPollFails
  <2>5. CASE Resubmit(t)
    BY <2>5 DEF Resubmit
  <2>6. CASE ResubmitFails(t)
    BY <2>6 DEF ResubmitFails
  <2>7. QED
    BY <1>2, <2>1, <2>2, <2>3, <2>4, <2>5, <2>6 DEF RxWorkHandler
<1>3. CASE Setup
  BY <1>3 DEF Setup, SetupUart, SetupUartFails, SmlInit, SmlInitFails
<1>4. CASE Reboot(t)
  BY <1>4 DEF Reboot
<1>5. QED
  BY <1>1, <1>2, <1>3, <1>4

(* It is inductive.                                                        *)
LEMMA StepRInv == TwoBuffers /\ IInv /\ RInv /\ [Next]_vars => RInv'
<1>1. ASSUME RInv, UNCHANGED vars PROVE RInv'
  BY <1>1 DEF vars, driver, RInv, NothingBeforeSetup, RestartArmed, RequestAnswered,
              RestartPending, RestartRunning
<1>2. "wq" \in Threads
  BY DEF Threads
<1>3. QED
  BY <1>1, <1>2, InterruptRInv, StartRxRInv, ThreadsRInv DEF Next

(* So it always holds.                                                     *)
LEMMA AlwaysRInv == ASSUME TwoBuffers PROVE Spec => []RInv
<1>1. IInv /\ RInv /\ [Next]_vars => RInv'
  BY StepRInv
<1>2. QED
  BY <1>1, InitRInv, AlwaysIInv, PTL DEF Spec

(* With two buffers a receiver that is not running always has exactly one  *)
(* restart on its way.                                                     *)
THEOREM RestartNeverForgotten == ASSUME TwoBuffers PROVE Spec => []RestartArmed
<1>1. RInv => RestartArmed
  BY DEF RInv
<1>2. QED
  BY <1>1, AlwaysRInv, PTL

(* With two buffers the driver never starves.                              *)
THEOREM NoStarvation == ASSUME TwoBuffers PROVE Spec => []RequestAnswered
<1>1. RInv => RequestAnswered
  BY DEF RInv
<1>2. QED
  BY <1>1, AlwaysRInv, PTL

(* With two buffers the unbounded wait of startrx_work_handler only ever   *)
(* waits for a driver that is giving its buffers back.                     *)
THEOREM StartRxNeverWaitsInVain == ASSUME TwoBuffers PROVE Spec => []StartRxWaitEnds
<1>1. ASSUME IInv, RInv PROVE StartRxWaitEnds
  <2> SUFFICES ASSUME pc["wq"] = "alloc", slab = {} PROVE rx = "stopping"
    BY DEF StartRxWaitEnds
  <2>1. rx # "enabled"
    BY <1>1 DEF RInv, RestartArmed, RestartPending, RestartRunning
  <2>2. rx # "disabled"
    <3> SUFFICES ASSUME rx = "disabled" PROVE FALSE
      OBVIOUS
    <3>1. cur = NULL /\ nxt = NULL /\ held = NULL
      BY <1>1 DEF IInv, DriverShape
    <3>2. Buffers \subseteq {NULL}
      BY <1>1, <3>1 DEF IInv, SlabOwnership
    <3>3. QED
      BY <3>2, UartRxAssumption DEF TwoBuffers
  <2>3. QED
    BY <1>1, <2>1, <2>2 DEF IInv, TypeOK
<1>2. QED
  BY <1>1, AlwaysIInv, AlwaysRInv, PTL

-----------------------------------------------------------------------------
(* The safety half of ImplementsPipe.                                      *)

(* Before app_setup_uart empties the ring no receiver runs and none is     *)
(* about to: with any number of buffers, unlike the rest of RInv.          *)
LEMMA StepNothingBeforeSetup ==
    IInv /\ NothingBeforeSetup /\ [Next]_vars => NothingBeforeSetup'
<1> SUFFICES ASSUME IInv, NothingBeforeSetup, [Next]_vars
             PROVE  NothingBeforeSetup'
  OBVIOUS
<1> USE DEF NothingBeforeSetup, RestartPending, RestartRunning, driver
<1>1. pc \in [Threads -> Steps]
  BY DEF IInv, TypeOK
<1>2. CASE Interrupt
  BY <1>2 DEF Interrupt, RxByte, RxReady, RxBufRequest, RxBufEnd, RxStopped,
              StopSequence, RxReleaseCur, RxReleaseNext, RxDisabled
<1>3. CASE StartRx
  BY <1>1, <1>3 DEF StartRx, StartRxBegin, StartRxAlloc, StartRxEnable,
                    StartRxEnableFails, StartRxGiveBack, Goto, Threads
<1>4. CASE RxWorkBegin
  BY <1>1, <1>4 DEF RxWorkBegin, Goto, Threads
<1>5. CASE Setup
  BY <1>1, <1>5 DEF Setup, SetupUart, SetupUartFails, SmlInit, SmlInitFails, Goto,
                    Threads
<1>6. ASSUME NEW t \in Threads, RxWorkHandler(t) PROVE NothingBeforeSetup'
  BY <1>1, <1>6 DEF RxWorkHandler, SemTake, SmlPollRead, SmlPollPending, SmlPollFails,
                    Resubmit, ResubmitFails, Goto, Threads
<1>7. ASSUME NEW t \in Threads, Reboot(t) PROVE NothingBeforeSetup'
  BY <1>7 DEF Reboot, Threads
<1>8. CASE UNCHANGED vars
  BY <1>8 DEF vars
<1>9. QED
  BY <1>2, <1>3, <1>4, <1>5, <1>6, <1>7, <1>8 DEF Next

(* The driver's steps are the pipe's: a byte is received, the pending ones *)
(* are reported, and giving up a buffer loses none that is not reported.   *)
LEMMA InterruptIsPipe == IInv /\ Interrupt => [Pipe!Next]_Pipe!pipe
<1> SUFFICES ASSUME IInv, Interrupt PROVE [Pipe!Next]_Pipe!pipe
  OBVIOUS
<1> USE DEF Pipe!pipe
<1>1. filled \in Nat /\ reported \in Nat /\ reported <= filled /\ ring \in Nat
  BY UartRxAssumption DEF IInv, TypeOK
<1>2. CASE RxByte
  <2>1. filled' - reported' = (filled - reported) + 1
    BY <1>1, <1>2 DEF RxByte
  <2>2. QED
    BY <1>2, <2>1 DEF RxByte, Pipe!Next, Pipe!Receive
<1>3. CASE RxReady
  <2>1. filled - reported > 0 /\ filled' - reported' = 0
    BY <1>1, <1>3 DEF RxReady
  <2>2. Pipe!Report
    BY <1>3, <2>1 DEF RxReady, Pipe!Report
  <2>3. QED
    BY <2>2 DEF Pipe!Next
<1>4. CASE RxBufEnd \/ RxReleaseCur
  <2>1. filled - reported = 0 /\ filled' - reported' = 0
    BY <1>1, <1>4, UartRxAssumption DEF RxBufEnd, RxReleaseCur
  <2>2. QED
    BY <1>4, <2>1 DEF RxBufEnd, RxReleaseCur
<1>5. CASE RxBufRequest \/ RxStopped \/ RxReleaseNext \/ RxDisabled
  BY <1>5 DEF RxBufRequest, RxStopped, RxReleaseNext, RxDisabled
<1>6. QED
  BY <1>2, <1>3, <1>4, <1>5 DEF Interrupt, StopSequence

(* The reception starts as an empty pipe, and every step is a step of the  *)
(* pipe or leaves it alone: whatever buffers are handed over, stops are    *)
(* met and restarts fail, uart_async_callback brings every received byte   *)
(* into the ring once or finds the ring full.                              *)
THEOREM PipeRefinement == Spec => Pipe!Init /\ [][Pipe!Next]_Pipe!pipe
<1>1. Init => Pipe!Init /\ NothingBeforeSetup
  BY DEF Init, Pipe!Init, NothingBeforeSetup, RestartPending, RestartRunning, Threads
<1>2. ASSUME IInv, NothingBeforeSetup, [Next]_vars PROVE [Pipe!Next]_Pipe!pipe
  <2> USE DEF driver, Pipe!pipe
  <2>1. filled \in Nat /\ reported \in 0 .. filled /\ ring \in Nat
    BY <1>2, UartRxAssumption DEF IInv, TypeOK
  <2>2. CASE StartRxEnable
    <3>1. filled - reported = 0 /\ filled' - reported' = 0
      BY <1>2, <2>1, <2>2 DEF IInv, DriverShape, StartRxEnable
    <3>2. QED
      BY <2>2, <3>1 DEF StartRxEnable
  <2>3. ASSUME NEW t \in Threads, SmlPollRead(t) PROVE [Pipe!Next]_Pipe!pipe
    BY <2>1, <2>3 DEF SmlPollRead, Pipe!Next, Pipe!Consume, Pipe!Read
  <2>4. ASSUME NEW t \in Threads, Reboot(t) PROVE [Pipe!Next]_Pipe!pipe
    BY <2>4 DEF Reboot, Pipe!Next, Pipe!Reset
  <2>5. CASE SetupUart
    <3>1. filled = 0 /\ reported = 0
      BY <1>2, <2>1, <2>5 DEF SetupUart, NothingBeforeSetup, IInv, DriverShape
    <3>2. filled' - reported' = 0 /\ ring' = 0
      BY <2>5, <3>1 DEF SetupUart
    <3>3. QED
      BY <3>2 DEF Pipe!Next, Pipe!Reset
  <2>6. ASSUME StartRx \/ RxWorkBegin, ~StartRxEnable
        PROVE  UNCHANGED <<filled, reported, ring>>
    BY <2>6 DEF StartRx, StartRxBegin, StartRxAlloc, StartRxEnableFails,
                StartRxGiveBack, RxWorkBegin
  <2>7. ASSUME NEW t \in Threads, RxWorkHandler(t), ~SmlPollRead(t)
        PROVE  UNCHANGED <<filled, reported, ring>>
    BY <2>7 DEF RxWorkHandler, SemTake, SmlPollPending, SmlPollFails, Resubmit,
                ResubmitFails
  <2>8. ASSUME Setup, ~SetupUart PROVE UNCHANGED <<filled, reported, ring>>
    BY <2>8 DEF Setup, SetupUartFails, SmlInit, SmlInitFails
  <2>9. CASE UNCHANGED vars
    BY <2>9 DEF vars
  <2>10. QED
    BY <1>2, <2>2, <2>3, <2>4, <2>5, <2>6, <2>7, <2>8, <2>9, InterruptIsPipe DEF Next
<1>3. IInv /\ NothingBeforeSetup /\ [Next]_vars => NothingBeforeSetup'
  BY StepNothingBeforeSetup
<1>4. QED
  BY <1>1, <1>2, <1>3, AlwaysIInv, PTL DEF Spec
=============================================================================
