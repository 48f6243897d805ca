------------------------------ MODULE BytePipe ------------------------------
(***************************************************************************)
(* What the UART reception of the power meter promises to the SML reader,  *)
(* with no thread, no wakeup and no buffer hand-over in sight.  A byte off *)
(* the line is pending until the receiver reports it.  A report moves all  *)
(* pending bytes into a queue of bounded capacity, as many as fit; only    *)
(* the others are lost.  The reader takes queued bytes out, a reboot       *)
(* discards everything, and pending bytes are eventually reported, queued  *)
(* ones eventually read.                                                   *)
(***************************************************************************)
EXTENDS Naturals

CONSTANT Capacity

VARIABLES pending,       \* bytes received and not yet reported
          queued         \* bytes waiting to be read

pipe == <<pending, queued>>

Init == pending = 0 /\ queued = 0

Receive == pending' = pending + 1 /\ UNCHANGED queued

Report ==
    /\ pending > 0
    /\ pending' = 0
    /\ queued' = (IF queued + pending <= Capacity THEN queued + pending ELSE Capacity)

Read(n) ==
    /\ n <= queued
    /\ queued' = queued - n
    /\ UNCHANGED pending

Consume == \E n \in 1 .. queued : Read(n)

Reset == pending' = 0 /\ queued' = 0

Next == Receive \/ Report \/ Consume \/ Reset

(* What has arrived is reported, and a queue that holds bytes is read      *)
(* again and again until it is empty.                                      *)
Spec == Init /\ [][Next]_pipe /\ WF_pipe(Report) /\ WF_pipe(Consume)
=============================================================================
