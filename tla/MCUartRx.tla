------------------------------ MODULE MCUartRx ------------------------------
(***************************************************************************)
(* UartRx on a small instance: two buffers (the Kconfig default) of two    *)
(* bytes and a ring of three, so that a buffer can be reported in one or   *)
(* two parts, and a full buffer can overflow the ring.                     *)
(***************************************************************************)
EXTENDS UartRx
=============================================================================
