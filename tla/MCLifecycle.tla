---------------------------- MODULE MCLifecycle -----------------------------
(* Two or three calls of Run, one with its receiver, and one or two of Stop: *)
(* a start, a restart, and every overlap of these.                          *)
EXTENDS Receiver
=============================================================================
