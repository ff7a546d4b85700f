----------------------------- MODULE MCBootLoop -----------------------------
(* A millisecond counter that overflows after five, with timeouts of two   *)
(* of them.                                                                *)
EXTENDS BootLoop
=============================================================================
