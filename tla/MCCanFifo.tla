----------------------------- MODULE MCCanFifo -----------------------------
(* Ring buffers small enough to wrap and to fill several times.           *)
EXTENDS CanFifo
=============================================================================
