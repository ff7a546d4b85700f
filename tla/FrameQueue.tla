----------------------------- MODULE FrameQueue -----------------------------
(***************************************************************************)
(* What the reception buffer promises: a bounded first-in first-out queue  *)
(* of whole frames between the interrupt handler and the main loop.        *)
(***************************************************************************)
EXTENDS Naturals, Sequences

CONSTANTS Frame,      \* what can be queued
          Capacity    \* how many of them

VARIABLES queue,      \* frames put and not yet taken
          taken       \* frames taken, oldest first

qvars == <<queue, taken>>

QInit == queue = <<>> /\ taken = <<>>

Put ==
  /\ Len(queue) < Capacity
  /\ \E f \in Frame : queue' = Append(queue, f)
  /\ UNCHANGED taken

Take ==
  /\ queue # <<>>
  /\ taken' = Append(taken, Head(queue))
  /\ queue' = Tail(queue)

QNext == Put \/ Take

QSpec == QInit /\ [][QNext]_qvars
=============================================================================
