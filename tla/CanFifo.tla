------------------------------ MODULE CanFifo ------------------------------
(***************************************************************************)
(* Reception of CAN frames on the STM32F4 (can_interface.c, can_fifo.c):   *)
(* the controller queues a few frames in hardware, its interrupt handler   *)
(* moves them to a ring buffer one at a time, and the main loop copies the *)
(* oldest one out field by field while the handler may preempt it.         *)
(*                                                                         *)
(* Frames are numbered in the order of the bus; the fields of frame n all  *)
(* have the value n, so that a frame put together from two can be told.    *)
(* The handler runs to completion before the main loop continues, so it is *)
(* one action; the main loop takes no step while the interrupt is pending. *)
(***************************************************************************)
EXTENDS Naturals, Sequences

CONSTANTS N,          \* CAN_FRAMES_BUFFERED, the slots of the ring buffer
          HwDepth,    \* frames the controller holds (3 in bxCAN)
          MaxFrames   \* bound: frames on the bus

ASSUME SizesAssumption ==
  /\ N \in Nat /\ N > 1
  /\ HwDepth \in Nat /\ HwDepth > 0
  /\ MaxFrames \in Nat

Number == 0..MaxFrames               \* 0: never written
Frame == [id : Number, dlc : Number, data : Number]
Whole(n) == [id |-> n, dlc |-> n, data |-> n]

VARIABLES seen,       \* number of the last frame on the bus
          hw,         \* numbers of the frames in the controller, oldest first
          buffer,     \* can_rx_fifo.buffer
          push_index, \* slot the handler writes next
          pop_index,  \* slot the main loop reads next
          pc,         \* where can_interface_read_message() is
          index,      \* its cached pop_index
          out         \* the caller's id, length and message

\* Auxiliary variables: what went through the buffer so far.
VARIABLES log,        \* numbers of the frames the handler stored
          got         \* frames can_interface_read_message() returned

vars == <<seen, hw, buffer, push_index, pop_index, pc, index, out, log, got>>

TypeOK ==
  /\ seen \in Number
  /\ hw \in Seq(Number) /\ Len(hw) <= HwDepth
  /\ buffer \in [0..N-1 -> Frame]
  /\ push_index \in 0..N-1 /\ pop_index \in 0..N-1 /\ index \in 0..N-1
  /\ pc \in {"poll", "id", "dlc", "data", "drop"}
  /\ out \in Frame
  /\ log \in Seq(Number) /\ got \in Seq(Frame)

\* Mutant: an index runs past the last slot.
Following_NoWrap(i) == i + 1

\* The index after i.
Following(i) == (i + 1) % N

\* Mutant: all slots may be used.
fifo_is_full_Never == FALSE

fifo_is_full == Following(push_index) = pop_index

\* Mutant: a single frame is taken for none.
fifo_is_empty_AtOne == Following(pop_index) = push_index

fifo_is_empty == pop_index = push_index

Init ==
  /\ seen = 0 /\ hw = <<>>
  /\ buffer = [i \in 0..N-1 |-> Whole(0)]
  /\ push_index = 0 /\ pop_index = 0
  /\ pc = "poll" /\ index = 0 /\ out = Whole(0)
  /\ log = <<>> /\ got = <<>>

---------------------------------------------------------------------------
(* The controller.  Its FIFO is not locked: a frame that finds it full     *)
(* replaces the newest one there.                                          *)

Arrive ==
  /\ seen < MaxFrames
  /\ seen' = seen + 1
  /\ hw' = IF Len(hw) < HwDepth THEN Append(hw, seen')
           ELSE [hw EXCEPT ![HwDepth] = seen']
  /\ UNCHANGED <<buffer, push_index, pop_index, pc, index, out, log, got>>

can_frame_received == hw # <<>>

---------------------------------------------------------------------------
(* The interrupt handler: can_receive_to_buffer().  If the buffer is full  *)
(* it returns without taking the frame, so the interrupt stays pending.    *)

\* Mutant: the frame is read but not released in the controller.
Taken_NotReleased == hw

\* can_receive() with release = true.
Taken == Tail(hw)

Isr ==
  /\ can_frame_received
  /\ ~fifo_is_full
  /\ buffer' = [buffer EXCEPT ![push_index] = Whole(Head(hw))]
  /\ push_index' = Following(push_index)
  /\ log' = Append(log, Head(hw))
  /\ hw' = Taken
  /\ UNCHANGED <<seen, pop_index, pc, index, out, got>>

---------------------------------------------------------------------------
(* The main loop: can_interface_read_message()                             *)

MainRuns == ~can_frame_received

\* Mutant: no look at whether there is a frame.
FrameReady_Always == TRUE

FrameReady == ~fifo_is_empty

Poll ==
  /\ MainRuns /\ pc = "poll"
  /\ FrameReady
  /\ index' = pop_index
  /\ pc' = "id"
  /\ UNCHANGED <<seen, hw, buffer, push_index, pop_index, out, log, got>>

CopyField(field, next) ==
  /\ MainRuns /\ pc = field
  /\ out' = [out EXCEPT ![field] = buffer[index][field]]
  /\ pc' = next
  /\ UNCHANGED <<seen, hw, buffer, push_index, pop_index, index, log, got>>

CopyId == CopyField("id", "dlc")
CopyDlc == CopyField("dlc", "data")
CopyData == CopyField("data", "drop")

\* fifo_drop_oldest_entry(), and the frame is returned.
Drop ==
  /\ MainRuns /\ pc = "drop"
  /\ pop_index' = Following(pop_index)
  /\ got' = Append(got, out)
  /\ pc' = "poll"
  /\ UNCHANGED <<seen, hw, buffer, push_index, index, out, log>>

Main == Poll \/ CopyId \/ CopyDlc \/ CopyData \/ Drop

Next == Arrive \/ Isr \/ Main

\* A pending interrupt is taken, and the main loop runs when none is.
Spec == Init /\ [][Next]_vars /\ WF_vars(Isr) /\ WF_vars(Main)

---------------------------------------------------------------------------
(* Properties *)

\* Every frame the main loop gets is one frame, whole, and the frames come in
\* the order in which the handler stored them, none twice and none left out,
\* although the handler may store more between any two fields being copied.
DeliveredInOrder ==
  /\ Len(got) <= Len(log)
  /\ \A k \in 1..Len(got) : got[k] = Whole(log[k])

\* No stored frame is overwritten before it is read: what the handler stored
\* and the main loop did not return yet is in the buffer, in the slots from
\* pop_index on.
NothingOverwritten ==
  /\ Len(log) - Len(got) <= N - 1
  /\ \A k \in Len(got)+1..Len(log) :
       buffer[(pop_index + (k - Len(got) - 1)) % N] = Whole(log[k])

\* The bus order survives the controller's overruns.
BusOrderKept == \A j, k \in 1..Len(log) : j < k => log[j] < log[k]

\* The buffer is full and the controller holds a frame: the handler keeps
\* returning without taking it, and the main loop gets no time to make room.
Starved == fifo_is_full /\ can_frame_received

\* A stored frame is read in the end, unless the board starves.
ReadUnlessStarved ==
  \A k \in 1..MaxFrames : (Len(log) >= k) ~> (Len(got) >= k \/ Starved)

\* What the comment in bootloader.c says of the main loop ("Remain in the
\* bootloader until either timeout is reached or a jump to the main application
\* is requested"): it goes on reading commands.  Not true of a starved board.
KeepsReading == \A k \in 1..MaxFrames : (Len(log) >= k) ~> (Len(got) >= k)

\* The ring buffer implements a bounded queue of whole frames.
Buffered == (push_index + N - pop_index) % N
Ring == [i \in 1..Buffered |-> buffer[(pop_index + i - 1) % N]]
Q == INSTANCE FrameQueue
       WITH Capacity <- N - 1, taken <- got, queue <- Ring
ImplementsQueue == Q!QSpec
=============================================================================
