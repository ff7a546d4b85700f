------------------------------- MODULE CanSend -------------------------------
(***************************************************************************)
(* Sending a CAN frame on the STM32F4: can_interface_send_message()        *)
(* (can_interface.c) and the three transmit mailboxes of the controller,   *)
(* which go on working while the function polls, and after it has          *)
(* returned.                                                               *)
(*                                                                         *)
(* The status the function polls is that of mailbox 0, whichever mailbox   *)
(* the frame was put in.  A frame that is being transmitted cannot be      *)
(* aborted: it only is not tried again when it fails.                      *)
(***************************************************************************)
EXTENDS Integers, FiniteSets

CONSTANTS NoPayload,     \* what is sent, identifier and data, where there is no frame
          SendRetries,   \* CAN_SEND_RETRIES
          Polls,         \* the initial value of timeout: 100000
          CounterLimit   \* timeout is a uint32_t: 2^32

ASSUME SendAssumption ==
  /\ SendRetries \in Nat
  /\ Polls \in Nat \ {0}
  /\ CounterLimit \in Nat /\ CounterLimit > Polls + 1

Mailboxes == 0..2

\* A frame and the ordinal number of the call that sends it.
Numbered(Payloads) == [n : Nat, frame : Payloads]
NoFrame == [n |-> 0, frame |-> NoPayload]

VARIABLES
  mailbox,        \* the frame in each mailbox, NoFrame when it is empty
  status,         \* of each mailbox; "aborting": on the bus with its abort bit set
  rqcp0, txok0,   \* bits of CAN_TSR: mailbox 0 has completed its request, with success
  pc,             \* where can_interface_send_message() is
  message,        \* its argument, and the number of the call
  timeout, retries,
  returned        \* what the last call returned

\* Auxiliary variables.
VARIABLES newest,   \* number of the last frame transmitted
          failed    \* did the call before the last one return false?

registers == <<mailbox, status, rqcp0, txok0>>
sendVars == <<registers, pc, message, timeout, retries, returned, newest, failed>>

Busy(m) == status[m] # "empty"
OnBus(m) == status[m] \in {"wire", "aborting"}

SendTypeOK(Payloads) ==
  /\ mailbox \in [Mailboxes -> Numbered(Payloads)]
  /\ status \in [Mailboxes -> {"empty", "pending", "wire", "aborting"}]
  /\ rqcp0 \in BOOLEAN /\ txok0 \in BOOLEAN
  /\ pc \in {"idle", "abort", "transmit", "poll", "evaluate"}
  /\ message \in Numbered(Payloads)
  /\ timeout \in 0..CounterLimit-1
  /\ retries \in 0..SendRetries
  /\ returned \in BOOLEAN
  /\ newest \in Nat /\ failed \in BOOLEAN

\* can_interface_init(): nothing to transmit; a frame that fails is tried again, and
\* of several that wait the controller chooses by identifier.
SendInit ==
  /\ message = NoFrame
  /\ mailbox = [m \in Mailboxes |-> NoFrame]
  /\ status = [m \in Mailboxes |-> "empty"]
  /\ rqcp0 = FALSE /\ txok0 = FALSE
  /\ pc = "idle"
  /\ timeout = 0 /\ retries = 0
  /\ returned = TRUE /\ newest = 0 /\ failed = FALSE

---------------------------------------------------------------------------
(* can_interface_send_message() *)

Call(f) ==
  /\ pc = "idle"
  /\ message' = [n |-> message.n + 1, frame |-> f]
  /\ retries' = SendRetries
  /\ pc' = "abort"
  /\ failed' = ~returned
  /\ UNCHANGED <<registers, timeout, returned, newest>>

\* The call is over: its locals are gone.
Return(ok) == pc' = "idle" /\ returned' = ok /\ retries' = 0 /\ timeout' = 0

\* while (retries-- > 0)
TryAgain ==
  \/ /\ retries > 0
     /\ retries' = retries - 1
     /\ pc' = "abort" /\ UNCHANGED <<timeout, returned>>
  \/ /\ retries = 0
     /\ Return(FALSE)

\* Mutant: nothing is aborted.
Aborted_Nothing == status

\* What the abort bits do to the mailboxes.
Aborted == [m \in Mailboxes |->
              CASE status[m] = "pending" -> "empty"
                [] status[m] = "wire" -> "aborting"
                [] OTHER -> status[m]]

\* can_abort_all_transmissions().  Reading CAN_TSR and writing it back clears the
\* completion bits that were set.
abort_all_transmissions ==
  /\ status' = Aborted
  /\ rqcp0' = FALSE /\ txok0' = FALSE
  /\ mailbox' = [m \in Mailboxes |-> IF Aborted[m] = "empty" THEN NoFrame ELSE mailbox[m]]

Abort ==
  /\ pc = "abort"
  /\ abort_all_transmissions
  /\ pc' = "transmit"
  /\ UNCHANGED <<message, timeout, retries, returned, newest, failed>>

\* can_transmit() takes the first empty mailbox; without one, it sends nothing.
Transmit ==
  /\ pc = "transmit"
  /\ \/ \E m \in Mailboxes :
          /\ ~Busy(m) /\ \A k \in Mailboxes : k < m => Busy(k)
          /\ mailbox' = [mailbox EXCEPT ![m] = message]
          /\ status' = [status EXCEPT ![m] = "pending"]
          /\ IF m = 0 THEN rqcp0' = FALSE /\ txok0' = FALSE
                      ELSE UNCHANGED <<rqcp0, txok0>>
     \/ (\A m \in Mailboxes : Busy(m)) /\ UNCHANGED registers
  /\ timeout' = Polls
  /\ pc' = "poll"
  /\ UNCHANGED <<message, retries, returned, newest, failed>>

\* Mutant: the counter is signed.
Decremented_Signed(t) == t - 1

\* timeout--
Decremented(t) == (t + CounterLimit - 1) % CounterLimit

\* while (!can_transmission_complete() && timeout-- > 0): a counter that runs
\* out wraps before the loop ends.
PollAgain ==
  /\ pc = "poll" /\ ~rqcp0
  /\ timeout' = Decremented(timeout)
  /\ pc' = IF timeout > 0 THEN "poll" ELSE "evaluate"
  /\ UNCHANGED <<registers, message, retries, returned, newest, failed>>

Complete ==
  /\ pc = "poll" /\ rqcp0
  /\ pc' = "evaluate"
  /\ UNCHANGED <<registers, message, timeout, retries, returned, newest, failed>>

\* Mutant: the status is not looked at.
Successful_Always == TRUE

\* can_transmission_successful()
Successful == rqcp0 /\ txok0

\* if (timeout == 0): taken only when the frame completed at the last poll.
EvaluateTimeout ==
  /\ pc = "evaluate" /\ timeout = 0
  /\ abort_all_transmissions
  /\ TryAgain
  /\ UNCHANGED <<message, newest, failed>>

EvaluateStatus ==
  /\ pc = "evaluate" /\ timeout # 0
  /\ \/ Successful /\ Return(TRUE)
     \/ ~Successful /\ TryAgain
  /\ UNCHANGED <<registers, message, newest, failed>>

SendStep == Abort \/ Transmit \/ PollAgain \/ Complete \/ EvaluateTimeout \/ EvaluateStatus

---------------------------------------------------------------------------
(* The controller *)

StartTx(m) ==
  /\ status[m] = "pending"
  /\ \A k \in Mailboxes : ~OnBus(k)
  /\ status' = [status EXCEPT ![m] = "wire"]
  /\ UNCHANGED <<mailbox, rqcp0, txok0, pc, message, timeout, retries, returned, newest, failed>>

\* The request of mailbox m is over.
Completed(m, ok) ==
  /\ status' = [status EXCEPT ![m] = "empty"]
  /\ mailbox' = [mailbox EXCEPT ![m] = NoFrame]
  /\ IF m = 0 THEN rqcp0' = TRUE /\ txok0' = ok ELSE UNCHANGED <<rqcp0, txok0>>

TxDone(m) ==
  /\ OnBus(m)
  /\ Completed(m, TRUE)
  /\ newest' = mailbox[m].n
  /\ UNCHANGED <<pc, message, timeout, retries, returned, failed>>

\* Nobody acknowledges the frame, or it loses the arbitration: it is transmitted
\* again, unless it is being aborted.
TxFailed(m) ==
  /\ OnBus(m)
  /\ \/ /\ status[m] = "wire"
        /\ status' = [status EXCEPT ![m] = "pending"]
        /\ UNCHANGED <<mailbox, rqcp0, txok0>>
     \/ status[m] = "aborting" /\ Completed(m, FALSE)
  /\ UNCHANGED <<pc, message, timeout, retries, returned, newest, failed>>

Controller(m) == StartTx(m) \/ TxDone(m) \/ TxFailed(m)

---------------------------------------------------------------------------
(* Properties *)

\* can_transmit(), whose result can_interface_send_message() drops, always finds
\* an empty mailbox: at most one frame, on the bus, outlives an abort.
MailboxFree ==
  pc = "transmit" =>
    \A k, m \in Mailboxes : Busy(k) /\ Busy(m) => k = m

\* No frame is overtaken by one sent after it, whatever is aborted, tried again
\* or left behind in a mailbox by a call that gave up.
NeverOvertaken == [][newest' >= newest]_sendVars

\* The frame of the call is in a mailbox and not being aborted.
StillSent == \E m \in Mailboxes : status[m] \in {"pending", "wire"} /\ mailbox[m].n = message.n

\* can_interface.h:40 ("returns true if write was successful"): when a call returns true
\* its frame was transmitted.  Or else it was told of the success of another one: then the
\* call before it had given up, the frame left in mailbox 0 is gone, and its own is still
\* being sent, from another mailbox, where only the abort of the next call can stop it.
TrueMeansSent ==
  [][(pc = "evaluate" /\ pc' = "idle" /\ returned')
       => \/ newest = message.n
          \/ failed /\ ~Busy(0) /\ StillSent]_sendVars
=============================================================================
