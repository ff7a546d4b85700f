--------------------------- MODULE ExchangeProofs ---------------------------
(***************************************************************************)
(* The exchange of Exchange.tla, proved for all values of its constants:   *)
(* what can_interface_send_message() leaves in the mailboxes, whatever is  *)
(* sent; that the board accepts the requests that arrive whole and, if the *)
(* checksum tells them from what the bus may make of them, nothing else;   *)
(* that it answers in the frames the client would make; and all types.  If *)
(* the board runs past one of its buffers, that is over bytes said here,   *)
(* and nothing is claimed of what it does from then on.                    *)
(***************************************************************************)
EXTENDS Exchange, DatagramProofs, FiniteSetTheorems

\* The steps of CanSend, whatever is sent.
AnySend == \/ \E f : Call(f)
           \/ SendStep
           \/ \E m \in Mailboxes : Controller(m)

SendShape ==
  /\ DOMAIN mailbox = Mailboxes
  /\ \A m \in Mailboxes : mailbox[m].n \in Nat
  /\ status \in [Mailboxes -> {"empty", "pending", "wire", "aborting"}]
  /\ rqcp0 \in BOOLEAN /\ txok0 \in BOOLEAN
  /\ pc \in {"idle", "abort", "transmit", "poll", "evaluate"}
  /\ message.n \in Nat
  /\ returned \in BOOLEAN /\ failed \in BOOLEAN
  /\ newest \in Nat

\* What is in the mailboxes was sent after the last frame that was transmitted,
\* and what the controller may still start is the frame of the last call.
InOrder ==
  /\ newest <= message.n
  /\ \A m \in Mailboxes : Busy(m) =>
       /\ newest <= mailbox[m].n /\ mailbox[m].n <= message.n
       /\ (pc # "abort" /\ status[m] # "aborting") => mailbox[m].n = message.n

\* There are at most two frames in the mailboxes: one that could not be aborted,
\* and one that waits for it.
AtMostOneWaits ==
  /\ \A k, m \in Mailboxes :
       (k # m /\ Busy(k) /\ Busy(m)) =>
         \/ status[k] = "aborting" /\ status[m] = "pending"
         \/ status[m] = "aborting" /\ status[k] = "pending"
  /\ \A k, m \in Mailboxes :
       (status[k] = "aborting" /\ status[m] = "pending") => mailbox[k].n <= mailbox[m].n
  /\ pc = "transmit" => \A m \in Mailboxes : Busy(m) => status[m] = "aborting"

\* Whose completion the bits of mailbox 0 tell: that of the frame of this call,
\* unless the call before it gave up.
Completion ==
  /\ rqcp0 => ~Busy(0)
  /\ (pc = "idle" /\ returned) => ~Busy(0)
  /\ (pc # "idle" /\ ~failed /\ Busy(0)) => mailbox[0].n = message.n
  /\ (pc \in {"transmit", "poll", "evaluate"} /\ ~failed /\ rqcp0 /\ txok0)
       => newest = message.n

\* Until it is transmitted, the frame of a call is being sent.
Underway == pc \in {"poll", "evaluate"} => newest = message.n \/ StillSent

SendInv == SendShape /\ InOrder /\ AtMostOneWaits /\ Completion /\ Underway

---------------------------------------------------------------------------
(* The steps of the call *)

LEMMA CallStep ==
  ASSUME SendInv, NEW f, Call(f)
  PROVE  SendInv'
<1>1. SendShape'
  BY DEF Call, registers, SendInv, SendShape, Busy, OnBus, Mailboxes
<1>2. InOrder'
  BY DEF Call, registers, SendInv, SendShape, InOrder, AtMostOneWaits, Busy, OnBus, Mailboxes
<1>3. AtMostOneWaits'
  BY DEF Call, registers, SendInv, SendShape, InOrder, AtMostOneWaits, Busy, OnBus, Mailboxes
<1>4. Completion'
  BY DEF Call, registers, SendInv, SendShape, InOrder, AtMostOneWaits, Completion, Busy, OnBus, Mailboxes
<1>5. Underway'
  BY DEF Call, registers, SendInv, SendShape, InOrder, AtMostOneWaits, Underway, StillSent, Busy, OnBus, Mailboxes
<1> QED BY <1>1, <1>2, <1>3, <1>4, <1>5 DEF SendInv

LEMMA AbortStep ==
  ASSUME SendInv, Abort
  PROVE  SendInv'
<1>1. SendShape'
  BY DEF Abort, abort_all_transmissions, Aborted, NoFrame, SendInv, SendShape, Busy, OnBus, Mailboxes
<1>2. InOrder'
  BY DEF Abort, abort_all_transmissions, Aborted, NoFrame, SendInv, SendShape, InOrder, AtMostOneWaits, Busy, OnBus, Mailboxes
<1>3. AtMostOneWaits'
  BY DEF Abort, abort_all_transmissions, Aborted, NoFrame, SendInv, SendShape, InOrder, AtMostOneWaits, Busy, OnBus, Mailboxes
<1>4. Completion'
  BY DEF Abort, abort_all_transmissions, Aborted, NoFrame, SendInv, SendShape, InOrder, AtMostOneWaits, Completion, Busy, OnBus, Mailboxes
<1>5. Underway'
  BY DEF Abort, abort_all_transmissions, Aborted, NoFrame, SendInv, SendShape, InOrder, AtMostOneWaits, Underway, StillSent, Busy, OnBus, Mailboxes
<1> QED BY <1>1, <1>2, <1>3, <1>4, <1>5 DEF SendInv

LEMMA TransmitStep ==
  ASSUME SendInv, Transmit
  PROVE  SendInv'
<1>1. SendShape'
  BY DEF Transmit, registers, SendInv, SendShape, Busy, OnBus, Mailboxes
<1>2. InOrder'
  BY DEF Transmit, registers, SendInv, SendShape, InOrder, AtMostOneWaits, Busy, OnBus, Mailboxes
<1>3. AtMostOneWaits'
  BY DEF Transmit, registers, SendInv, SendShape, InOrder, AtMostOneWaits, Busy, OnBus, Mailboxes
<1>4. Completion'
  BY DEF Transmit, registers, SendInv, SendShape, InOrder, AtMostOneWaits, Completion, Busy, OnBus, Mailboxes
<1>5. Underway'
  BY DEF Transmit, registers, SendInv, SendShape, InOrder, AtMostOneWaits, Underway, StillSent, Busy, OnBus, Mailboxes
<1> QED BY <1>1, <1>2, <1>3, <1>4, <1>5 DEF SendInv

LEMMA PollAgainStep ==
  ASSUME SendInv, PollAgain
  PROVE  SendInv'
<1>1. SendShape'
  BY DEF PollAgain, registers, SendInv, SendShape, Busy, OnBus, Mailboxes
<1>2. InOrder'
  BY DEF PollAgain, registers, SendInv, SendShape, InOrder, AtMostOneWaits, Busy, OnBus, Mailboxes
<1>3. AtMostOneWaits'
  BY DEF PollAgain, registers, SendInv, SendShape, InOrder, AtMostOneWaits, Busy, OnBus, Mailboxes
<1>4. Completion'
  BY DEF PollAgain, registers, SendInv, SendShape, InOrder, AtMostOneWaits, Completion, Busy, OnBus, Mailboxes
<1>5. Underway'
  BY DEF PollAgain, registers, SendInv, SendShape, InOrder, AtMostOneWaits, Underway, StillSent, Busy, OnBus, Mailboxes
<1> QED BY <1>1, <1>2, <1>3, <1>4, <1>5 DEF SendInv

LEMMA CompleteStep ==
  ASSUME SendInv, Complete
  PROVE  SendInv'
<1>1. SendShape'
  BY DEF Complete, registers, SendInv, SendShape, Busy, OnBus, Mailboxes
<1>2. InOrder'
  BY DEF Complete, registers, SendInv, SendShape, InOrder, AtMostOneWaits, Busy, OnBus, Mailboxes
<1>3. AtMostOneWaits'
  BY DEF Complete, registers, SendInv, SendShape, InOrder, AtMostOneWaits, Busy, OnBus, Mailboxes
<1>4. Completion'
  BY DEF Complete, registers, SendInv, SendShape, InOrder, AtMostOneWaits, Completion, Busy, OnBus, Mailboxes
<1>5. Underway'
  BY DEF Complete, registers, SendInv, SendShape, InOrder, AtMostOneWaits, Underway, StillSent, Busy, OnBus, Mailboxes
<1> QED BY <1>1, <1>2, <1>3, <1>4, <1>5 DEF SendInv

LEMMA EvaluateTimeoutStep ==
  ASSUME SendInv, EvaluateTimeout
  PROVE  SendInv'
<1>1. SendShape'
  BY DEF EvaluateTimeout, TryAgain, Return, abort_all_transmissions, Aborted, NoFrame, SendInv, SendShape, Busy, OnBus, Mailboxes
<1>2. InOrder'
  BY DEF EvaluateTimeout, TryAgain, Return, abort_all_transmissions, Aborted, NoFrame, SendInv, SendShape, InOrder, AtMostOneWaits, Busy, OnBus, Mailboxes
<1>3. AtMostOneWaits'
  BY DEF EvaluateTimeout, TryAgain, Return, abort_all_transmissions, Aborted, NoFrame, SendInv, SendShape, InOrder, AtMostOneWaits, Busy, OnBus, Mailboxes
<1>4. Completion'
  BY DEF EvaluateTimeout, TryAgain, Return, abort_all_transmissions, Aborted, NoFrame, SendInv, SendShape, InOrder, AtMostOneWaits, Completion, Busy, OnBus, Mailboxes
<1>5. Underway'
  BY DEF EvaluateTimeout, TryAgain, Return, abort_all_transmissions, Aborted, NoFrame, SendInv, SendShape, InOrder, AtMostOneWaits, Underway, StillSent, Busy, OnBus, Mailboxes
<1> QED BY <1>1, <1>2, <1>3, <1>4, <1>5 DEF SendInv

LEMMA EvaluateStatusStep ==
  ASSUME SendInv, EvaluateStatus
  PROVE  SendInv'
<1>1. SendShape'
  BY DEF EvaluateStatus, Successful, TryAgain, Return, registers, SendInv, SendShape, Busy, OnBus, Mailboxes
<1>2. InOrder'
  BY DEF EvaluateStatus, Successful, TryAgain, Return, registers, SendInv, SendShape, InOrder, AtMostOneWaits, Busy, OnBus, Mailboxes
<1>3. AtMostOneWaits'
  BY DEF EvaluateStatus, Successful, TryAgain, Return, registers, SendInv, SendShape, InOrder, AtMostOneWaits, Busy, OnBus, Mailboxes
<1>4. Completion'
  BY DEF EvaluateStatus, Successful, TryAgain, Return, registers, SendInv, SendShape, InOrder, AtMostOneWaits, Completion, Busy, OnBus, Mailboxes
<1>5. Underway'
  BY DEF EvaluateStatus, Successful, TryAgain, Return, registers, SendInv, SendShape, InOrder, AtMostOneWaits, Underway, StillSent, Busy, OnBus, Mailboxes
<1> QED BY <1>1, <1>2, <1>3, <1>4, <1>5 DEF SendInv

---------------------------------------------------------------------------
(* The steps of the controller *)

LEMMA StartTxStep ==
  ASSUME SendInv, NEW m \in Mailboxes, StartTx(m)
  PROVE  SendInv'
<1>1. SendShape'
  BY DEF StartTx, SendInv, SendShape, Busy, OnBus, Mailboxes
<1>2. InOrder'
  BY DEF StartTx, SendInv, SendShape, InOrder, AtMostOneWaits, Busy, OnBus, Mailboxes
<1>3. AtMostOneWaits'
  BY DEF StartTx, SendInv, SendShape, InOrder, AtMostOneWaits, Busy, OnBus, Mailboxes
<1>4. Completion'
  BY DEF StartTx, SendInv, SendShape, InOrder, AtMostOneWaits, Completion, Busy, OnBus, Mailboxes
<1>5. Underway'
  BY DEF StartTx, SendInv, SendShape, InOrder, AtMostOneWaits, Underway, StillSent, Busy, OnBus, Mailboxes
<1> QED BY <1>1, <1>2, <1>3, <1>4, <1>5 DEF SendInv

LEMMA TxDoneStep ==
  ASSUME SendInv, NEW m \in Mailboxes, TxDone(m)
  PROVE  SendInv'
<1>1. SendShape'
  BY DEF TxDone, Completed, NoFrame, SendInv, SendShape, Busy, OnBus, Mailboxes
<1>2. InOrder'
  BY DEF TxDone, Completed, NoFrame, SendInv, SendShape, InOrder, AtMostOneWaits, Busy, OnBus, Mailboxes
<1>3. AtMostOneWaits'
  BY DEF TxDone, Completed, NoFrame, SendInv, SendShape, InOrder, AtMostOneWaits, Busy, OnBus, Mailboxes
<1>4. Completion'
  BY DEF TxDone, Completed, NoFrame, SendInv, SendShape, InOrder, AtMostOneWaits, Completion, Busy, OnBus, Mailboxes
<1>5. Underway'
  BY DEF TxDone, Completed, NoFrame, SendInv, SendShape, InOrder, AtMostOneWaits, Underway, StillSent, Busy, OnBus, Mailboxes
<1> QED BY <1>1, <1>2, <1>3, <1>4, <1>5 DEF SendInv

LEMMA TxFailedStep ==
  ASSUME SendInv, NEW m \in Mailboxes, TxFailed(m)
  PROVE  SendInv'
<1>1. SendShape'
  <2>1. CASE status[m] = "wire" /\ status' = [status EXCEPT ![m] = "pending"]
                /\ UNCHANGED <<mailbox, rqcp0, txok0>>
    BY <2>1 DEF TxFailed, SendInv, SendShape
  <2>2. CASE status[m] = "aborting" /\ Completed(m, FALSE)
    <3>1. /\ DOMAIN mailbox' = Mailboxes
          /\ \A k \in Mailboxes : mailbox'[k].n \in Nat
      BY <2>2 DEF Completed, NoFrame, SendInv, SendShape
    <3>2. /\ status' \in [Mailboxes -> {"empty", "pending", "wire", "aborting"}]
          /\ rqcp0' \in BOOLEAN /\ txok0' \in BOOLEAN
      BY <2>2 DEF Completed, SendInv, SendShape
    <3> QED BY <3>1, <3>2 DEF TxFailed, SendInv, SendShape
  <2> QED BY <2>1, <2>2 DEF TxFailed
<1>2. InOrder'
  BY DEF TxFailed, Completed, NoFrame, SendInv, SendShape, InOrder, AtMostOneWaits, Busy, OnBus, Mailboxes
<1>3. AtMostOneWaits'
  BY DEF TxFailed, Completed, NoFrame, SendInv, SendShape, InOrder, AtMostOneWaits, Busy, OnBus, Mailboxes
<1>4. Completion'
  BY DEF TxFailed, Completed, NoFrame, SendInv, SendShape, InOrder, AtMostOneWaits, Completion, Busy, OnBus, Mailboxes
<1>5. Underway'
  BY DEF TxFailed, Completed, NoFrame, SendInv, SendShape, InOrder, AtMostOneWaits, Underway, StillSent, Busy, OnBus, Mailboxes
<1> QED BY <1>1, <1>2, <1>3, <1>4, <1>5 DEF SendInv

---------------------------------------------------------------------------
(* The theorems *)

LEMMA SendInitial == SendInit => SendInv
<1> SUFFICES ASSUME SendInit PROVE SendInv
  OBVIOUS
<1>1. SendShape /\ message.n = 0 /\ newest = 0
  BY DEF SendInit, SendShape, NoFrame
<1>2. \A m \in Mailboxes : status[m] = "empty"
  BY DEF SendInit
<1>3. pc = "idle" /\ ~rqcp0 /\ 0 \in Mailboxes
  BY DEF SendInit, Mailboxes
<1> QED BY <1>1, <1>2, <1>3 DEF SendInv, InOrder, AtMostOneWaits, Completion, Underway, Busy

LEMMA SendInvKept ==
  ASSUME SendInv, AnySend \/ UNCHANGED sendVars
  PROVE  SendInv'
<1>1. ASSUME NEW f, Call(f) PROVE SendInv'
  BY <1>1, CallStep
<1>2. CASE SendStep
  BY <1>2, AbortStep, TransmitStep, PollAgainStep, CompleteStep, EvaluateTimeoutStep,
     EvaluateStatusStep DEF SendStep
<1>3. ASSUME NEW m \in Mailboxes, Controller(m) PROVE SendInv'
  BY <1>3, StartTxStep, TxDoneStep, TxFailedStep DEF Controller
<1>4. CASE UNCHANGED sendVars
  BY <1>4 DEF sendVars, registers, SendInv, SendShape, InOrder, AtMostOneWaits, Completion,
              Underway, StillSent, Busy
<1> QED BY <1>1, <1>2, <1>3, <1>4 DEF AnySend

\* A step of the exchange sends frames as CanSend says, or leaves that alone.
LEMMA ExchangeSends == [Next]_vars => AnySend \/ UNCHANGED sendVars
<1> SUFFICES ASSUME [Next]_vars PROVE AnySend \/ UNCHANGED sendVars
  OBVIOUS
<1>1. CASE ReplyFrame
  BY <1>1 DEF ReplyFrame, AnySend
<1>2. CASE Sending
  BY <1>2 DEF Sending, AnySend
<1>3. CASE StartTransmission \/ Transmission \/ FailTransmission
  BY <1>3 DEF StartTransmission, Transmission, FailTransmission, AnySend, Controller
<1>4. CASE Request \/ SendFrame \/ ReadFrame \/ DatagramTimeOut
  BY <1>4 DEF Request, SendFrame, ReadFrame, DatagramTimeOut
<1>5. CASE ReplyEnds \/ OtherTransmission \/ UNCHANGED vars
  BY <1>5 DEF ReplyEnds, OtherTransmission, vars
<1> QED BY <1>1, <1>2, <1>3, <1>4, <1>5 DEF Next

\* Whatever the call does and in whatever order the controller transmits, the
\* mailboxes hold frames in the order of their numbers, at most one of them waits,
\* and the bits of mailbox 0 tell of the frame that was put into it last
\* (can_interface.c).
THEOREM SendInvariant == Spec => []SendInv
<1>1. Init => SendInv
  BY SendInitial DEF Init
<1>2. SendInv /\ [Next]_vars => SendInv'
  BY ExchangeSends, SendInvKept
<1> QED BY <1>1, <1>2, PTL DEF Spec

\* Whatever was aborted, tried again or given up, can_transmit() finds an empty
\* mailbox.
THEOREM MailboxFound == Spec => []MailboxFree
<1>1. SendInv => MailboxFree
  BY DEF SendInv, AtMostOneWaits, MailboxFree
<1> QED BY <1>1, SendInvariant, PTL

\* The number of the last frame that was transmitted never falls.
LEMMA OrderKept ==
  ASSUME SendInv, AnySend \/ UNCHANGED sendVars
  PROVE  newest' >= newest
<1> newest \in Nat
  BY DEF SendInv, SendShape
<1>1. ASSUME NEW m \in Mailboxes, Controller(m) PROVE newest' >= newest
  <2>1. CASE TxDone(m)
    BY <2>1 DEF TxDone, SendInv, SendShape, InOrder, Busy, OnBus
  <2>2. CASE StartTx(m) \/ TxFailed(m)
    <3>1. newest' = newest
      BY <2>2 DEF StartTx, TxFailed
    <3> QED BY <3>1
  <2> QED BY <1>1, <2>1, <2>2 DEF Controller
<1>2. CASE \E f : Call(f)
  BY <1>2 DEF Call
<1>3. CASE SendStep
  <2>1. newest' = newest
    BY <1>3 DEF SendStep, Abort, Transmit, PollAgain, Complete, EvaluateTimeout,
                EvaluateStatus
  <2> QED BY <2>1
<1>4. CASE UNCHANGED sendVars
  BY <1>4 DEF sendVars
<1> QED BY <1>1, <1>2, <1>3, <1>4 DEF AnySend

\* No frame is overtaken by one that was sent after it.
THEOREM FramesInOrder == Spec => NeverOvertaken
<1>1. SendInv /\ [Next]_vars => [newest' >= newest]_sendVars
  BY ExchangeSends, OrderKept
<1> QED BY <1>1, SendInvariant, PTL DEF Spec, NeverOvertaken

\* A call that returns true has sent its frame; or the call before it gave up, and the
\* frame is still being sent.
THEOREM TrueIsTrue == Spec => TrueMeansSent
<1> DEFINE Said == (pc = "evaluate" /\ pc' = "idle" /\ returned')
                     => \/ newest = message.n
                        \/ failed /\ ~Busy(0) /\ StillSent
<1>1. ASSUME SendInv, AnySend \/ UNCHANGED sendVars PROVE Said
  <2>1. CASE \E f : Call(f)
    BY <2>1 DEF Call
  <2>2. CASE SendStep
    BY <1>1, <2>2 DEF SendStep, Abort, Transmit, PollAgain, Complete, EvaluateTimeout,
                EvaluateStatus, TryAgain, Return, Successful, SendInv, SendShape, Completion,
                Underway
  <2>3. CASE \E m \in Mailboxes : Controller(m)
    BY <2>3 DEF Controller, StartTx, TxDone, TxFailed
  <2>4. CASE UNCHANGED sendVars
    BY <2>4 DEF sendVars
  <2> QED BY <1>1, <2>1, <2>2, <2>3, <2>4 DEF AnySend
<1>2. SendInv /\ [Next]_vars => [Said]_sendVars
  BY <1>1, ExchangeSends
<1> QED BY <1>2, SendInvariant, PTL DEF Spec, TrueMeansSent

---------------------------------------------------------------------------
(* What arrives whole is accepted *)

LEMMA RequestsFit == \A r \in Requests : Fits(r)
BY RequestsAssumption

LEMMA FramesLayout ==
  ASSUME NEW r \in Requests
  PROVE  CutInto(FramesOf[r], Written(r))
<1>1. Written(r) \in Seq(Byte) /\ Written(r) # <<>>
  BY RequestsFit, WrittenBytes
<1>2. CutInto(datagram_to_frames(Written(r)), Written(r))
  BY <1>1, FramesOfBytes
<1> QED BY <1>2 DEF FramesOf, Written

SentIn(rs, x) ==
  /\ x[2].request \in 1..Len(rs)
  /\ x[2].place \in 1..Len(FramesOf[rs[x[2].request]])
  /\ x[1] = FramesOf[rs[x[2].request]][x[2].place]

Sent(x) == SentIn(requests, x)

\* These frames are the first ones of r, or begin with all of them.
First(tags, r) ==
  /\ tags # <<>>
  /\ \A i \in 1..Len(tags) : i <= Len(FramesOf[r]) =>
       FrameOf(requests, tags[i]) = FramesOf[r][i]

LinkShape ==
  /\ requests \in Seq(Requests) /\ Len(requests) <= MaxRequests
  /\ unsent \in Seq(Frame \X Tag) /\ fifo \in Seq(Frame \X Tag)
  /\ arrived \in Seq(Tag) /\ verdict.tags \in Seq(Tag)
  /\ Shaped(dt) /\ ~Overrun(dt)

\* Only frames of requests are on their way, and their tags tell which.
TagsTrue ==
  /\ \A i \in 1..Len(unsent) : Sent(unsent[i])
  /\ \A i \in 1..Len(fifo) : Sent(fifo[i])
  /\ \A i \in 1..Len(arrived) : arrived[i].request \in 1..Len(requests)
  /\ \A i \in 1..Len(verdict.tags) : verdict.tags[i].request \in 1..Len(requests)

\* When the frames that arrived are the first ones of a request, the reader has read
\* their bytes, and waits for more.
ReaderInStep ==
  \A r \in Requests : (Readable(r) /\ First(arrived, r)) =>
    Len(arrived) < Len(FramesOf[r]) /\ HasRead(dt, r, 8 * Len(arrived))

LinkInv == LinkShape /\ TagsTrue /\ ReaderInStep /\ WholeAccepted

linkVars == <<requests, unsent, fifo, dt, undefined, arrived, verdict>>

LEMMA LinkInitial == Init => LinkInv
<1> SUFFICES ASSUME Init PROVE LinkInv
  OBVIOUS
<1>1. /\ requests = <<>> /\ unsent = <<>> /\ fifo = <<>> /\ arrived = <<>>
      /\ dt = InitialReader /\ verdict.tags = <<>>
  BY DEF Init, NoVerdict
<1>2. Shaped(InitialReader)
  <2> DEFINE s == InitialReader
  <2>1. <<17, 34, 51, 68>> \in Quad /\ <<0, 0, 0, 0>> \in Quad /\ CAN_DATAGRAM_VERSION \in Byte
    BY DEF Quad, Byte, CAN_DATAGRAM_VERSION
  <2>2. <<>> \in Seq(Byte) /\ Len(<<>>) = 0 /\ 0 \in Byte
    BY EmptySeq DEF Byte
  <2>3. /\ s \in Reader /\ s.reader_state = "version" /\ s.crc_read = 0 /\ s.data_len_read = 0
        /\ s.data = <<>> /\ s.dst = <<>>
    BY <2>1, <2>2 DEF InitialReader, Reader, ReaderState
  <2>4. InputSize \in Nat \ {0} /\ AddressSize \in Nat \ {0}
    BY DatagramAssumption
  <2> HIDE DEF s
  <2>5. Shaped(s)
    BY <2>2, <2>3, <2>4 DEF Shaped
  <2> QED BY <2>5 DEF s
<1>3. /\ <<>> \in Seq(Requests) /\ <<>> \in Seq(Frame \X Tag) /\ <<>> \in Seq(Tag) /\ Len(<<>>) = 0
  BY EmptySeq
<1>4. LinkShape
  <2>1. ~Overrun(InitialReader)
    BY DEF Overrun, InitialReader
  <2> QED BY <1>1, <1>2, <1>3, <2>1, ExchangeAssumption DEF LinkShape
<1>5. TagsTrue
  BY <1>1, <1>3 DEF TagsTrue
<1>6. ReaderInStep /\ WholeAccepted
  BY <1>1 DEF ReaderInStep, First, WholeAccepted
<1> QED BY <1>4, <1>5, <1>6 DEF LinkInv

LEMMA RequestLink ==
  ASSUME LinkInv, Request
  PROVE  LinkInv'
<1>0. LinkShape /\ TagsTrue /\ ReaderInStep /\ WholeAccepted
  BY DEF LinkInv
<1>1. PICK r \in Requests :
        /\ requests' = Append(requests, r)
        /\ unsent' = [i \in 1..Len(FramesOf[r]) |->
                        <<FramesOf[r][i], [request |-> Len(requests) + 1, place |-> i]>>]
  BY DEF Request
<1>2. /\ Len(requests) < MaxRequests
      /\ fifo' = fifo /\ dt' = dt /\ arrived' = arrived /\ verdict' = verdict
  BY DEF Request, board
<1>3. /\ requests' \in Seq(Requests) /\ Len(requests') = Len(requests) + 1
      /\ requests'[Len(requests)+1] = r /\ Len(requests) \in Nat
      /\ \A i \in 1..Len(requests) : requests'[i] = requests[i]
  BY <1>0, <1>1, AppendProperties DEF LinkShape
<1>4. MaxRequests \in Nat /\ Len(requests) + 1 \in 1..MaxRequests
  BY <1>2, <1>3, ExchangeAssumption
<1>5. FramesOf[r] \in Seq(Frame) /\ Len(FramesOf[r]) \in Nat
  BY FramesLayout DEF CutInto
<1>6. unsent' \in Seq(Frame \X Tag) /\ Len(unsent') = Len(FramesOf[r])
  <2>1. ASSUME NEW i \in 1..Len(FramesOf[r])
        PROVE  <<FramesOf[r][i], [request |-> Len(requests) + 1, place |-> i]>> \in Frame \X Tag
    <3>1. FramesOf[r][i] \in Frame
      BY <1>5, ElementOfSeq
    <3>2. [request |-> Len(requests) + 1, place |-> i] \in Tag
      BY <1>4, <1>5 DEF Tag
    <3> QED BY <3>1, <3>2
  <2>2. unsent' \in [1..Len(FramesOf[r]) -> Frame \X Tag]
    BY <1>1, <2>1
  <2> QED BY <1>5, <2>2
<1>7. LinkShape'
  BY <1>0, <1>2, <1>3, <1>4, <1>6 DEF LinkShape
<1>8. ASSUME NEW x, Sent(x) PROVE SentIn(requests', x)
  BY <1>3, <1>8, SMTT(60) DEF Sent, SentIn
<1>9. TagsTrue'
  <2>1. ASSUME NEW i \in 1..Len(unsent') PROVE SentIn(requests', unsent'[i])
    <3>1. unsent'[i] = <<FramesOf[r][i], [request |-> Len(requests) + 1, place |-> i]>>
          /\ i \in 1..Len(FramesOf[r])
      BY <1>1, <1>6
    <3> QED BY <1>3, <3>1 DEF SentIn
  <2>2. ASSUME NEW i \in 1..Len(fifo) PROVE SentIn(requests', fifo[i])
    BY <1>0, <1>8 DEF TagsTrue
  <2>3. 1..Len(requests) \subseteq 1..Len(requests')
    BY <1>3
  <2>4. /\ \A i \in 1..Len(arrived) : arrived[i].request \in 1..Len(requests')
        /\ \A i \in 1..Len(verdict.tags) : verdict.tags[i].request \in 1..Len(requests')
    BY <1>0, <2>3 DEF TagsTrue
  <2> QED BY <1>2, <2>1, <2>2, <2>4 DEF TagsTrue, Sent
<1>10. ReaderInStep'
  <2>1. ASSUME NEW q \in Requests, Readable(q), First(arrived, q)'
        PROVE  Len(arrived) < Len(FramesOf[q]) /\ HasRead(dt, q, 8 * Len(arrived))
    <3>1. First(arrived, q)
      BY <1>0, <1>2, <1>3, <2>1 DEF TagsTrue, First, FrameOf
    <3> QED BY <1>0, <2>1, <3>1 DEF ReaderInStep
  <2> QED BY <1>2, <2>1 DEF ReaderInStep, First
<1>11. WholeAccepted'
  <2> PICK tags : tags = verdict.tags
    OBVIOUS
  <2>1. SUFFICES ASSUME tags # <<>>, Whole(tags)'
        PROVE  LET q == requests'[tags[1].request]
               IN Readable(q) => verdict.valid /\ verdict.dst = q.dst /\ verdict.data = q.data
    BY <1>2 DEF WholeAccepted, Whole
  <2>2. tags \in Seq(Tag) /\ \A i \in 1..Len(tags) : tags[i].request \in 1..Len(requests)
    BY <1>0 DEF LinkShape, TagsTrue
  <2>3. 1 \in 1..Len(tags)
    BY <2>1, <2>2, EmptySeq
  <2>4. requests'[tags[1].request] = requests[tags[1].request]
    BY <1>3, <2>2, <2>3, SMTT(60)
  <2>5. Whole(tags)
    <3> PICK q : q = requests[tags[1].request]
      OBVIOUS
    <3>1. Len(tags) = Len(FramesOf[q]) /\ \A i \in 1..Len(tags) : FrameOf(requests', tags[i]) = FramesOf[q][i]
      BY <2>1, <2>4 DEF Whole, BeginsWhole
    <3>2. \A i \in 1..Len(tags) : FrameOf(requests', tags[i]) = FrameOf(requests, tags[i])
      BY <1>3, <2>2 DEF FrameOf
    <3>3. Len(tags) \in Nat
      BY <2>2
    <3> QED BY <3>1, <3>2, <3>3 DEF Whole, BeginsWhole
  <2> QED BY <1>0, <2>1, <2>4, <2>5 DEF WholeAccepted
<1> QED BY <1>7, <1>9, <1>10, <1>11 DEF LinkInv

\* The filters let the frames of the client pass, and those of the other board not.
LEMMA ClientPasses ==
  ASSUME NEW f
  PROVE  Received(Broadcast, f) = Append(fifo, f)
BY DEF Received, Filters

LEMMA OtherBoardFiltered ==
  ASSUME OtherTransmission
  PROVE  fifo' = fifo
BY ExchangeAssumption DEF OtherTransmission, Received, Filters

LEMMA SendFrameLink ==
  ASSUME LinkInv, SendFrame
  PROVE  LinkInv'
<1>0. LinkShape /\ TagsTrue /\ ReaderInStep /\ WholeAccepted
  BY DEF LinkInv
<1>1. /\ unsent # <<>> /\ unsent' = Tail(unsent)
      /\ fifo' = Append(fifo, Head(unsent)) \/ fifo' = fifo
      /\ requests' = requests /\ dt' = dt /\ arrived' = arrived /\ verdict' = verdict
  BY ClientPasses DEF SendFrame, board
<1>2. /\ Head(unsent) \in Frame \X Tag /\ Tail(unsent) \in Seq(Frame \X Tag)
      /\ \A i \in 1..Len(Tail(unsent)) : Tail(unsent)[i] = unsent[i+1] /\ i+1 \in 1..Len(unsent)
      /\ Head(unsent) = unsent[1] /\ 1 \in 1..Len(unsent)
  <2>1. unsent \in Seq(Frame \X Tag) /\ unsent # <<>>
    BY <1>0, <1>1 DEF LinkShape
  <2>2. /\ Head(unsent) \in Frame \X Tag /\ Tail(unsent) \in Seq(Frame \X Tag)
        /\ Len(Tail(unsent)) = Len(unsent) - 1
        /\ \A i \in 1..Len(Tail(unsent)) : Tail(unsent)[i] = unsent[i+1]
    BY <2>1, HeadTailProperties
  <2>3. Len(unsent) \in Nat \ {0} /\ Head(unsent) = unsent[1]
    BY <2>1, EmptySeq
  <2> QED BY <2>2, <2>3
<1>3. Sent(Head(unsent)) /\ \A i \in 1..Len(Tail(unsent)) : Sent(Tail(unsent)[i])
  BY <1>0, <1>2 DEF TagsTrue
<1>4. fifo' \in Seq(Frame \X Tag) /\ \A i \in 1..Len(fifo') : Sent(fifo'[i])
  <2>1. CASE fifo' = fifo
    BY <1>0, <2>1 DEF LinkShape, TagsTrue
  <2>2. CASE fifo' = Append(fifo, Head(unsent))
    <3>1. /\ fifo' \in Seq(Frame \X Tag) /\ Len(fifo') = Len(fifo) + 1 /\ Len(fifo) \in Nat
          /\ fifo'[Len(fifo)+1] = Head(unsent)
          /\ \A i \in 1..Len(fifo) : fifo'[i] = fifo[i]
      BY <1>0, <1>2, <2>2, AppendProperties DEF LinkShape
    <3>2. ASSUME NEW i \in 1..Len(fifo') PROVE Sent(fifo'[i])
      <4>1. CASE i = Len(fifo) + 1
        BY <1>3, <3>1, <4>1
      <4>2. CASE i \in 1..Len(fifo)
        BY <1>0, <3>1, <4>2 DEF TagsTrue
      <4> QED BY <3>1, <4>1, <4>2
    <3> QED BY <3>1, <3>2
  <2> QED BY <1>1, <2>1, <2>2
<1>5. LinkShape'
  BY <1>0, <1>1, <1>2, <1>4 DEF LinkShape
<1>6. TagsTrue'
  BY <1>0, <1>1, <1>3, <1>4 DEF TagsTrue, Sent
<1>7. ReaderInStep'
  BY <1>0, <1>1, SMTT(60) DEF ReaderInStep, First
<1>8. WholeAccepted'
  BY <1>0, <1>1, SMTT(60) DEF WholeAccepted, Whole, BeginsWhole
<1> QED BY <1>5, <1>6, <1>7, <1>8 DEF LinkInv

\* The reader and the tags once the frame of x is read.
TagsWith(x) == IF x[1].start THEN <<x[2]>> ELSE Append(arrived, x[2])
ReaderBefore(x) == IF x[1].start THEN Start(dt) ELSE dt

LEMMA TagsRead ==
  ASSUME LinkInv, NEW x \in Frame \X Tag, Sent(x)
  PROVE  /\ TagsWith(x) \in Seq(Tag) /\ Len(TagsWith(x)) \in Nat \ {0}
         /\ TagsWith(x)[Len(TagsWith(x))] = x[2]
         /\ \A i \in 1..Len(TagsWith(x)) : TagsWith(x)[i].request \in 1..Len(requests)
         /\ x[1].start => Len(TagsWith(x)) = 1
         /\ ~x[1].start => /\ Len(TagsWith(x)) = Len(arrived) + 1
                           /\ \A i \in 1..Len(arrived) : TagsWith(x)[i] = arrived[i]
<1> DEFINE tags == TagsWith(x)
<1>1. /\ arrived \in Seq(Tag) /\ x[2] \in Tag /\ x[2].request \in 1..Len(requests)
      /\ \A i \in 1..Len(arrived) : arrived[i].request \in 1..Len(requests)
  BY DEF LinkInv, LinkShape, TagsTrue, Sent, SentIn
<1>2. CASE x[1].start
  <2>1. tags = <<x[2]>>
    BY <1>2 DEF TagsWith
  <2>2. tags \in Seq(Tag) /\ Len(tags) = 1 /\ tags[1] = x[2]
    BY <1>1, <2>1
  <2> HIDE DEF tags
  <2>3. \A i \in 1..Len(tags) : tags[i].request \in 1..Len(requests)
    BY <1>1, <2>2
  <2>4. /\ tags \in Seq(Tag) /\ Len(tags) \in Nat \ {0} /\ tags[Len(tags)] = x[2]
        /\ Len(tags) = 1
    BY <2>2
  <2> QED BY <1>2, <2>3, <2>4 DEF tags
<1>3. CASE ~x[1].start
  <2>1. tags = Append(arrived, x[2])
    BY <1>3 DEF TagsWith
  <2>2. /\ tags \in Seq(Tag) /\ Len(tags) = Len(arrived) + 1 /\ tags[Len(arrived) + 1] = x[2]
        /\ \A i \in 1..Len(arrived) : tags[i] = arrived[i]
    BY <1>1, <2>1, AppendProperties
  <2>3. Len(arrived) \in Nat
    BY <1>1
  <2> HIDE DEF tags
  <2>4. ASSUME NEW i \in 1..Len(tags) PROVE tags[i].request \in 1..Len(requests)
    <3>1. CASE i = Len(arrived) + 1
      BY <1>1, <2>2, <3>1
    <3>2. CASE i \in 1..Len(arrived)
      BY <1>1, <2>2, <3>2
    <3> QED BY <2>2, <2>3, <3>1, <3>2
  <2>5. Len(tags) \in Nat \ {0} /\ tags[Len(tags)] = x[2]
    BY <2>2, <2>3
  <2> QED BY <1>3, <2>2, <2>4, <2>5 DEF tags
<1> QED BY <1>2, <1>3, SMTT(60)

\* All the F frames that W bytes are cut into have eight, but the last one.
LEMMA CutInFrames ==
  ASSUME NEW F \in Nat \ {0}, NEW W \in Nat, 8 * F < W + 8, W <= 8 * F, NEW k \in 1..F,
         NEW l, l = (IF k < F THEN 8 ELSE W - 8 * (k - 1))
  PROVE  /\ l \in 0..8 /\ 8 * (k - 1) \in Nat /\ 8 * (k - 1) + l <= W
         /\ k < F => 8 * (k - 1) + l = 8 * k
         /\ k = F => 8 * (k - 1) + l = W
<1>1. k \in Nat /\ k >= 1 /\ k <= F
  OBVIOUS
<1>2. CASE k < F
  BY <1>1, <1>2
<1>3. CASE k = F
  BY <1>1, <1>3, SMTT(60)
<1> QED BY <1>1, <1>2, <1>3

\* How long a frame is, and what it holds.
LEMMA FrameAt ==
  ASSUME NEW r \in Requests, NEW k \in 1..Len(FramesOf[r])
  PROVE  \E F \in Nat \ {0}, W \in Nat, l \in 0..FrameBytes :
           /\ F = Len(FramesOf[r]) /\ W = Len(Written(r)) /\ l = Len(FramesOf[r][k].data)
           /\ k \in 1..F /\ 8 * (k - 1) \in Nat /\ 8 * (k - 1) + l <= W
           /\ k < F => 8 * (k - 1) + l = 8 * k
           /\ k = F => 8 * (k - 1) + l = W
           /\ FramesOf[r][k].start <=> k = 1
           /\ \A i \in 1..l : FramesOf[r][k].data[i] = Written(r)[8 * (k - 1) + i]
<1>1. PICK F, W, l : F = Len(FramesOf[r]) /\ W = Len(Written(r)) /\ l = Len(FramesOf[r][k].data)
  OBVIOUS
<1>2. /\ F \in Nat \ {0} /\ 8 * F < W + 8 /\ W <= 8 * F /\ k \in 1..F
      /\ l = (IF k < F THEN 8 ELSE W - 8 * (k - 1))
      /\ FramesOf[r][k].start <=> k = 1
      /\ \A i \in 1..l : FramesOf[r][k].data[i] = Written(r)[8 * (k - 1) + i]
  BY <1>1, FramesLayout, ZenonT(60) DEF CutInto
<1>3. W \in Nat
  <2>1. Written(r) \in Seq(Byte)
    BY RequestsFit, WrittenBytes
  <2> QED BY <1>1, <2>1
<1>4. F \in Nat \ {0} /\ 8 * F < W + 8 /\ W <= 8 * F /\ k \in 1..F
      /\ l = (IF k < F THEN 8 ELSE W - 8 * (k - 1))
  BY <1>2
<1>5. /\ l \in 0..8 /\ 8 * (k - 1) \in Nat /\ 8 * (k - 1) + l <= W
      /\ k < F => 8 * (k - 1) + l = 8 * k
      /\ k = F => 8 * (k - 1) + l = W
  BY <1>3, <1>4, CutInFrames
<1>6. FrameBytes = 8
  BY DEF FrameBytes
<1> QED BY <1>1, <1>2, <1>3, <1>5, <1>6, ZenonT(60)

\* When the frames read so far are the first ones of a request, the reader has their
\* bytes.
LEMMA FrameRead ==
  ASSUME LinkInv, NEW x \in Frame \X Tag, Sent(x),
         NEW r \in Requests, Readable(r), First(TagsWith(x), r),
         NEW d \in Input(ReaderBefore(x), x[1].data)
  PROVE  /\ Len(TagsWith(x)) \in 1..Len(FramesOf[r])
         /\ x[1] = FramesOf[r][Len(TagsWith(x))]
         /\ HasRead(d, r, 8 * (Len(TagsWith(x)) - 1) + Len(x[1].data))
<1> DEFINE tags == TagsWith(x)
<1> PICK k : k = Len(tags)
  OBVIOUS
<1>1. k \in Nat \ {0} /\ tags[k] = x[2]
  BY TagsRead
<1>2. /\ k <= Len(FramesOf[r]) => x[1] = FramesOf[r][k]
      /\ ~x[1].start => /\ k = Len(arrived) + 1 /\ Len(arrived) \in Nat /\ arrived \in Seq(Tag)
                        /\ \A i \in 1..Len(arrived) : tags[i] = arrived[i]
  <2>1. k <= Len(FramesOf[r]) => FrameOf(requests, tags[k]) = FramesOf[r][k]
    BY <1>1 DEF First
  <2>2. FrameOf(requests, x[2]) = x[1]
    BY DEF Sent, SentIn, FrameOf
  <2> QED BY <1>1, <2>1, <2>2, TagsRead, SMTT(60) DEF LinkInv, LinkShape
<1>3. k \in 1..Len(FramesOf[r]) /\ x[1] = FramesOf[r][k]
  <2>1. Len(FramesOf[r]) \in Nat \ {0} /\ FramesOf[r][1].start
    <3>1. CutInto(FramesOf[r], Written(r))
      BY FramesLayout
    <3>2. Len(FramesOf[r]) \in Nat \ {0}
      BY <3>1 DEF CutInto
    <3>3. 1 \in 1..Len(FramesOf[r])
      BY <3>2
    <3>4. FramesOf[r][1].start <=> 1 = 1
      BY <3>1, <3>3, ZenonT(60) DEF CutInto
    <3> QED BY <3>2, <3>4
  <2>2. CASE x[1].start
    <3>1. k = 1
      BY <2>2, TagsRead
    <3> QED BY <1>2, <2>1, <3>1
  <2>3. CASE ~x[1].start /\ arrived = <<>>
    <3>1. k = 1
      BY <1>2, <2>3, EmptySeq
    <3> QED BY <1>2, <2>1, <2>3, <3>1
  <2>4. CASE ~x[1].start /\ arrived # <<>>
    <3>1. First(arrived, r)
      BY <1>2, <2>4 DEF First
    <3>2. Len(arrived) < Len(FramesOf[r])
      BY <3>1 DEF LinkInv, ReaderInStep
    <3> QED BY <1>1, <1>2, <2>1, <2>4, <3>2
  <2> QED BY <2>2, <2>3, <2>4
<1>4. PICK F \in Nat \ {0}, W \in Nat, l \in 0..FrameBytes :
        /\ F = Len(FramesOf[r]) /\ W = Len(Written(r)) /\ l = Len(FramesOf[r][k].data)
        /\ k \in 1..F /\ 8 * (k - 1) \in Nat /\ 8 * (k - 1) + l <= W
        /\ k < F => 8 * (k - 1) + l = 8 * k
        /\ k = F => 8 * (k - 1) + l = W
        /\ FramesOf[r][k].start <=> k = 1
        /\ \A i \in 1..l : FramesOf[r][k].data[i] = Written(r)[8 * (k - 1) + i]
  BY <1>3, FrameAt
<1>6. HasRead(ReaderBefore(x), r, 8 * (k - 1))
  <2>1. CASE x[1].start
    <3>1. dt \in Reader
      BY DEF LinkInv, LinkShape, Shaped
    <3>2. HasRead(Start(dt), r, 0)
      BY <3>1, ReaderStarted
    <3>3. k = 1
      BY <1>3, <1>4, <2>1
    <3>4. 8 * (k - 1) = 0
      BY <3>3
    <3> QED BY <2>1, <3>2, <3>4 DEF ReaderBefore
  <2>2. CASE ~x[1].start
    <3>1. /\ k = Len(arrived) + 1 /\ Len(arrived) \in Nat /\ arrived \in Seq(Tag)
          /\ \A i \in 1..Len(arrived) : tags[i] = arrived[i]
      BY <1>2, <2>2
    <3>2. arrived # <<>>
      BY <1>3, <1>4, <2>2, <3>1, EmptySeq
    <3>3. First(arrived, r)
      BY <3>1, <3>2 DEF First
    <3>4. HasRead(dt, r, 8 * Len(arrived))
      BY <3>3 DEF LinkInv, ReaderInStep
    <3>5. 8 * (k - 1) = 8 * Len(arrived)
      BY <3>1
    <3> QED BY <2>2, <3>4, <3>5 DEF ReaderBefore
  <2> QED BY <2>1, <2>2
<1>7. HasRead(d, r, 8 * (k - 1) + Len(x[1].data))
  <2>1. PICK n \in Nat : n = 8 * (k - 1)
    BY <1>4
  <2>2. /\ Len(x[1].data) \in 0..FrameBytes /\ n + Len(x[1].data) <= Len(Written(r))
        /\ \A i \in 1..Len(x[1].data) : x[1].data[i] = Written(r)[n + i]
    BY <1>3, <1>4, <2>1, ZenonT(60)
  <2>3. HasRead(ReaderBefore(x), r, n)
    BY <1>6, <2>1
  <2>4. HasRead(d, r, n + Len(x[1].data))
    BY <2>2, <2>3, RequestsFit, ReadOn
  <2> QED BY <2>1, <2>4
<1> QED BY <1>3, <1>7

\* The last frame of a request leaves a valid datagram, and none before it does.
LEMMA LastFrameRead ==
  ASSUME LinkInv, NEW x \in Frame \X Tag, Sent(x),
         NEW r \in Requests, Readable(r), First(TagsWith(x), r),
         NEW d \in Input(ReaderBefore(x), x[1].data)
  PROVE  /\ Len(TagsWith(x)) = Len(FramesOf[r]) =>
              /\ is_complete(d) /\ is_valid(d) /\ ~Overrun(d) /\ ~OverRead(d)
              /\ d.dst = r.dst /\ d.data = r.data
         /\ Len(TagsWith(x)) # Len(FramesOf[r]) =>
              Len(TagsWith(x)) < Len(FramesOf[r]) /\ HasRead(d, r, 8 * Len(TagsWith(x)))
<1> PICK k : k = Len(TagsWith(x))
  OBVIOUS
<1>1. /\ k \in 1..Len(FramesOf[r]) /\ HasRead(d, r, 8 * (k - 1) + Len(x[1].data))
      /\ x[1] = FramesOf[r][k]
  BY FrameRead
<1>2. PICK F \in Nat \ {0}, W \in Nat, l \in 0..FrameBytes :
        /\ F = Len(FramesOf[r]) /\ W = Len(Written(r)) /\ l = Len(FramesOf[r][k].data)
        /\ k \in 1..F /\ 8 * (k - 1) \in Nat /\ 8 * (k - 1) + l <= W
        /\ k < F => 8 * (k - 1) + l = 8 * k
        /\ k = F => 8 * (k - 1) + l = W
        /\ FramesOf[r][k].start <=> k = 1
        /\ \A i \in 1..l : FramesOf[r][k].data[i] = Written(r)[8 * (k - 1) + i]
  BY <1>1, FrameAt
<1>3. CASE k = F
  <2>1. HasRead(d, r, W)
    BY <1>1, <1>2, <1>3, ZenonT(60)
  <2>2. is_valid(d) /\ ~OverRead(d) /\ d.dst = r.dst /\ d.data = r.data
    BY <1>2, <2>1, RequestsFit, ReadToTheEnd
  <2>3. ~Overrun(d)
    BY <2>1 DEF HasRead
  <2> QED BY <1>2, <1>3, <2>2, <2>3 DEF is_valid
<1>4. CASE k # F
  <2>1. k < F /\ k \in Nat
    BY <1>2, <1>4
  <2>2. Len(x[1].data) = l /\ 8 * (k - 1) + l = 8 * k
    BY <1>1, <1>2, <2>1
  <2>3. HasRead(d, r, 8 * k)
    BY <1>1, <2>2
  <2> QED BY <1>2, <1>4, <2>1, <2>3
<1> QED BY <1>3, <1>4

\* Whatever a frame of the client does to the reader, it stays within its buffers.
LEMMA FrameTyped ==
  ASSUME LinkInv, NEW x \in Frame \X Tag, Sent(x)
  PROVE  /\ Shaped(Start(dt))
         /\ \A d \in Input(ReaderBefore(x), x[1].data) : Shaped(d)
<1>1. Shaped(dt)
  BY DEF LinkInv, LinkShape
<1>2. Shaped(Start(dt)) /\ Shaped(ReaderBefore(x))
  BY <1>1, StartShaped DEF ReaderBefore
<1>3. x[1].data \in Seq(Byte) /\ Len(x[1].data) \in 0..FrameBytes
  <2> PICK r, k : r = requests[x[2].request] /\ k = x[2].place
    OBVIOUS
  <2>1. k \in 1..Len(FramesOf[r]) /\ x[1] = FramesOf[r][k] /\ r \in Requests
    BY ElementOfSeq, SMTT(60) DEF Sent, SentIn, LinkInv, LinkShape
  <2>2. PICK l \in 0..FrameBytes : l = Len(x[1].data)
    BY <2>1, FrameAt, SMTT(60)
  <2>3. x[1].data \in Seq(Byte)
    BY DEF Frame
  <2> QED BY <2>2, <2>3
<1> QED BY <1>2, <1>3, FrameShaped

\* What ReadFrame does of the frame of x, when the reader is in d after it: it runs past
\* a buffer, comes to the end of a datagram, or waits for more.
RunsOver(x, d) == (Overrun(d) \/ OverRead(d)) /\ RunOver(TagsWith(x))

Judges(x, d, valid) ==
  /\ ~Overrun(d)
  /\ valid => ~OverRead(d)
  /\ ~OverRead(d) => (valid <=> is_valid(d))
  /\ Judge(d, valid, TagsWith(x))

GoesOn(x, d) ==
  /\ ~Overrun(d) /\ ~is_complete(d) /\ Len(x[1].data) = FrameBytes
  /\ dt' = d /\ arrived' = TagsWith(x)
  /\ datagram_timeout_running' = (datagram_timeout_running \/ x[1].start)
  /\ UNCHANGED <<undefined, verdict, reply>>

LEMMA ReadFrameIs ==
  ASSUME ReadFrame, NEW x, x = Head(fifo)
  PROVE  /\ ~undefined /\ loop = "read" /\ fifo # <<>> /\ fifo' = Tail(fifo)
         /\ UNCHANGED <<sendVars, client, other, receiver, faults, clean>>
         /\ \E d \in Input(ReaderBefore(x), x[1].data) :
              RunsOver(x, d) \/ (\E valid \in BOOLEAN : Judges(x, d, valid)) \/ GoesOn(x, d)
<1>1. PICK d \in Input(ReaderBefore(x), x[1].data) :
        \/ Overrun(d) /\ RunOver(TagsWith(x))
        \/ /\ ~Overrun(d)
           /\ \E valid \in Verdicts(d) : IF valid /\ OverRead(d) THEN RunOver(TagsWith(x))
                                       ELSE Judge(d, valid, TagsWith(x))
        \/ GoesOn(x, d)
  BY Zenon DEF ReadFrame, ReaderBefore, TagsWith, GoesOn
<1>2. ASSUME NEW valid \in Verdicts(d), ~Overrun(d), ~(valid /\ OverRead(d)),
             Judge(d, valid, TagsWith(x))
      PROVE  \E v \in BOOLEAN : Judges(x, d, v)
  <2>1. valid \in BOOLEAN /\ (~OverRead(d) => (valid <=> is_valid(d)))
    BY <1>2 DEF Verdicts, is_valid
  <2>2. Judges(x, d, valid)
    BY <1>2, <2>1 DEF Judges
  <2> QED BY <2>1, <2>2
<1>3. RunsOver(x, d) \/ (\E valid \in BOOLEAN : Judges(x, d, valid)) \/ GoesOn(x, d)
  BY <1>1, <1>2 DEF RunsOver
<1> QED BY <1>3 DEF ReadFrame, TakeFrame

LEMMA ReadFrameLink ==
  ASSUME LinkInv, ReadFrame
  PROVE  LinkInv'
<1> PICK x : x = Head(fifo)
  OBVIOUS
<1> DEFINE tags == TagsWith(x)
<1>0. LinkShape /\ TagsTrue /\ ReaderInStep /\ WholeAccepted
  BY DEF LinkInv
<1>1. fifo # <<>> /\ fifo' = Tail(fifo) /\ unsent' = unsent /\ requests' = requests
  BY ReadFrameIs DEF client
<1>2. PICK d \in Input(ReaderBefore(x), x[1].data) :
        RunsOver(x, d) \/ (\E valid \in BOOLEAN : Judges(x, d, valid)) \/ GoesOn(x, d)
  BY ReadFrameIs
<1>3. /\ x \in Frame \X Tag /\ Sent(x)
      /\ Tail(fifo) \in Seq(Frame \X Tag) /\ \A i \in 1..Len(Tail(fifo)) : Sent(Tail(fifo)[i])
  <2>1. fifo \in Seq(Frame \X Tag) /\ fifo # <<>> /\ \A i \in 1..Len(fifo) : Sent(fifo[i])
    BY <1>0, <1>1 DEF LinkShape, TagsTrue
  <2>2. /\ x \in Frame \X Tag /\ Tail(fifo) \in Seq(Frame \X Tag)
        /\ Len(Tail(fifo)) = Len(fifo) - 1
        /\ \A i \in 1..Len(Tail(fifo)) : Tail(fifo)[i] = fifo[i+1]
    BY <2>1, HeadTailProperties
  <2>3. Len(fifo) \in Nat \ {0} /\ x = fifo[1]
    BY <2>1, EmptySeq
  <2> QED BY <2>1, <2>2, <2>3
<1>4. /\ tags \in Seq(Tag) /\ Len(tags) \in Nat \ {0}
      /\ \A i \in 1..Len(tags) : tags[i].request \in 1..Len(requests)
  BY <1>3, TagsRead
<1>5. Shaped(Start(dt)) /\ ~Overrun(Start(dt)) /\ Shaped(d)
  BY <1>0, <1>3, FrameTyped, StartShaped DEF LinkShape
<1>8. ASSUME Whole(tags), Readable(requests[tags[1].request])
      PROVE  LET r == requests[tags[1].request]
             IN is_valid(d) /\ ~Overrun(d) /\ ~OverRead(d) /\ d.dst = r.dst /\ d.data = r.data
  <2> PICK r : r = requests[tags[1].request]
    OBVIOUS
  <2>1. 1 \in 1..Len(tags)
    BY <1>4
  <2>2. r \in Requests
    BY <1>0, <1>4, <2>1, ElementOfSeq, SMTT(60) DEF LinkShape
  <2>3. First(tags, r) /\ Len(tags) = Len(FramesOf[r])
    BY <1>4, <1>8, EmptySeq, SMTT(60) DEF Whole, BeginsWhole, First
  <2> QED BY <1>3, <1>8, <2>2, <2>3, LastFrameRead
<1>9. CASE RunsOver(x, d)
  <2>1. /\ dt' = dt /\ arrived' = arrived /\ verdict'.tags = tags
        /\ Overrun(d) \/ OverRead(d)
    BY <1>9 DEF RunsOver, RunOver
  <2>2. LinkShape'
    BY <1>0, <1>1, <1>3, <1>4, <2>1 DEF LinkShape
  <2>3. TagsTrue'
    BY <1>0, <1>1, <1>3, <1>4, <2>1, SMTT(60) DEF TagsTrue, Sent
  <2>4. ReaderInStep'
    BY <1>0, <1>1, <2>1 DEF ReaderInStep, First
  <2>5. WholeAccepted'
    BY <1>1, <1>8, <2>1 DEF WholeAccepted, Whole, BeginsWhole
  <2> QED BY <2>2, <2>3, <2>4, <2>5 DEF LinkInv
<1>6. ASSUME NEW valid \in BOOLEAN, Judges(x, d, valid) PROVE LinkInv'
  <2>0. /\ dt' = Start(dt) /\ arrived' = <<>>
        /\ verdict' = [valid |-> valid, tags |-> tags, dst |-> d.dst, data |-> d.data]
    BY <1>6 DEF Judges, Judge, Restart
  <2>1. <<>> \in Seq(Tag) /\ Len(<<>>) = 0
    BY EmptySeq
  <2>2. verdict'.tags = tags
    BY <2>0
  <2>3. LinkShape'
    BY <1>0, <1>1, <1>3, <1>4, <1>5, <2>0, <2>1, <2>2 DEF LinkShape
  <2>4. TagsTrue'
    BY <1>0, <1>1, <1>3, <1>4, <2>0, <2>1, <2>2, SMTT(60) DEF TagsTrue, Sent
  <2>5. ReaderInStep'
    BY <2>0 DEF ReaderInStep, First
  <2>6. ~OverRead(d) => (valid <=> is_valid(d))
    BY <1>6 DEF Judges
  <2>7. WholeAccepted'
    BY <1>1, <1>8, <2>0, <2>6 DEF WholeAccepted, Whole, BeginsWhole
  <2> QED BY <2>3, <2>4, <2>5, <2>7 DEF LinkInv
<1>7. CASE GoesOn(x, d)
  <2>0. ~Overrun(d) /\ ~is_complete(d) /\ dt' = d /\ arrived' = tags /\ verdict' = verdict
    BY <1>7 DEF GoesOn
  <2>1. LinkShape'
    BY <1>0, <1>1, <1>3, <1>4, <1>5, <2>0 DEF LinkShape
  <2>2. TagsTrue'
    BY <1>0, <1>1, <1>3, <1>4, <2>0 DEF TagsTrue, Sent
  <2>3. ASSUME NEW r \in Requests, Readable(r), First(tags, r)
        PROVE  Len(tags) < Len(FramesOf[r]) /\ HasRead(d, r, 8 * Len(tags))
    BY <1>3, <2>0, <2>3, LastFrameRead
  <2>4. ReaderInStep'
    BY <1>1, <2>0, <2>3 DEF ReaderInStep, First
  <2>5. WholeAccepted'
    BY <1>0, <1>1, <2>0 DEF WholeAccepted, Whole, BeginsWhole
  <2> QED BY <2>1, <2>2, <2>4, <2>5 DEF LinkInv
<1> QED BY <1>2, <1>6, <1>7, <1>9

LEMMA DatagramTimeOutLink ==
  ASSUME LinkInv, DatagramTimeOut
  PROVE  LinkInv'
<1>0. LinkShape /\ TagsTrue /\ ReaderInStep /\ WholeAccepted
  BY DEF LinkInv
<1>1. /\ dt' = Start(dt) /\ arrived' = <<>>
      /\ requests' = requests /\ unsent' = unsent /\ fifo' = fifo /\ verdict' = verdict
  BY DEF DatagramTimeOut, Restart, client
<1>2. <<>> \in Seq(Tag) /\ Len(<<>>) = 0
  BY EmptySeq
<1>3. Shaped(Start(dt)) /\ ~Overrun(Start(dt))
  BY <1>0, StartShaped DEF LinkShape
<1>4. LinkShape'
  BY <1>0, <1>1, <1>2, <1>3 DEF LinkShape
<1>5. TagsTrue'
  BY <1>0, <1>1, <1>2 DEF TagsTrue, Sent
<1>6. ReaderInStep'
  BY <1>1, SMTT(60) DEF ReaderInStep, First
<1>7. WholeAccepted'
  BY <1>0, <1>1, SMTT(60) DEF WholeAccepted, Whole, BeginsWhole
<1> QED BY <1>4, <1>5, <1>6, <1>7 DEF LinkInv

LEMMA OthersLink ==
  ASSUME LinkInv, UNCHANGED linkVars
  PROVE  LinkInv'
BY DEF linkVars, LinkInv, LinkShape, TagsTrue, ReaderInStep, WholeAccepted, First, Sent, Whole,
       BeginsWhole

\* While the frames that arrived since the reader was started are the first ones of a
\* request, the reader holds what their bytes say and waits for more (bootloader.c,
\* can_datagram.c).
THEOREM LinkInvariant == Spec => []LinkInv
<1>1. ASSUME LinkInv, [Next]_vars PROVE LinkInv'
  <2>1. CASE Request
    BY <1>1, <2>1, RequestLink
  <2>2. CASE SendFrame
    BY <1>1, <2>2, SendFrameLink
  <2>3. CASE ReadFrame
    BY <1>1, <2>3, ReadFrameLink
  <2>4. CASE DatagramTimeOut
    BY <1>1, <2>4, DatagramTimeOutLink
  <2>5. CASE ReplyFrame \/ ReplyEnds
    BY <1>1, <2>5, OthersLink DEF ReplyFrame, ReplyEnds, linkVars, client, board
  <2>6. CASE Sending \/ StartTransmission \/ FailTransmission
    BY <1>1, <2>6, OthersLink
    DEF Sending, StartTransmission, FailTransmission, linkVars, client, board
  <2>7. CASE Transmission \/ OtherTransmission
    BY <1>1, <2>7, OthersLink, OtherBoardFiltered
    DEF Transmission, OtherTransmission, linkVars, client, board
  <2>8. CASE UNCHANGED vars
    BY <1>1, <2>8, OthersLink DEF vars, linkVars, client, board
  <2> QED BY <1>1, <2>1, <2>2, <2>3, <2>4, <2>5, <2>6, <2>7, <2>8 DEF Next
<1> QED BY LinkInitial, <1>1, PTL DEF Spec

\* A request that arrives whole is accepted, with its destinations and its data,
\* whatever the board had read before: the restart of the reader by a start frame,
\* the counters of input_byte() and the CRC it computes agree with encode_datagram()
\* and datagram_to_frames(), and none runs past a buffer, for as many destinations and
\* as much data as the buffers hold (can_datagram.c, bootloader.c).
THEOREM WholeIsAccepted == Spec => []WholeAccepted
<1>1. LinkInv => WholeAccepted
  BY DEF LinkInv
<1> QED BY <1>1, LinkInvariant, PTL

---------------------------------------------------------------------------
(* What is accepted has arrived whole *)

\* The bytes of the frames before the k-th, when they are full.
Until(k) == 8 * (k - 1)

LEMMA PlaceOf ==
  ASSUME NEW k \in Nat \ {0}, NEW l \in 0..8, NEW n \in 1..Until(k)+l
  PROVE  /\ FrameWith(n) \in 1..k /\ PlaceIn(n) \in 1..8
         /\ FrameWith(n) = k => PlaceIn(n) \in 1..l
<1>1. k \in Nat /\ k >= 1 /\ l \in Nat /\ l <= 8 /\ n \in Nat /\ n >= 1 /\ n <= 8*(k-1)+l
  BY DEF Until
<1> PICK q, p : q = (n - 1) \div 8 /\ p = (n - 1) % 8
  OBVIOUS
<1>2. q \in Nat /\ p \in 0..7 /\ n - 1 = 8 * q + p
  BY <1>1
<1>3. q + 1 \in 1..k /\ p + 1 \in 1..8 /\ (q + 1 = k => p + 1 \in 1..l)
  BY <1>1, <1>2
<1> QED BY <1>3 DEF FrameWith, PlaceIn, FrameBytes

LEMMA LastPlace ==
  ASSUME NEW k \in Nat \ {0}, NEW i \in 1..8
  PROVE  FrameWith(Until(k) + i) = k /\ PlaceIn(Until(k) + i) = i
<1> PICK m \in Nat, n \in Nat : m = k - 1 /\ n = 8*m + (i - 1)
  OBVIOUS
<1>1. n \div 8 = m /\ n % 8 = i - 1
  OBVIOUS
<1>2. 8*(k-1)+i - 1 = n
  OBVIOUS
<1> QED BY <1>1, <1>2 DEF FrameWith, PlaceIn, FrameBytes, Until

LEMMA UntilLength ==
  ASSUME NEW k \in Nat \ {0}, NEW l \in 0..8
  PROVE  /\ Until(k) \in Nat /\ Until(k) + l \in Nat
         /\ \A i \in 1..l : i \in 1..8 /\ Until(k) + i \in 1..Until(k)+l
         /\ k + 1 \in Nat \ {0} /\ Until(k + 1) = 8 * k /\ Until(k) + 8 = 8 * k
         /\ \A i \in 1..8*k : i \in 1..Until(k)+8 /\ i \in 1..Until(k+1)+l
BY DEF Until

\* Sequences of eight bytes, but the last one, and what they make together.
JoinOf(B, s, k, l) ==
  /\ k \in Nat \ {0} /\ l \in 0..8 /\ Len(s[k]) = l
  /\ \A i \in 1..k : s[i] \in Seq(Byte) /\ (i < k => Len(s[i]) = 8)
  /\ B = [n \in 1..Until(k)+l |-> s[FrameWith(n)][PlaceIn(n)]]

LEMMA JoinBytes ==
  ASSUME NEW B, NEW s, NEW k, NEW l, JoinOf(B, s, k, l)
  PROVE  /\ B \in Seq(Byte) /\ Len(B) = Until(k) + l
         /\ \A i \in 1..l : B[Until(k) + i] = s[k][i]
<1> /\ k \in Nat \ {0} /\ l \in 0..8 /\ Len(s[k]) = l
    /\ \A i \in 1..k : s[i] \in Seq(Byte) /\ (i < k => Len(s[i]) = 8)
    /\ B = [n \in 1..Until(k)+l |-> s[FrameWith(n)][PlaceIn(n)]]
  BY DEF JoinOf
<1>1. ASSUME NEW p \in 1..k, NEW q \in 1..8, p = k => q \in 1..l PROVE s[p][q] \in Byte
  <2>1. p = k \/ p < k
    OBVIOUS
  <2>2. s[p] \in Seq(Byte) /\ q \in 1..Len(s[p])
    BY <1>1, <2>1
  <2> QED BY <2>2, ElementOfSeq
<1>2. ASSUME NEW n \in 1..Until(k)+l PROVE s[FrameWith(n)][PlaceIn(n)] \in Byte
  BY <1>1, PlaceOf
<1>3. B \in Seq(Byte) /\ Len(B) = Until(k) + l
  <2> PICK N \in Nat : N = Until(k) + l
    BY UntilLength
  <2>1. B \in [1..N -> Byte]
    BY <1>2
  <2> QED BY <2>1
<1>4. ASSUME NEW i \in 1..l PROVE B[Until(k) + i] = s[k][i]
  <2>1. i \in 1..8 /\ Until(k) + i \in 1..Until(k)+l
    BY UntilLength
  <2>2. FrameWith(Until(k) + i) = k /\ PlaceIn(Until(k) + i) = i
    BY <2>1, LastPlace
  <2> QED BY <2>1, <2>2, Zenon
<1> QED BY <1>3, <1>4

\* Frames that are full but the last one.
Joined(rs, tags) ==
  /\ tags \in Seq(Tag) /\ Len(tags) \in Nat \ {0}
  /\ \A i \in 1..Len(tags) :
       /\ FrameOf(rs, tags[i]).data \in Seq(Byte)
       /\ Len(FrameOf(rs, tags[i]).data) \in 0..8
       /\ i < Len(tags) => Len(FrameOf(rs, tags[i]).data) = 8

\* The bytes of such frames, one after another.
BytesAre(rs, tags, k, l) ==
  /\ BytesOf(rs, tags) \in Seq(Byte) /\ Len(BytesOf(rs, tags)) = Until(k) + l
  /\ k \in Nat \ {0} /\ l \in 0..8
  /\ \A n \in 1..Until(k)+l :
       BytesOf(rs, tags)[n] = FrameOf(rs, tags[FrameWith(n)]).data[PlaceIn(n)]
  /\ \A i \in 1..l : BytesOf(rs, tags)[Until(k) + i] = FrameOf(rs, tags[k]).data[i]

LEMMA JoinedBytes ==
  ASSUME NEW rs, NEW tags, Joined(rs, tags)
  PROVE  BytesAre(rs, tags, Len(tags), Len(FrameOf(rs, tags[Len(tags)]).data))
<1> DEFINE k == Len(tags)
           l == Len(FrameOf(rs, tags[k]).data)
           s == [i \in 1..k |-> FrameOf(rs, tags[i]).data]
           B == BytesOf(rs, tags)
<1>1. k \in Nat \ {0} /\ l \in 0..8 /\ k \in 1..k
  BY DEF Joined
<1>2. B = [n \in 1..Until(k)+l |-> FrameOf(rs, tags[FrameWith(n)]).data[PlaceIn(n)]]
  BY Zenon DEF BytesOf, SpliceLength, FrameBytes, Until
<1>3. \A i \in 1..k : s[i] = FrameOf(rs, tags[i]).data
  OBVIOUS
<1>4. Len(s[k]) = l /\ \A i \in 1..k : s[i] \in Seq(Byte) /\ (i < k => Len(s[i]) = 8)
  BY <1>1 DEF Joined
<1> HIDE DEF s, B, k, l
<1>5. B = [n \in 1..Until(k)+l |-> s[FrameWith(n)][PlaceIn(n)]]
  <2>1. \A n \in 1..Until(k)+l : FrameWith(n) \in 1..k
    BY <1>1, PlaceOf
  <2> QED BY <1>2, <1>3, <2>1
<1>6. /\ B \in Seq(Byte) /\ Len(B) = Until(k) + l
      /\ \A i \in 1..l : B[Until(k) + i] = s[k][i]
  <2>1. JoinOf(B, s, k, l)
    BY <1>1, <1>4, <1>5, Zenon DEF JoinOf
  <2> QED BY <2>1, JoinBytes, SMT
<1>7. \A n \in 1..Until(k)+l : B[n] = FrameOf(rs, tags[FrameWith(n)]).data[PlaceIn(n)]
  BY <1>2, Zenon
<1>8. BytesAre(rs, tags, k, l)
  BY <1>1, <1>3, <1>6, <1>7, Zenon DEF B, BytesAre
<1> QED BY <1>8 DEF k, l

\* One more frame leaves the bytes before it alone.
LEMMA JoinedAgree ==
  ASSUME NEW rs, NEW old, Joined(rs, old), Len(FrameOf(rs, old[Len(old)]).data) = 8,
         NEW tags, Joined(rs, tags), Len(tags) = Len(old) + 1,
         \A i \in 1..Len(old) : tags[i] = old[i]
  PROVE  \A n \in 1..8*Len(old) : BytesOf(rs, old)[n] = BytesOf(rs, tags)[n]
<1> DEFINE k == Len(old)
           l == Len(FrameOf(rs, tags[k+1]).data)
<1>a. BytesAre(rs, old, k, 8)
  BY JoinedBytes, Zenon
<1>b. BytesAre(rs, tags, k + 1, l)
  <2> PICK m : m = Len(tags) /\ m = k + 1
    OBVIOUS
  <2>1. BytesAre(rs, tags, m, Len(FrameOf(rs, tags[m]).data))
    BY JoinedBytes
  <2> QED BY <2>1
<1> HIDE DEF k, l
<1>1. /\ k \in Nat \ {0}
      /\ \A n \in 1..Until(k)+8 :
           BytesOf(rs, old)[n] = FrameOf(rs, old[FrameWith(n)]).data[PlaceIn(n)]
  BY <1>a, Zenon DEF BytesAre
<1>2. /\ l \in 0..8
      /\ \A n \in 1..Until(k+1)+l :
           BytesOf(rs, tags)[n] = FrameOf(rs, tags[FrameWith(n)]).data[PlaceIn(n)]
  BY <1>b, Zenon DEF BytesAre
<1>3. \A i \in 1..k : tags[i] = old[i]
  BY DEF k
<1>4. SUFFICES ASSUME NEW n \in 1..8*k PROVE BytesOf(rs, old)[n] = BytesOf(rs, tags)[n]
  BY DEF k
<1>5. n \in 1..Until(k)+8 /\ n \in 1..Until(k+1)+l
  BY <1>1, <1>2, UntilLength
<1>6. FrameWith(n) \in 1..k
  <2>1. 8 \in 0..8
    OBVIOUS
  <2> QED BY <1>1, <1>5, <2>1, PlaceOf, Zenon
<1>7. BytesOf(rs, old)[n] = FrameOf(rs, old[FrameWith(n)]).data[PlaceIn(n)]
  BY <1>1, <1>5, Zenon
<1>8. BytesOf(rs, tags)[n] = FrameOf(rs, tags[FrameWith(n)]).data[PlaceIn(n)]
  BY <1>2, <1>5, ZenonT(60)
<1>9. tags[FrameWith(n)] = old[FrameWith(n)]
  BY <1>3, <1>6, Zenon
<1> QED BY <1>7, <1>8, <1>9

\* A tag of a frame of the requests rs.
Known(rs, t) ==
  t.request \in 1..Len(rs) /\ t.place \in 1..Len(FramesOf[rs[t.request]])

AllKnown(rs, tags) == \A i \in 1..Len(tags) : Known(rs, tags[i])

LEMMA KnownFrame ==
  ASSUME NEW rs \in Seq(Requests), NEW t, Known(rs, t)
  PROVE  /\ FrameOf(rs, t) \in Frame
         /\ FrameOf(rs, t).data \in Seq(Byte) /\ Len(FrameOf(rs, t).data) \in 0..8
<1> PICK r, k : r = rs[t.request] /\ k = t.place
  OBVIOUS
<1>1. r \in Requests /\ k \in 1..Len(FramesOf[r]) /\ FrameOf(rs, t) = FramesOf[r][k]
  BY ElementOfSeq, SMTT(60) DEF Known, FrameOf
<1>2. FramesOf[r] \in Seq(Frame)
  BY <1>1, FramesLayout DEF CutInto
<1>3. FrameOf(rs, t) \in Frame
  BY <1>1, <1>2, ElementOfSeq
<1>4. PICK F \in Nat \ {0}, W \in Nat, l \in 0..FrameBytes :
        /\ F = Len(FramesOf[r]) /\ W = Len(Written(r)) /\ l = Len(FramesOf[r][k].data)
        /\ k \in 1..F /\ 8 * (k - 1) \in Nat /\ 8 * (k - 1) + l <= W
        /\ k < F => 8 * (k - 1) + l = 8 * k
        /\ k = F => 8 * (k - 1) + l = W
        /\ FramesOf[r][k].start <=> k = 1
        /\ \A i \in 1..l : FramesOf[r][k].data[i] = Written(r)[8 * (k - 1) + i]
  BY <1>1, FrameAt
<1> QED BY <1>1, <1>3, <1>4 DEF Frame, FrameBytes

LEMMA SpliceJoins ==
  ASSUME NEW rs \in Seq(Requests), NEW tags \in Seq(Tag), Len(tags) \in Nat \ {0},
         AllKnown(rs, tags), Splice(rs, tags)
  PROVE  Joined(rs, tags)
<1>1. ASSUME NEW i \in 1..Len(tags)
      PROVE  FrameOf(rs, tags[i]).data \in Seq(Byte) /\ Len(FrameOf(rs, tags[i]).data) \in 0..8
  BY KnownFrame DEF AllKnown
<1>2. ASSUME NEW i \in 1..Len(tags), i < Len(tags)
      PROVE  Len(FrameOf(rs, tags[i]).data) = 8
  BY <1>2 DEF Splice, FrameBytes
<1> QED BY <1>1, <1>2 DEF Joined

\* What was sent stays what it was when there is one more request.
Extends(qs, rs) ==
  /\ rs \in Seq(Requests) /\ qs \in Seq(Requests) /\ Len(rs) <= Len(qs)
  /\ \A i \in 1..Len(rs) : qs[i] = rs[i]

LEMMA KnownStays ==
  ASSUME NEW rs, NEW qs, Extends(qs, rs), NEW t, Known(rs, t)
  PROVE  Known(qs, t) /\ FrameOf(qs, t) = FrameOf(rs, t)
<1>1. t.request \in 1..Len(rs) /\ t.request \in 1..Len(qs)
  BY DEF Extends, Known
<1>2. qs[t.request] = rs[t.request]
  BY <1>1 DEF Extends
<1> QED BY <1>1, <1>2 DEF Known, FrameOf

LEMMA SpliceStays ==
  ASSUME NEW rs, NEW qs, Extends(qs, rs), NEW tags \in Seq(Tag), Len(tags) \in Nat \ {0},
         AllKnown(rs, tags), Splice(rs, tags)
  PROVE  AllKnown(qs, tags) /\ Splice(qs, tags) /\ BytesOf(qs, tags) = BytesOf(rs, tags)
<1>1. ASSUME NEW i \in 1..Len(tags)
      PROVE  Known(qs, tags[i]) /\ FrameOf(qs, tags[i]) = FrameOf(rs, tags[i])
  BY KnownStays DEF AllKnown
<1>2. AllKnown(qs, tags)
  BY <1>1 DEF AllKnown
<1>3. Splice(qs, tags)
  BY <1>1 DEF Splice
<1>4. rs \in Seq(Requests) /\ qs \in Seq(Requests)
  BY DEF Extends
<1>5. Joined(rs, tags)
  BY <1>4, SpliceJoins
<1> PICK k, l : k = Len(tags) /\ l = Len(FrameOf(rs, tags[k]).data)
  OBVIOUS
<1>6. k \in Nat \ {0} /\ k \in 1..k /\ l \in 0..8
  BY <1>5 DEF Joined
<1>7. SpliceLength(qs, tags) = SpliceLength(rs, tags)
  BY <1>1, <1>6 DEF SpliceLength
<1>8. SpliceLength(rs, tags) = Until(k) + l
  BY DEF SpliceLength, Until, FrameBytes
<1>9. ASSUME NEW n \in 1..SpliceLength(rs, tags)
      PROVE  FrameOf(qs, tags[FrameWith(n)]) = FrameOf(rs, tags[FrameWith(n)])
  <2>1. n \in 1..Until(k)+l
    BY <1>8
  <2>2. FrameWith(n) \in 1..k
    BY <1>6, <2>1, PlaceOf
  <2> QED BY <1>1, <2>2
<1>10. BytesOf(qs, tags) = BytesOf(rs, tags)
  BY <1>7, <1>9 DEF BytesOf
<1> QED BY <1>2, <1>3, <1>10

\* There are only so many tags, and no two frames of a splice have the same.
LEMMA TagsFinite ==
  ASSUME NEW rs \in Seq(Requests)
  PROVE  IsFiniteSet(TagsOf(rs))
<1> DEFINE P(n) == {[request |-> n, place |-> k] : k \in 1..Len(FramesOf[rs[n]])}
           S == {P(n) : n \in 1..Len(rs)}
<1>1. ASSUME NEW n \in 1..Len(rs) PROVE IsFiniteSet(P(n))
  <2> PICK F : F = Len(FramesOf[rs[n]])
    OBVIOUS
  <2>1. F \in Nat
    <3>1. rs[n] \in Requests
      BY ElementOfSeq
    <3>2. FramesOf[rs[n]] \in Seq(Frame)
      BY <3>1, FramesLayout DEF CutInto
    <3> QED BY <3>2
  <2>2. IsFiniteSet(1..F)
    BY <2>1, FS_Interval
  <2> DEFINE f == [k \in 1..F |-> [request |-> n, place |-> k]]
  <2>3. f \in Surjection(1..F, P(n))
    BY DEF Surjection
  <2> HIDE DEF f, P
  <2> QED BY <2>2, <2>3, FS_Surjection
<1>2. IsFiniteSet(S)
  <2>1. IsFiniteSet(1..Len(rs))
    <3>1. Len(rs) \in Nat
      OBVIOUS
    <3> QED BY <3>1, FS_Interval
  <2> DEFINE f == [n \in 1..Len(rs) |-> P(n)]
  <2>2. f \in Surjection(1..Len(rs), S)
    <3> HIDE DEF P
    <3> QED BY DEF Surjection
  <2> HIDE DEF f, P, S
  <2> QED BY <2>1, <2>2, FS_Surjection
<1>3. \A T \in S : IsFiniteSet(T)
  BY <1>1
<1>4. TagsOf(rs) = UNION S
  BY DEF TagsOf
<1> HIDE DEF S
<1> QED BY <1>2, <1>3, <1>4, FS_UNION

LEMMA KnownIsTag ==
  ASSUME NEW rs, NEW t \in Tag, Known(rs, t)
  PROVE  t \in TagsOf(rs)
<1>1. t = [request |-> t.request, place |-> t.place]
  BY DEF Tag
<1> QED BY <1>1 DEF TagsOf, Known

LEMMA NotBefore == \A t \in Tag : ~Before(t, t)
BY DEF Before, Tag

LEMMA SpliceFits ==
  ASSUME NEW rs \in Seq(Requests), NEW tags \in Seq(Tag), Len(tags) \in Nat \ {0},
         AllKnown(rs, tags), Splice(rs, tags)
  PROVE  /\ tags \in [1..Len(tags) -> TagsOf(rs)]
         /\ Len(tags) \in 1..Cardinality(TagsOf(rs))
<1> PICK k \in Nat \ {0} : k = Len(tags)
  OBVIOUS
<1>1. tags = [i \in 1..k |-> tags[i]] /\ \A i \in 1..k : tags[i] \in Tag
  BY ElementOfSeq
<1>2. tags \in [1..k -> TagsOf(rs)]
  <2>1. \A i \in 1..k : tags[i] \in TagsOf(rs)
    BY <1>1, KnownIsTag DEF AllKnown
  <2> QED BY <1>1, <2>1
<1>3. ASSUME NEW i \in 1..k, NEW j \in 1..k, tags[i] = tags[j] PROVE i = j
  <2>1. ~(i < j) /\ ~(j < i)
    BY <1>1, <1>3, NotBefore DEF Splice
  <2> QED BY <2>1
<1>4. tags \in Injection(1..k, TagsOf(rs))
  BY <1>2, <1>3 DEF Injection, IsInjective
<1>5. Cardinality(1..k) <= Cardinality(TagsOf(rs)) /\ Cardinality(TagsOf(rs)) \in Nat
  BY <1>4, TagsFinite, FS_Injection, FS_CardinalityType
<1>6. Cardinality(1..k) = k
  <2>1. Cardinality(1..k) = IF 1 > k THEN 0 ELSE k-1+1
    BY FS_Interval
  <2> QED BY <2>1
<1> QED BY <1>2, <1>5, <1>6

\* The frames are in order: those the reader has read, then those that wait, then
\* those still to be sent.
Rising(tags) == \A i, j \in 1..Len(tags) : i < j => Before(tags[i], tags[j])
RisingIn(queue) == \A i, j \in 1..Len(queue) : i < j => Before(queue[i][2], queue[j][2])

SentInOrder ==
  /\ Rising(arrived) /\ RisingIn(fifo) /\ RisingIn(unsent)
  /\ \A i \in 1..Len(arrived), j \in 1..Len(fifo) : Before(arrived[i], fifo[j][2])
  /\ \A i \in 1..Len(arrived), j \in 1..Len(unsent) : Before(arrived[i], unsent[j][2])
  /\ \A i \in 1..Len(fifo), j \in 1..Len(unsent) : Before(fifo[i][2], unsent[j][2])

\* The reader waits for more: what it has read is full frames, with no start but
\* the first.
FullFrames(rs) ==
  \A i \in 1..Len(arrived) :
    /\ Known(rs, arrived[i])
    /\ Len(FrameOf(rs, arrived[i]).data) = 8
    /\ i > 1 => ~FrameOf(rs, arrived[i]).start

ReaderHolds(rs) ==
  /\ arrived = <<>> => dt.reader_state = "version" /\ dt.dst = <<>>
  /\ arrived # <<>> => Parsed(dt, BytesOf(rs, arrived), 8 * Len(arrived))

\* The verdict is on a splice of the requests, no longer than a request it begins with.
Judged(rs, tags) ==
  /\ AllKnown(rs, tags) /\ Splice(rs, tags)
  /\ \A r \in Requests :
       (/\ Readable(r)
        /\ \A i \in 1..Len(tags) : i <= Len(FramesOf[r]) => FrameOf(rs, tags[i]) = FramesOf[r][i])
       => Len(tags) <= Len(FramesOf[r])

\* It says whether the checksum is right, or else these bytes are more than a buffer takes.
Told(bytes, valid, over) ==
  IF over THEN Overruns(bytes) \/ OverReads(bytes) ELSE valid <=> Accepts(bytes)

VerdictSays ==
  /\ undefined => verdict.tags # <<>>
  /\ verdict.tags # <<>> =>
       /\ Judged(requests, verdict.tags)
       /\ Told(BytesOf(requests, verdict.tags), verdict.valid, undefined)

SpliceInv == SentInOrder /\ FullFrames(requests) /\ ReaderHolds(requests) /\ VerdictSays

LEMMA SpliceInitial == Init => SpliceInv
<1> SUFFICES ASSUME Init PROVE SpliceInv
  OBVIOUS
<1>1. /\ unsent = <<>> /\ fifo = <<>> /\ arrived = <<>>
      /\ dt = InitialReader /\ verdict.tags = <<>> /\ ~undefined
  BY DEF Init, NoVerdict
<1>2. dt.reader_state = "version" /\ dt.dst = <<>>
  BY <1>1 DEF InitialReader
<1>3. Len(<<>>) = 0
  BY EmptySeq
<1>4. SentInOrder /\ FullFrames(requests)
  BY <1>1, <1>3 DEF SentInOrder, Rising, RisingIn, FullFrames
<1> QED BY <1>1, <1>2, <1>4 DEF SpliceInv, ReaderHolds, VerdictSays

LEMMA JudgedStays ==
  ASSUME NEW rs, NEW qs, Extends(qs, rs), NEW tags \in Seq(Tag), tags # <<>>, Judged(rs, tags)
  PROVE  Judged(qs, tags) /\ BytesOf(qs, tags) = BytesOf(rs, tags)
<1>1. Len(tags) \in Nat \ {0}
  BY EmptySeq
<1>2. AllKnown(rs, tags) /\ Splice(rs, tags)
  BY DEF Judged
<1>3. AllKnown(qs, tags) /\ Splice(qs, tags) /\ BytesOf(qs, tags) = BytesOf(rs, tags)
  BY <1>1, <1>2, SpliceStays
<1>4. \A i \in 1..Len(tags) : FrameOf(qs, tags[i]) = FrameOf(rs, tags[i])
  BY <1>2, KnownStays DEF AllKnown
<1> QED BY <1>3, <1>4 DEF Judged

\* What has arrived is a splice.
LEMMA ArrivedSplice ==
  ASSUME SentInOrder, NEW rs, FullFrames(rs)
  PROVE  AllKnown(rs, arrived) /\ Splice(rs, arrived)
BY DEF SentInOrder, Rising, FullFrames, AllKnown, Splice, FrameBytes

LEMMA RequestSplice ==
  ASSUME LinkInv, SpliceInv, Request
  PROVE  SpliceInv'
<1>0. /\ LinkShape /\ TagsTrue /\ SentInOrder /\ FullFrames(requests)
      /\ ReaderHolds(requests) /\ VerdictSays
  BY DEF LinkInv, SpliceInv
<1>1. PICK r \in Requests :
        /\ requests' = Append(requests, r)
        /\ unsent' = [i \in 1..Len(FramesOf[r]) |->
                        <<FramesOf[r][i], [request |-> Len(requests) + 1, place |-> i]>>]
  BY DEF Request
<1>2. /\ fifo = <<>> /\ fifo' = fifo /\ dt' = dt /\ arrived' = arrived /\ verdict' = verdict
      /\ undefined' = undefined
  BY DEF Request, board
<1>3. Extends(requests', requests) /\ Len(requests) \in Nat
  <2>1. /\ requests' \in Seq(Requests) /\ Len(requests') = Len(requests) + 1
        /\ Len(requests) \in Nat
        /\ \A i \in 1..Len(requests) : requests'[i] = requests[i]
    BY <1>0, <1>1, AppendProperties DEF LinkShape
  <2>2. Len(requests) <= Len(requests')
    BY <2>1
  <2> QED BY <1>0, <2>1, <2>2 DEF LinkShape, Extends
<1>4. PICK F \in Nat : F = Len(FramesOf[r])
  <2>1. FramesOf[r] \in Seq(Frame)
    BY FramesLayout DEF CutInto
  <2> QED BY <2>1
<1>5. Len(unsent') = F
      /\ \A i \in 1..F : unsent'[i][2].request = Len(requests) + 1 /\ unsent'[i][2].place = i
  BY <1>1, <1>4
<1>6. SentInOrder'
  <2> PICK us : us = unsent'
    OBVIOUS
  <2> PICK n \in Nat : n = Len(requests) + 1
    BY <1>3
  <2>1. Len(us) = F /\ \A i \in 1..F : us[i][2].request = n /\ us[i][2].place = i
    BY <1>5
  <2>2. RisingIn(us)
    BY <2>1 DEF RisingIn, Before
  <2>3. ASSUME NEW i \in 1..Len(arrived), NEW j \in 1..Len(us) PROVE Before(arrived[i], us[j][2])
    <3>1. arrived[i].request \in 1..Len(requests)
      BY <1>0 DEF TagsTrue
    <3>2. arrived[i].request < n
      BY <1>3, <3>1
    <3> QED BY <2>1, <3>2 DEF Before
  <2>4. Len(fifo) = 0
    BY <1>2, EmptySeq
  <2> QED BY <1>0, <1>2, <2>2, <2>3, <2>4 DEF SentInOrder
<1>7. ASSUME NEW i \in 1..Len(arrived)
      PROVE  /\ Known(requests', arrived[i])
             /\ FrameOf(requests', arrived[i]) = FrameOf(requests, arrived[i])
  <2>1. Known(requests, arrived[i])
    BY <1>0 DEF FullFrames
  <2> QED BY <1>3, <2>1, KnownStays
<1>8. FullFrames(requests)'
  BY <1>0, <1>2, <1>7 DEF FullFrames
<1>9. ReaderHolds(requests)'
  <2>1. CASE arrived = <<>>
    BY <1>0, <1>2, <2>1 DEF ReaderHolds
  <2>2. CASE arrived # <<>>
    <3>1. arrived \in Seq(Tag)
      BY <1>0 DEF LinkShape
    <3>2. Len(arrived) \in Nat \ {0}
      BY <2>2, <3>1, EmptySeq
    <3>3. AllKnown(requests, arrived) /\ Splice(requests, arrived)
      BY <1>0, ArrivedSplice
    <3>4. BytesOf(requests', arrived) = BytesOf(requests, arrived)
      BY <1>3, <3>1, <3>2, <3>3, SpliceStays
    <3> QED BY <1>0, <1>2, <2>2, <3>4 DEF ReaderHolds
  <2> QED BY <2>1, <2>2
<1>10. VerdictSays'
  <2>1. ASSUME verdict.tags # <<>>
        PROVE  /\ Judged(requests', verdict.tags)
               /\ BytesOf(requests', verdict.tags) = BytesOf(requests, verdict.tags)
    <3>1. verdict.tags \in Seq(Tag)
      BY <1>0 DEF LinkShape
    <3>2. Judged(requests, verdict.tags)
      BY <1>0, <2>1 DEF VerdictSays
    <3> QED BY <1>3, <2>1, <3>1, <3>2, JudgedStays
  <2> QED BY <1>0, <1>2, <2>1 DEF VerdictSays
<1> QED BY <1>6, <1>8, <1>9, <1>10 DEF SpliceInv

LEMMA TailOf ==
  ASSUME NEW S, NEW q \in Seq(S), q # <<>>
  PROVE  /\ Len(q) \in Nat \ {0} /\ 1 \in 1..Len(q) /\ Head(q) = q[1]
         /\ \A i \in 1..Len(Tail(q)) :
              Tail(q)[i] = q[i+1] /\ i+1 \in 1..Len(q) /\ 1 < i+1 /\ i \in Nat
         /\ \A i, j \in 1..Len(Tail(q)) : i < j => i+1 < j+1
<1>1. Len(Tail(q)) = Len(q) - 1 /\ \A i \in 1..Len(Tail(q)) : Tail(q)[i] = q[i+1]
  BY HeadTailProperties
<1>2. Len(q) \in Nat \ {0} /\ Head(q) = q[1]
  BY EmptySeq
<1> QED BY <1>1, <1>2

LEMMA SendFrameOrder ==
  ASSUME LinkInv, SentInOrder, SendFrame
  PROVE  SentInOrder'
<1> USE DEF SentInOrder, Rising, RisingIn
<1>1. /\ unsent # <<>> /\ unsent' = Tail(unsent)
      /\ fifo' = Append(fifo, Head(unsent)) \/ fifo' = fifo
      /\ arrived' = arrived
  BY ClientPasses DEF SendFrame, board
<1>2. unsent \in Seq(Frame \X Tag) /\ fifo \in Seq(Frame \X Tag)
  BY DEF LinkInv, LinkShape
<1>3. /\ 1 \in 1..Len(unsent) /\ Head(unsent) = unsent[1]
      /\ \A i \in 1..Len(Tail(unsent)) :
           Tail(unsent)[i] = unsent[i+1] /\ i+1 \in 1..Len(unsent) /\ 1 < i+1 /\ i \in Nat
      /\ \A i, j \in 1..Len(Tail(unsent)) : i < j => i+1 < j+1
  BY <1>1, <1>2, TailOf
<1>4. RisingIn(Tail(unsent))
  BY <1>3
<1>5. \A i \in 1..Len(arrived), j \in 1..Len(Tail(unsent)) : Before(arrived[i], Tail(unsent)[j][2])
  BY <1>3
<1>6. \A i \in 1..Len(fifo), j \in 1..Len(Tail(unsent)) : Before(fifo[i][2], Tail(unsent)[j][2])
  BY <1>3
<1>7. CASE fifo' = fifo
  BY <1>1, <1>4, <1>5, <1>6, <1>7
<1>8. CASE fifo' = Append(fifo, Head(unsent))
  <2> PICK x, ff : x = Head(unsent) /\ ff = fifo'
    OBVIOUS
  <2>1. x \in Frame \X Tag
    BY <1>1, <1>2, HeadTailProperties
  <2>2. /\ Len(fifo) \in Nat /\ Len(ff) = Len(fifo) + 1 /\ ff[Len(fifo)+1] = x
        /\ \A i \in 1..Len(fifo) : ff[i] = fifo[i]
    BY <1>2, <1>8, <2>1, AppendProperties
  <2>3. \A i \in 1..Len(ff) : i \in 1..Len(fifo) \/ i = Len(fifo) + 1
    BY <2>2
  <2>4. \A i \in 1..Len(fifo) : Before(fifo[i][2], x[2])
    BY <1>3
  <2>5. \A i \in 1..Len(arrived) : Before(arrived[i], x[2])
    BY <1>3
  <2>6. \A j \in 1..Len(Tail(unsent)) : Before(x[2], Tail(unsent)[j][2])
    BY <1>3
  <2>7. RisingIn(ff)
    <3> SUFFICES ASSUME NEW i \in 1..Len(ff), NEW j \in 1..Len(ff), i < j
                 PROVE  Before(ff[i][2], ff[j][2])
      OBVIOUS
    <3>1. i \in 1..Len(fifo)
      BY <2>2
    <3> QED BY <2>2, <2>3, <2>4, <3>1
  <2>8. \A i \in 1..Len(arrived), j \in 1..Len(ff) : Before(arrived[i], ff[j][2])
    BY <2>2, <2>3, <2>5
  <2>9. \A i \in 1..Len(ff), j \in 1..Len(Tail(unsent)) : Before(ff[i][2], Tail(unsent)[j][2])
    BY <1>6, <2>2, <2>3, <2>6
  <2> QED BY <1>1, <1>4, <1>5, <2>7, <2>8, <2>9
<1> QED BY <1>1, <1>7, <1>8

LEMMA SendFrameSplice ==
  ASSUME LinkInv, SpliceInv, SendFrame
  PROVE  SpliceInv'
<1>1. SentInOrder'
  BY SendFrameOrder DEF SpliceInv
<1>2. /\ requests' = requests /\ dt' = dt /\ arrived' = arrived /\ verdict' = verdict
      /\ undefined' = undefined
  BY DEF SendFrame, board
<1> QED BY <1>1, <1>2 DEF SpliceInv, FullFrames, ReaderHolds, VerdictSays

\* The frames that wait come after those the reader has read.
LEMMA ReadOrder ==
  ASSUME LinkInv, SentInOrder, fifo # <<>>
  PROVE  /\ Rising(TagsWith(Head(fifo))) /\ RisingIn(Tail(fifo))
         /\ \A i \in 1..Len(TagsWith(Head(fifo))), j \in 1..Len(Tail(fifo)) :
              Before(TagsWith(Head(fifo))[i], Tail(fifo)[j][2])
         /\ \A i \in 1..Len(TagsWith(Head(fifo))), j \in 1..Len(unsent) :
              Before(TagsWith(Head(fifo))[i], unsent[j][2])
         /\ \A i \in 1..Len(Tail(fifo)), j \in 1..Len(unsent) :
              Before(Tail(fifo)[i][2], unsent[j][2])
         /\ \A i \in 1..Len(arrived), j \in 1..Len(Tail(fifo)) :
              Before(arrived[i], Tail(fifo)[j][2])
<1> USE DEF SentInOrder, Rising, RisingIn
<1> PICK x, tags : x = Head(fifo) /\ tags = TagsWith(x)
  OBVIOUS
<1>1. fifo \in Seq(Frame \X Tag) /\ \A i \in 1..Len(fifo) : Sent(fifo[i])
  BY DEF LinkInv, LinkShape, TagsTrue
<1>2. /\ 1 \in 1..Len(fifo) /\ x = fifo[1]
      /\ \A i \in 1..Len(Tail(fifo)) :
           Tail(fifo)[i] = fifo[i+1] /\ i+1 \in 1..Len(fifo) /\ 1 < i+1 /\ i \in Nat
      /\ \A i, j \in 1..Len(Tail(fifo)) : i < j => i+1 < j+1
  BY <1>1, TailOf
<1>3. x \in Frame \X Tag /\ Sent(x)
  BY <1>1, <1>2, ElementOfSeq
<1>4. /\ Len(tags) \in Nat \ {0} /\ tags[Len(tags)] = x[2]
      /\ x[1].start => Len(tags) = 1
      /\ ~x[1].start => /\ Len(tags) = Len(arrived) + 1
                        /\ \A i \in 1..Len(arrived) : tags[i] = arrived[i]
  BY <1>3, TagsRead
<1>5. ASSUME NEW i \in 1..Len(tags)
      PROVE  i = Len(tags) \/ (i \in 1..Len(arrived) /\ tags[i] = arrived[i])
  BY <1>4
<1>6. \A i \in 1..Len(arrived) : Before(arrived[i], x[2])
  BY <1>2
<1>7. Rising(tags)
  <2> SUFFICES ASSUME NEW i \in 1..Len(tags), NEW j \in 1..Len(tags), i < j
               PROVE  Before(tags[i], tags[j])
    OBVIOUS
  <2>1. i # Len(tags) /\ Len(tags) \in Nat
    BY <1>4
  <2>2. i \in 1..Len(arrived) /\ tags[i] = arrived[i]
    BY <1>5, <2>1
  <2>3. CASE j = Len(tags)
    BY <1>4, <1>6, <2>2, <2>3
  <2>4. CASE j # Len(tags)
    <3>1. j \in 1..Len(arrived) /\ tags[j] = arrived[j]
      BY <1>5, <2>4
    <3> QED BY <2>2, <3>1
  <2> QED BY <2>3, <2>4
<1>8. RisingIn(Tail(fifo))
  BY <1>2
<1>9. ASSUME NEW i \in 1..Len(tags), NEW j \in 1..Len(Tail(fifo))
      PROVE  Before(tags[i], Tail(fifo)[j][2])
  <2>1. Before(x[2], Tail(fifo)[j][2])
    BY <1>2
  <2>2. \A k \in 1..Len(arrived) : Before(arrived[k], Tail(fifo)[j][2])
    BY <1>2
  <2> QED BY <1>4, <1>5, <2>1, <2>2
<1>10. ASSUME NEW i \in 1..Len(tags), NEW j \in 1..Len(unsent)
       PROVE  Before(tags[i], unsent[j][2])
  <2>1. Before(x[2], unsent[j][2])
    BY <1>2
  <2> QED BY <1>4, <1>5, <2>1
<1>11. \A i \in 1..Len(Tail(fifo)), j \in 1..Len(unsent) : Before(Tail(fifo)[i][2], unsent[j][2])
  BY <1>2
<1>12. \A i \in 1..Len(arrived), j \in 1..Len(Tail(fifo)) : Before(arrived[i], Tail(fifo)[j][2])
  BY <1>2
<1> QED BY <1>7, <1>8, <1>9, <1>10, <1>11, <1>12

\* The frames that make the datagram once the next one is read are a splice.
LEMMA SpliceRead ==
  ASSUME LinkInv, SpliceInv, NEW x \in Frame \X Tag, Sent(x), Rising(TagsWith(x))
  PROVE  AllKnown(requests, TagsWith(x)) /\ Splice(requests, TagsWith(x))
<1> PICK tags, k : tags = TagsWith(x) /\ k = Len(tags)
  OBVIOUS
<1>1. /\ k \in Nat \ {0} /\ tags[k] = x[2]
      /\ x[1].start => k = 1
      /\ ~x[1].start => /\ k = Len(arrived) + 1
                        /\ \A i \in 1..Len(arrived) : tags[i] = arrived[i]
  BY TagsRead
<1>2. Known(requests, x[2]) /\ FrameOf(requests, x[2]) = x[1]
  BY DEF Sent, SentIn, Known, FrameOf
<1>3. ASSUME NEW i \in 1..k
      PROVE  i = k \/ (i \in 1..Len(arrived) /\ tags[i] = arrived[i])
  BY <1>1
<1>4. FullFrames(requests)
  BY DEF SpliceInv
<1>5. AllKnown(requests, tags)
  BY <1>1, <1>2, <1>3, <1>4 DEF FullFrames, AllKnown
<1>6. ASSUME NEW i \in 1..k
      PROVE  /\ i > 1 => ~FrameOf(requests, tags[i]).start
             /\ i < k => Len(FrameOf(requests, tags[i]).data) = FrameBytes
  <2>1. CASE i = k
    BY <1>1, <1>2, <2>1
  <2>2. CASE i # k
    BY <1>3, <1>4, <2>2 DEF FullFrames, FrameBytes
  <2> QED BY <2>1, <2>2
<1>7. Splice(requests, tags)
  BY <1>6 DEF Splice, Rising
<1> QED BY <1>5, <1>7

LEMMA StartFresh ==
  ASSUME NEW d, d \in Reader
  PROVE  Start(d).reader_state = "version" /\ Start(d).dst = <<>>
BY DEF Start, Reader

\* Before the next frame is read, the reader holds the bytes of those before it.
LEMMA HeldBefore ==
  ASSUME LinkInv, SpliceInv, NEW x \in Frame \X Tag, Sent(x), Rising(TagsWith(x))
  PROVE  Parsed(ReaderBefore(x), BytesOf(requests, TagsWith(x)), Until(Len(TagsWith(x))))
<1> PICK tags, B : tags = TagsWith(x) /\ B = BytesOf(requests, tags)
  OBVIOUS
<1>1. /\ tags \in Seq(Tag) /\ Len(tags) \in Nat \ {0}
      /\ x[1].start => Len(tags) = 1
      /\ ~x[1].start => /\ Len(tags) = Len(arrived) + 1
                        /\ \A i \in 1..Len(arrived) : tags[i] = arrived[i]
  BY TagsRead
<1>2. /\ Shaped(dt) /\ dt \in Reader /\ requests \in Seq(Requests) /\ arrived \in Seq(Tag)
      /\ ReaderHolds(requests) /\ FullFrames(requests) /\ SentInOrder
  BY DEF LinkInv, LinkShape, SpliceInv, Shaped
<1>3. Until(1) = 0
  BY DEF Until
<1>4. CASE x[1].start
  <2>1. Parsed(Start(dt), B, 0)
    BY <1>2, StartFresh, ParsedFresh
  <2> QED BY <1>1, <1>3, <1>4, <2>1 DEF ReaderBefore
<1>5. CASE ~x[1].start /\ arrived = <<>>
  <2>1. Parsed(dt, B, 0)
    BY <1>2, <1>5, ParsedFresh DEF ReaderHolds
  <2>2. Len(tags) = 1
    BY <1>1, <1>5, EmptySeq
  <2> QED BY <1>3, <1>5, <2>1, <2>2 DEF ReaderBefore
<1>6. CASE ~x[1].start /\ arrived # <<>>
  <2> PICK A, n : A = BytesOf(requests, arrived) /\ n = 8 * Len(arrived)
    OBVIOUS
  <2>1. Len(arrived) \in Nat \ {0} /\ Len(arrived) \in 1..Len(arrived)
    BY <1>2, <1>6, EmptySeq
  <2>2. Joined(requests, arrived)
    BY <1>2, <2>1, ArrivedSplice, SpliceJoins
  <2>3. Joined(requests, tags)
    BY <1>1, <1>2, SpliceRead, SpliceJoins
  <2>4. Len(FrameOf(requests, arrived[Len(arrived)]).data) = 8
    BY <1>2, <2>1 DEF FullFrames
  <2>5. \A i \in 1..n : A[i] = B[i]
    <3>1. \A i \in 1..8*Len(arrived) : BytesOf(requests, arrived)[i] = BytesOf(requests, tags)[i]
      <4>1. Len(tags) = Len(arrived) + 1 /\ \A i \in 1..Len(arrived) : tags[i] = arrived[i]
        BY <1>1, <1>6
      <4> QED BY <2>2, <2>3, <2>4, <4>1, JoinedAgree
    <3> QED BY <3>1
  <2>6. Parsed(dt, A, n)
    BY <1>2, <1>6 DEF ReaderHolds
  <2>7. n \in Nat /\ Until(Len(tags)) = n
    <3>1. PICK a \in Nat \ {0} : a = Len(arrived)
      BY <2>1
    <3>2. Until(a + 1) = 8 * a /\ 8 * a \in Nat
      BY DEF Until
    <3>3. Len(tags) = a + 1
      BY <1>1, <1>6, <3>1
    <3> QED BY <3>1, <3>2, <3>3
  <2>8. Parsed(dt, B, n)
    BY <1>2, <2>5, <2>6, <2>7, ParsedAgree
  <2> QED BY <1>6, <2>7, <2>8 DEF ReaderBefore
<1> QED BY <1>4, <1>5, <1>6

\* These bytes are those of B from n + 1 on, and d has read the ones before.
NextOf(d, B, n, bytes) ==
  /\ Shaped(d) /\ n \in Nat /\ Parsed(d, B, n)
  /\ bytes \in Seq(Byte) /\ Len(bytes) \in 0..FrameBytes
  /\ \A i \in 1..Len(bytes) : bytes[i] = B[n+i]

LEMMA NextRead ==
  ASSUME NEW d, NEW B, NEW n, NEW bytes, NextOf(d, B, n, bytes), NEW e \in Input(d, bytes)
  PROVE  Shaped(e) /\ Parsed(e, B, n + Len(bytes))
<1>1. /\ Shaped(d) /\ n \in Nat /\ Parsed(d, B, n)
      /\ bytes \in Seq(Byte) /\ Len(bytes) \in 0..FrameBytes
      /\ \A i \in 1..Len(bytes) : bytes[i] = B[n+i]
  BY DEF NextOf
<1> QED BY <1>1, ParseOn

\* The reader has the bytes of the frames it has read, and is_valid() says of them
\* what Accepts does.
LEMMA HeldAfter ==
  ASSUME LinkInv, SpliceInv, NEW x \in Frame \X Tag, Sent(x), Rising(TagsWith(x)),
         NEW d \in Input(ReaderBefore(x), x[1].data)
  PROVE  /\ Parsed(d, BytesOf(requests, TagsWith(x)), Until(Len(TagsWith(x))) + Len(x[1].data))
         /\ Overrun(d) \/ OverRead(d) =>
              Overruns(BytesOf(requests, TagsWith(x))) \/ OverReads(BytesOf(requests, TagsWith(x)))
         /\ ~Overrun(d) /\ ~OverRead(d) =>
              (is_valid(d) <=> Accepts(BytesOf(requests, TagsWith(x))))
         /\ OverRead(d) => ~Accepts(BytesOf(requests, TagsWith(x)))
<1> PICK tags, k : tags = TagsWith(x) /\ k = Len(tags)
  OBVIOUS
<1> PICK B, bytes, l, n : /\ B = BytesOf(requests, tags) /\ bytes = x[1].data /\ l = Len(bytes)
                          /\ n = Until(k)
  OBVIOUS
<1>1. tags \in Seq(Tag) /\ k \in Nat \ {0} /\ tags[k] = x[2]
  BY TagsRead
<1>2. requests \in Seq(Requests)
  BY DEF LinkInv, LinkShape
<1>3. Joined(requests, tags)
  BY <1>1, <1>2, SpliceRead, SpliceJoins
<1>4. FrameOf(requests, x[2]) = x[1]
  BY DEF Sent, SentIn, FrameOf
<1>5. BytesAre(requests, tags, k, l)
  <2>1. BytesAre(requests, tags, k, Len(FrameOf(requests, tags[k]).data))
    BY <1>3, JoinedBytes
  <2> QED BY <1>1, <1>4, <2>1
<1>6. /\ B \in Seq(Byte) /\ Len(B) = n + l /\ l \in 0..8
      /\ \A i \in 1..l : FrameOf(requests, tags[k]).data[i] = B[n + i]
  <2>1. /\ BytesOf(requests, tags) \in Seq(Byte) /\ Len(BytesOf(requests, tags)) = Until(k) + l
        /\ l \in 0..8
        /\ \A i \in 1..l : FrameOf(requests, tags[k]).data[i] = BytesOf(requests, tags)[Until(k) + i]
    BY <1>5, Zenon DEF BytesAre
  <2> QED BY <2>1
<1>7. \A i \in 1..l : bytes[i] = B[n+i]
  <2>1. FrameOf(requests, tags[k]).data = bytes
    BY <1>1, <1>4
  <2> QED BY <1>6, <2>1
<1>8. bytes \in Seq(Byte) /\ l \in 0..FrameBytes
  BY <1>6 DEF Frame, FrameBytes
<1>9. Shaped(ReaderBefore(x))
  <2>1. Shaped(dt)
    BY DEF LinkInv, LinkShape
  <2> QED BY <2>1, StartShaped DEF ReaderBefore
<1>10. n \in Nat
  BY <1>1 DEF Until
<1>11. Parsed(ReaderBefore(x), B, n)
  BY HeldBefore
<1>12. Shaped(d) /\ Parsed(d, B, n + l)
  <2>1. Len(bytes) = l
    OBVIOUS
  <2>2. NextOf(ReaderBefore(x), B, n, bytes)
    BY <1>7, <1>8, <1>9, <1>10, <1>11, <2>1, Zenon DEF NextOf
  <2>3. d \in Input(ReaderBefore(x), bytes)
    OBVIOUS
  <2>4. Shaped(d) /\ Parsed(d, B, n + Len(bytes))
    BY <2>2, <2>3, NextRead
  <2> QED BY <2>1, <2>4
<1>13. /\ Overrun(d) \/ OverRead(d) => Overruns(B) \/ OverReads(B)
       /\ ~Overrun(d) /\ ~OverRead(d) => (is_valid(d) <=> Accepts(B))
       /\ OverRead(d) => ~Accepts(B)
  <2>1. Parsed(d, B, Len(B))
    BY <1>6, <1>12
  <2> QED BY <1>6, <1>12, <2>1, ReaderAccepts
<1> QED BY <1>12, <1>13

LEMMA ReadFrameSplice ==
  ASSUME LinkInv, SpliceInv, ReadFrame
  PROVE  SpliceInv'
<1> PICK x, tags, B : x = Head(fifo) /\ tags = TagsWith(x) /\ B = BytesOf(requests, tags)
  OBVIOUS
<1>0. /\ LinkShape /\ TagsTrue /\ SentInOrder /\ FullFrames(requests)
      /\ ReaderHolds(requests) /\ VerdictSays
  BY DEF LinkInv, SpliceInv
<1>1. /\ fifo # <<>> /\ fifo' = Tail(fifo) /\ unsent' = unsent /\ requests' = requests
      /\ ~undefined
  BY ReadFrameIs DEF client
<1>2. PICK d \in Input(ReaderBefore(x), x[1].data) :
        RunsOver(x, d) \/ (\E valid \in BOOLEAN : Judges(x, d, valid)) \/ GoesOn(x, d)
  BY ReadFrameIs
<1>3. x \in Frame \X Tag /\ Sent(x)
  <2>1. fifo \in Seq(Frame \X Tag) /\ fifo # <<>> /\ \A i \in 1..Len(fifo) : Sent(fifo[i])
    BY <1>0, <1>1 DEF LinkShape, TagsTrue
  <2>2. 1 \in 1..Len(fifo) /\ x = fifo[1]
    BY <2>1, TailOf
  <2> QED BY <2>1, <2>2, ElementOfSeq
<1>4. /\ Rising(tags) /\ RisingIn(Tail(fifo))
      /\ \A i \in 1..Len(tags), j \in 1..Len(Tail(fifo)) : Before(tags[i], Tail(fifo)[j][2])
      /\ \A i \in 1..Len(tags), j \in 1..Len(unsent) : Before(tags[i], unsent[j][2])
      /\ \A i \in 1..Len(Tail(fifo)), j \in 1..Len(unsent) : Before(Tail(fifo)[i][2], unsent[j][2])
      /\ \A i \in 1..Len(arrived), j \in 1..Len(Tail(fifo)) : Before(arrived[i], Tail(fifo)[j][2])
  BY <1>0, <1>1, ReadOrder
<1>5. AllKnown(requests, tags) /\ Splice(requests, tags)
  BY <1>3, <1>4, SpliceRead
<1>6. /\ Parsed(d, B, Until(Len(tags)) + Len(x[1].data))
      /\ Overrun(d) \/ OverRead(d) => Overruns(B) \/ OverReads(B)
      /\ ~Overrun(d) /\ ~OverRead(d) => (is_valid(d) <=> Accepts(B))
      /\ OverRead(d) => ~Accepts(B)
  BY <1>3, <1>4, HeldAfter
<1>7. tags \in Seq(Tag) /\ Len(tags) \in Nat \ {0} /\ tags[Len(tags)] = x[2]
  BY <1>3, TagsRead
<1>10. tags # <<>>
  BY <1>7, EmptySeq
<1>11. Judged(requests, tags)
  <2>1. ASSUME NEW r \in Requests, Readable(r),
               \A i \in 1..Len(tags) : i <= Len(FramesOf[r]) => FrameOf(requests, tags[i]) = FramesOf[r][i]
        PROVE  Len(tags) <= Len(FramesOf[r])
    <3>1. First(tags, r)
      BY <1>10, <2>1 DEF First
    <3>2. Len(tags) \in 1..Len(FramesOf[r])
      BY <1>3, <2>1, <3>1, FrameRead
    <3> QED BY <3>2
  <2> QED BY <1>5, <2>1 DEF Judged
<1>12. CASE RunsOver(x, d)
  <2>1. /\ undefined' /\ dt' = dt /\ arrived' = arrived /\ verdict'.tags = tags
        /\ Overruns(B) \/ OverReads(B)
    BY <1>6, <1>12 DEF RunsOver, RunOver
  <2>2. SentInOrder'
    BY <1>0, <1>1, <1>4, <2>1 DEF SentInOrder
  <2>3. FullFrames(requests)' /\ ReaderHolds(requests)'
    BY <1>0, <1>1, <2>1 DEF FullFrames, ReaderHolds
  <2>4. VerdictSays'
    BY <1>1, <1>10, <1>11, <2>1 DEF VerdictSays, Told
  <2> QED BY <2>2, <2>3, <2>4 DEF SpliceInv
<1>8. ASSUME NEW valid \in BOOLEAN, Judges(x, d, valid) PROVE SpliceInv'
  <2>0. /\ dt' = Start(dt) /\ arrived' = <<>> /\ undefined' = undefined
        /\ verdict'.valid = valid /\ verdict'.tags = tags
        /\ valid <=> Accepts(B)
    BY <1>6, <1>8 DEF Judges, Judge, Restart
  <2>1. Len(arrived') = 0
    BY <2>0, EmptySeq
  <2>2. SentInOrder'
    BY <1>1, <1>4, <2>0, <2>1, <1>0 DEF SentInOrder, Rising, RisingIn
  <2>3. FullFrames(requests)'
    BY <2>1 DEF FullFrames
  <2>4. ReaderHolds(requests)'
    <3>1. dt \in Reader
      BY <1>0 DEF LinkShape, Shaped
    <3> QED BY <2>0, <3>1, StartFresh DEF ReaderHolds
  <2>7. VerdictSays'
    BY <1>1, <1>10, <1>11, <2>0 DEF VerdictSays, Told
  <2> QED BY <2>2, <2>3, <2>4, <2>7 DEF SpliceInv
<1>9. CASE GoesOn(x, d)
  <2>0. /\ Len(x[1].data) = FrameBytes
        /\ dt' = d /\ arrived' = tags /\ verdict' = verdict /\ undefined' = undefined
    BY <1>9 DEF GoesOn
  <2>1. SentInOrder'
    BY <1>0, <1>1, <1>4, <2>0 DEF SentInOrder, Rising, RisingIn
  <2>2. FrameOf(requests, x[2]) = x[1]
    BY <1>3 DEF Sent, SentIn, FrameOf
  <2>3. ASSUME NEW i \in 1..Len(tags)
        PROVE  /\ Known(requests, tags[i])
               /\ Len(FrameOf(requests, tags[i]).data) = 8
               /\ i > 1 => ~FrameOf(requests, tags[i]).start
    <3>1. Len(FrameOf(requests, tags[i]).data) = 8
      <4>1. CASE i = Len(tags)
        BY <1>7, <2>0, <2>2, <4>1 DEF FrameBytes
      <4>2. CASE i < Len(tags)
        BY <1>5, <4>2 DEF Splice, FrameBytes
      <4> QED BY <1>7, <4>1, <4>2
    <3> QED BY <1>5, <3>1 DEF AllKnown, Splice
  <2>4. FullFrames(requests)'
    BY <1>1, <2>0, <2>3 DEF FullFrames
  <2>5. Until(Len(tags)) + Len(x[1].data) = 8 * Len(tags)
    <3>1. Len(x[1].data) = 8
      BY <2>0 DEF FrameBytes
    <3>2. PICK k \in Nat \ {0} : k = Len(tags)
      BY <1>7
    <3>3. Until(k) + 8 = 8 * k
      BY DEF Until
    <3> QED BY <3>1, <3>2, <3>3
  <2>6. ReaderHolds(requests)'
    <3>1. tags # <<>>
      BY <1>7, EmptySeq
    <3> QED BY <1>1, <1>6, <2>0, <2>5, <3>1 DEF ReaderHolds
  <2>7. VerdictSays'
    BY <1>0, <1>1, <2>0 DEF VerdictSays
  <2> QED BY <2>1, <2>4, <2>6, <2>7 DEF SpliceInv
<1> QED BY <1>2, <1>8, <1>9, <1>12

LEMMA TimeOutSplice ==
  ASSUME LinkInv, SpliceInv, DatagramTimeOut
  PROVE  SpliceInv'
<1>1. /\ dt' = Start(dt) /\ arrived' = <<>> /\ verdict' = verdict /\ undefined' = undefined
      /\ unsent' = unsent /\ fifo' = fifo /\ requests' = requests
  BY DEF DatagramTimeOut, Restart, client
<1>2. Len(arrived') = 0
  BY <1>1, EmptySeq
<1>3. SentInOrder' /\ FullFrames(requests)'
  BY <1>1, <1>2 DEF SpliceInv, SentInOrder, Rising, RisingIn, FullFrames
<1>4. ReaderHolds(requests)'
  <2>1. dt \in Reader
    BY DEF LinkInv, LinkShape, Shaped
  <2> QED BY <1>1, <2>1, StartFresh DEF ReaderHolds
<1>5. VerdictSays'
  BY <1>1 DEF SpliceInv, VerdictSays
<1> QED BY <1>3, <1>4, <1>5 DEF SpliceInv

LEMMA SpliceKept ==
  ASSUME LinkInv, SpliceInv, [Next]_vars
  PROVE  SpliceInv'
<1>1. CASE UNCHANGED linkVars
  BY <1>1 DEF linkVars, SpliceInv, SentInOrder, Rising, RisingIn, FullFrames, ReaderHolds,
              VerdictSays
<1>2. CASE OtherTransmission
  BY <1>1, <1>2, OtherBoardFiltered DEF OtherTransmission, linkVars, client, board
<1>3. CASE ReplyFrame \/ ReplyEnds \/ Sending
  BY <1>1, <1>3 DEF ReplyFrame, ReplyEnds, Sending, linkVars, client, board
<1>4. CASE StartTransmission \/ Transmission \/ FailTransmission
  BY <1>1, <1>4 DEF StartTransmission, Transmission, FailTransmission, linkVars, client, board
<1>5. CASE UNCHANGED vars
  BY <1>1, <1>5 DEF vars, linkVars, client, board
<1> QED BY <1>2, <1>3, <1>4, <1>5, RequestSplice, SendFrameSplice, ReadFrameSplice,
           TimeOutSplice DEF Next

\* Whatever frames of the requests are lost, the last datagram the reader came to
\* the end of is a splice of what was sent, and can_datagram_is_valid() says of it
\* what its version, its lengths and its checksum say (can_datagram.c); or else the
\* board has run past one of its buffers (bootloader.c), and then the bytes of this
\* splice are such that the reader would: no others lead there.
THEOREM VerdictsSaid == Spec => []VerdictSays
<1>1. LinkInv /\ SpliceInv /\ [Next]_vars => SpliceInv'
  BY SpliceKept
<1>2. SpliceInv => VerdictSays
  BY DEF SpliceInv
<1> QED BY <1>1, <1>2, SpliceInitial, LinkInvariant, PTL DEF Spec

\* If the checksum tells the splices of the requests from the requests, the board
\* accepts no datagram but one that arrived whole, as long as it has stayed within its
\* buffers (bootloader.c, can_datagram.c).
THEOREM OnlyWholeAccepted ==
  ASSUME NoCollision
  PROVE  Spec => []OthersRefused
<1>1. ASSUME LinkInv, VerdictSays PROVE OthersRefused
  <2> SUFFICES ASSUME verdict.tags # <<>>, verdict.valid, ~undefined
               PROVE  Whole(verdict.tags) /\ Readable(requests[verdict.tags[1].request])
    BY DEF OthersRefused
  <2> PICK tags : tags = verdict.tags
    OBVIOUS
  <2>1. requests \in Seq(Requests) /\ Len(requests) <= MaxRequests /\ tags \in Seq(Tag)
    BY <1>1 DEF LinkInv, LinkShape
  <2>2. Len(tags) \in Nat \ {0} /\ 1 \in 1..Len(tags)
    BY <2>1, EmptySeq
  <2>3. Judged(requests, tags) /\ Accepts(BytesOf(requests, tags))
    BY <1>1 DEF VerdictSays, Told
  <2>4. AllKnown(requests, tags) /\ Splice(requests, tags) /\ Accepts(BytesOf(requests, tags))
    BY <2>3 DEF Judged
  <2>5. tags \in [1..Len(tags) -> TagsOf(requests)] /\ Len(tags) \in 1..Cardinality(TagsOf(requests))
    BY <2>1, <2>2, <2>4, SpliceFits
  <2>6. tags \in UNION {[1..k -> TagsOf(requests)] : k \in 1..Cardinality(TagsOf(requests))}
    BY <2>5
  <2>7. tags[1].request \in 1..Len(requests)
    BY <2>2, <2>4 DEF AllKnown, Known
  <2>8. requests \in UNION {[1..n -> Requests] : n \in 1..MaxRequests}
    <3>1. Len(requests) \in 1..MaxRequests
      BY <2>1, <2>7, ExchangeAssumption
    <3>2. requests \in [1..Len(requests) -> Requests]
      BY <2>1
    <3> QED BY <3>1, <3>2
  <2>9. BeginsWhole(requests, tags) /\ Readable(requests[tags[1].request])
    BY <2>4, <2>6, <2>8 DEF NoCollision
  <2> PICK r : r = requests[tags[1].request]
    OBVIOUS
  <2>10. r \in Requests
    BY <2>1, <2>7, ElementOfSeq
  <2>11. Len(tags) <= Len(FramesOf[r])
    <3>1. \A i \in 1..Len(tags) : i <= Len(FramesOf[r]) => FrameOf(requests, tags[i]) = FramesOf[r][i]
      BY <2>9 DEF BeginsWhole
    <3> QED BY <2>3, <2>9, <2>10, <3>1 DEF Judged
  <2>12. Len(FramesOf[r]) \in Nat /\ Len(tags) >= Len(FramesOf[r])
    <3>1. FramesOf[r] \in Seq(Frame)
      BY <2>10, FramesLayout DEF CutInto
    <3> QED BY <2>9, <3>1 DEF BeginsWhole
  <2>13. Len(tags) = Len(FramesOf[r])
    BY <2>2, <2>11, <2>12
  <2> QED BY <2>9, <2>13 DEF Whole
<1> QED BY <1>1, VerdictsSaid, LinkInvariant, PTL

---------------------------------------------------------------------------
(* What the board answers *)

\* What is assumed of the checksum and of the replies: crc32() gives four bytes, and
\* replies are sequences of bytes that fit a datagram.
RepliesFit ==
  /\ \A s \in Seq(Byte) : Crc(s) \in Quad
  /\ \A s \in Seq(Byte) : Reply(s) \in Seq(Byte) /\ Len(Reply(s)) < 256*256*256
  /\ OtherReply \in Seq(Byte) /\ Len(OtherReply) < 256*256*256

\* The datagram of a reply, and its frames as the client would cut it.
ReplyOf(data) == [dst |-> <<0>>, data |-> data]
FramesOfReply(data) == datagram_to_frames(Written(ReplyOf(data)))

LEMMA ReplyFits ==
  ASSUME RepliesFit, NEW s \in Seq(Byte), Len(s) < 256*256*256
  PROVE  Fits(ReplyOf(s)) /\ ReplyOf(s).dst # <<>>
<1> DEFINE r == ReplyOf(s)
           zero == <<0>>
<1>1. r.dst = zero /\ r.data = s
  BY DEF ReplyOf
<1>2. zero \in Seq(Byte) /\ Len(zero) = 1 /\ zero # <<>> /\ <<1>> \in Seq(Byte)
  BY DEF Byte
<1>3. Bytes(Len(s)) \in Seq(Byte)
  <2>1. Len(s) \in Nat /\ Len(s) < 256*256*256
    OBVIOUS
  <2> QED BY <2>1, BytesOfLength DEF Quad
<1>4. Checksum(s, zero) \in Quad
  <2> DEFINE b == Bytes(Len(s))
             t == <<Len(zero)>> \o zero \o b \o s
  <2>1. t = <<1>> \o zero \o b \o s
    BY <1>2
  <2>2. t \in Seq(Byte)
    <3> HIDE DEF b
    <3>1. <<1>> \o zero \in Seq(Byte)
      BY <1>2, ConcatProperties
    <3>2. (<<1>> \o zero) \o b \in Seq(Byte)
      BY <1>3, <3>1, ConcatProperties DEF b
    <3>3. ((<<1>> \o zero) \o b) \o s \in Seq(Byte)
      BY <3>2, ConcatProperties
    <3> QED BY <2>1, <3>3
  <2> HIDE DEF t
  <2>3. Crc(t) \in Quad
    BY <2>2 DEF RepliesFit
  <2> QED BY <2>3 DEF Checksum, t
<1> HIDE DEF r, zero
<1>5. Len(zero) \in Byte
  BY <1>2 DEF Byte
<1>6. Fits(r)
  BY <1>1, <1>2, <1>4, <1>5 DEF Fits
<1> QED BY <1>1, <1>2, <1>6 DEF r

LEMMA ReplyLayout ==
  ASSUME RepliesFit, NEW s \in Seq(Byte), Len(s) < 256*256*256
  PROVE  Len(Written(ReplyOf(s))) \in Nat \ {0} /\ FramesOfReply(s) \in Seq(Frame)
<1> PICK r, W : r = ReplyOf(s) /\ W = Written(r)
  OBVIOUS
<1>1. W \in Seq(Byte) /\ Len(W) \in Nat \ {0} /\ W # <<>>
  BY ReplyFits, WrittenBytes
<1>2. datagram_to_frames(W) \in Seq(Frame)
  BY <1>1, FramesOfBytes DEF CutInto
<1> QED BY <1>1, <1>2 DEF FramesOfReply

LEMMA NextReplyFrame ==
  ASSUME RepliesFit, NEW s \in Seq(Byte), Len(s) < 256*256*256,
         NEW k \in Nat, NEW w, Wrote(w, ReplyOf(s), Held(k, Len(Written(ReplyOf(s))))),
         NEW v \in output_bytes(w)
  PROVE  /\ v.buffer # <<>> =>
              /\ k + 1 \in 1..Len(FramesOfReply(s))
              /\ [start |-> k = 0, data |-> v.buffer] = FramesOfReply(s)[k+1]
              /\ Wrote(v, ReplyOf(s), Held(k + 1, Len(Written(ReplyOf(s)))))
         /\ v.buffer = <<>> => k >= Len(FramesOfReply(s))
<1> PICK r : r = ReplyOf(s)
  OBVIOUS
<1>1. Fits(r) /\ r.dst # <<>>
  BY ReplyFits
<1>2. Wrote(w, r, Held(k, Len(Written(r))))
  OBVIOUS
<1>3. /\ v.buffer # <<>> =>
           /\ k + 1 \in 1..Len(datagram_to_frames(Written(r)))
           /\ [start |-> k = 0, data |-> v.buffer] = datagram_to_frames(Written(r))[k+1]
           /\ Wrote(v, r, Held(k + 1, Len(Written(r))))
      /\ v.buffer = <<>> => k >= Len(datagram_to_frames(Written(r)))
  BY <1>1, <1>2, NextFrame, ZenonT(60)
<1> QED BY <1>3 DEF FramesOfReply

---------------------------------------------------------------------------
(* The board sends its replies frame by frame, and all the variables have their types *)

\* A reply that fits a datagram.
ReplyData(s) == s \in Seq(Byte) /\ Len(s) < 256*256*256

\* How many frames of the reply return_datagram() has sent.
FramesSent == MaxTransmissions - transmission_count

\* The writer has written what the frames that were sent hold, and the argument of
\* can_interface_send_message() is the last of them.
ReplyInStep ==
  /\ ReplyData(writer.data)
  /\ loop \in {"read", "reply"} /\ transmission_count \in 0..MaxTransmissions
  /\ start_of_datagram \in BOOLEAN
  /\ loop = "reply" =>
       /\ Wrote(writer, ReplyOf(writer.data),
                Held(FramesSent, Len(Written(ReplyOf(writer.data)))))
       /\ start_of_datagram = (FramesSent = 0)
       /\ FramesSent > 0 => /\ FramesSent \in 1..Len(FramesOfReply(writer.data))
                            /\ message.frame = FramesOfReply(writer.data)[FramesSent]

LEMMA EmptyReply == ReplyData(<<>>)
<1>1. <<>> \in Seq(Byte) /\ Len(<<>>) = 0
  BY EmptySeq
<1> QED BY <1>1 DEF ReplyData

LEMMA AnswerInStep ==
  ASSUME RepliesFit, NEW s, ReplyData(s), Answer(s)
  PROVE  ReplyInStep'
<1> DEFINE w == NewWriter(<<0>>, s)
<1>1. s \in Seq(Byte) /\ Len(s) < 256*256*256
  BY DEF ReplyData
<1>2. Wrote(w, ReplyOf(s), 0)
  BY <1>1, ReplyFits, WriterStarted DEF ReplyOf
<1>3. Len(Written(ReplyOf(s))) \in Nat
  BY <1>1, ReplyLayout
<1>4. /\ writer' = w /\ loop' = "reply" /\ transmission_count' = MaxTransmissions
      /\ start_of_datagram' = TRUE
  BY DEF Answer
<1>5. w.data = s
  BY DEF NewWriter
<1>6. MaxTransmissions \in Nat
  BY ExchangeAssumption
<1> HIDE DEF w
<1>7. FramesSent' = 0
  BY <1>4, <1>6 DEF FramesSent
<1>8. Held(FramesSent', Len(Written(ReplyOf(s)))) = 0
  BY <1>3, <1>7 DEF Held
<1>9. MaxTransmissions \in 0..MaxTransmissions /\ ~(FramesSent' > 0)
  BY <1>6, <1>7
<1>10. writer'.data = s /\ TRUE = (FramesSent' = 0)
  BY <1>4, <1>5, <1>7
<1>11. ReplyInStep'
  BY <1>2, <1>4, <1>8, <1>9, <1>10 DEF ReplyInStep
<1> QED BY <1>11

LEMMA ReplyFrameInStep ==
  ASSUME RepliesFit, ReplyInStep, ReplyFrame
  PROVE  /\ ReplyInStep' /\ \E f \in Frame : Call(f)
         /\ writer'.data = writer.data /\ FramesSent' = FramesSent + 1
<1> PICK s, k, N : s = writer.data /\ k = FramesSent /\ N = Len(Written(ReplyOf(s)))
  OBVIOUS
<1>1. s \in Seq(Byte) /\ Len(s) < 256*256*256
  BY DEF ReplyInStep, ReplyData
<1>2. /\ transmission_count \in 0..MaxTransmissions /\ transmission_count > 0
      /\ transmission_count' = transmission_count - 1
      /\ loop = "reply" /\ loop' = "reply" /\ start_of_datagram' = FALSE
  BY DEF ReplyFrame, ReplyInStep
<1>3. k \in Nat /\ FramesSent' = k + 1 /\ transmission_count' \in 0..MaxTransmissions
  BY <1>2, ExchangeAssumption DEF FramesSent
<1>4. Wrote(writer, ReplyOf(s), Held(k, N)) /\ start_of_datagram = (k = 0)
  BY <1>2 DEF ReplyInStep
<1>5. PICK v \in output_bytes(writer) :
        /\ v.buffer # <<>> /\ writer' = v
        /\ Call([start |-> start_of_datagram, data |-> v.buffer])
  BY DEF ReplyFrame
<1>6. /\ v.buffer # <<>> =>
           /\ k + 1 \in 1..Len(FramesOfReply(s))
           /\ [start |-> k = 0, data |-> v.buffer] = FramesOfReply(s)[k+1]
           /\ Wrote(v, ReplyOf(s), Held(k + 1, N))
      /\ v.buffer = <<>> => k >= Len(FramesOfReply(s))
  BY <1>1, <1>3, <1>4, NextReplyFrame
<1>7. /\ k + 1 \in 1..Len(FramesOfReply(s))
      /\ [start |-> start_of_datagram, data |-> v.buffer] = FramesOfReply(s)[k+1]
      /\ Wrote(v, ReplyOf(s), Held(k + 1, N))
  BY <1>4, <1>5, <1>6
<1>8. FramesOfReply(s)[k+1] \in Frame
  BY <1>1, <1>7, ReplyLayout, ElementOfSeq
<1>9. message'.frame = FramesOfReply(s)[k+1]
  BY <1>5, <1>7 DEF Call
<1>10. writer'.data = s
  BY <1>5, <1>7 DEF Wrote, ReplyOf
<1>11. k + 1 > 0 /\ FALSE = (k + 1 = 0)
  BY <1>3
<1>12. ReplyData(s)
  BY <1>1 DEF ReplyData
<1>13. ReplyInStep'
  BY <1>2, <1>3, <1>5, <1>7, <1>9, <1>10, <1>11, <1>12 DEF ReplyInStep
<1> QED BY <1>3, <1>5, <1>7, <1>8, <1>10, <1>13

LEMMA ReplyEndsInStep ==
  ASSUME ReplyEnds
  PROVE  ReplyInStep'
<1>1. /\ loop' = "read" /\ writer' = NewWriter(<<0>>, <<>>) /\ transmission_count' = 0
      /\ start_of_datagram' = FALSE
  BY DEF ReplyEnds
<1>2. writer'.data = <<>>
  BY <1>1 DEF NewWriter
<1>3. 0 \in 0..MaxTransmissions
  BY ExchangeAssumption
<1> QED BY <1>1, <1>2, <1>3, EmptyReply DEF ReplyInStep

LEMMA OthersInStep ==
  ASSUME ReplyInStep, UNCHANGED <<loop, writer, transmission_count, start_of_datagram, message>>
  PROVE  ReplyInStep'
BY DEF ReplyInStep, FramesSent

\* What ReadFrame answers fits a datagram.
LEMMA ReadFrameInStep ==
  ASSUME RepliesFit, LinkInv, ReplyInStep, ReadFrame
  PROVE  ReplyInStep'
<1> PICK x : x = Head(fifo)
  OBVIOUS
<1>1. x \in Frame \X Tag /\ Sent(x)
  <2>1. fifo \in Seq(Frame \X Tag) /\ fifo # <<>> /\ \A i \in 1..Len(fifo) : Sent(fifo[i])
    BY DEF LinkInv, LinkShape, TagsTrue, ReadFrame, TakeFrame
  <2>2. x \in Frame \X Tag
    BY <2>1, HeadTailProperties
  <2>3. Len(fifo) \in Nat \ {0} /\ x = fifo[1]
    BY <2>1, EmptySeq
  <2> QED BY <2>1, <2>2, <2>3
<1>2. PICK d \in Input(ReaderBefore(x), x[1].data) :
        \/ Execute(d) \/ Answer(<<ERROR_CORRUPT_DATAGRAM>>) \/ UNCHANGED reply
  BY ReadFrameIs DEF RunsOver, RunOver, Judges, Judge, GoesOn
<1>3. d.data \in Seq(Byte)
  BY <1>1, FrameTyped DEF Shaped, Reader
<1>4. UNCHANGED message
  BY DEF ReadFrame, sendVars
<1>5. CASE UNCHANGED reply
  BY <1>4, <1>5, OthersInStep DEF reply
<1>6. CASE Answer(Reply(d.data))
  <2>1. ReplyData(Reply(d.data))
    BY <1>3 DEF RepliesFit, ReplyData
  <2> QED BY <1>6, <2>1, AnswerInStep
<1>7. CASE Answer(<<ERROR_CORRUPT_DATAGRAM>>)
  <2>1. ReplyData(<<ERROR_CORRUPT_DATAGRAM>>)
    BY DEF ReplyData, ERROR_CORRUPT_DATAGRAM, Byte
  <2> QED BY <1>7, <2>1, AnswerInStep
<1> QED BY <1>2, <1>5, <1>6, <1>7 DEF Execute

LEMMA DatagramTimeOutInStep ==
  ASSUME RepliesFit, DatagramTimeOut
  PROVE  ReplyInStep'
<1>1. ReplyData(<<ERROR_DATAGRAM_TIMEOUT>>)
  BY DEF ReplyData, ERROR_DATAGRAM_TIMEOUT, Byte
<1>2. Answer(<<ERROR_DATAGRAM_TIMEOUT>>)
  BY DEF DatagramTimeOut
<1> QED BY <1>1, <1>2, AnswerInStep

LEMMA InStepKept ==
  ASSUME RepliesFit, LinkInv, ReplyInStep, [Next]_vars
  PROVE  ReplyInStep'
<1>1. CASE Request \/ SendFrame
  BY <1>1, OthersInStep DEF Request, SendFrame, sendVars, reply
<1>2. CASE ReadFrame
  BY <1>2, ReadFrameInStep
<1>3. CASE DatagramTimeOut
  BY <1>3, DatagramTimeOutInStep
<1>4. CASE ReplyFrame
  BY <1>4, ReplyFrameInStep
<1>5. CASE ReplyEnds
  BY <1>5, ReplyEndsInStep
<1>6. CASE Sending
  BY <1>6, OthersInStep DEF Sending, reply, SendStep, Abort, Transmit, PollAgain, Complete,
     EvaluateTimeout, EvaluateStatus
<1>7. CASE StartTransmission \/ Transmission \/ FailTransmission
  BY <1>7, OthersInStep DEF StartTransmission, Transmission, FailTransmission, reply,
     StartTx, TxDone, TxFailed
<1>8. CASE OtherTransmission \/ UNCHANGED vars
  BY <1>8, OthersInStep DEF OtherTransmission, vars, sendVars, reply
<1> QED BY <1>1, <1>2, <1>3, <1>4, <1>5, <1>6, <1>7, <1>8 DEF Next

LEMMA InStepInitial == Init => ReplyInStep
<1> SUFFICES ASSUME Init PROVE ReplyInStep
  OBVIOUS
<1>1. /\ loop = "read" /\ writer = NewWriter(<<0>>, <<>>) /\ transmission_count = 0
      /\ start_of_datagram = FALSE
  BY DEF Init
<1>2. writer.data = <<>>
  BY <1>1 DEF NewWriter
<1>3. 0 \in 0..MaxTransmissions
  BY ExchangeAssumption
<1> QED BY <1>1, <1>2, <1>3, EmptyReply DEF ReplyInStep

\* While return_datagram() runs, its writer has put out the frames sent so far, and
\* the one handed over last is the last of them (bootloader.c, can_datagram.c).
THEOREM ReplyInvariant ==
  ASSUME RepliesFit
  PROVE  Spec => []ReplyInStep
<1>1. LinkInv /\ ReplyInStep /\ [Next]_vars => ReplyInStep'
  BY InStepKept
<1> QED BY <1>1, InStepInitial, LinkInvariant, PTL DEF Spec

\* return_datagram() sends nothing but the frames the client would have cut the
\* reply into, one call of can_interface_send_message() after another.
InFrames ==
  (loop = "reply" /\ transmission_count < MaxTransmissions) =>
    message.frame = FramesOfReply(writer.data)[FramesSent]

\* ... and all of them, unless a call failed or there were too many.
AllOfThem ==
  [][(loop = "reply" /\ loop' = "read") =>
       \/ FramesSent = Len(FramesOfReply(writer.data))
       \/ ~returned
       \/ transmission_count = 0]_vars

\* return_datagram() ends when all the frames are sent, unless a call failed or there
\* were too many.
LEMMA AllWritten ==
  ASSUME RepliesFit, ReplyInStep, ReplyEnds, transmission_count # 0,
         start_of_datagram \/ returned
  PROVE  FramesSent = Len(FramesOfReply(writer.data))
<1>1. PICK v \in output_bytes(writer) : v.buffer = <<>>
  BY DEF ReplyEnds
<1> PICK s, k, N : s = writer.data /\ k = FramesSent /\ N = Len(Written(ReplyOf(s)))
  OBVIOUS
<1>2. s \in Seq(Byte) /\ Len(s) < 256*256*256
  BY DEF ReplyInStep, ReplyData
<1>3. k \in Nat
  BY ExchangeAssumption DEF ReplyInStep, FramesSent
<1>4. Wrote(writer, ReplyOf(s), Held(k, N)) /\ (k > 0 => k \in 1..Len(FramesOfReply(s)))
  BY DEF ReplyInStep, ReplyEnds
<1>5. v.buffer = <<>> => k >= Len(FramesOfReply(s))
  BY <1>2, <1>3, <1>4, NextReplyFrame
<1>6. Len(FramesOfReply(s)) \in Nat
  BY <1>2, ReplyLayout
<1> QED BY <1>1, <1>3, <1>4, <1>5, <1>6

\* A reply leaves the board in the frames the client's own framing would give it, in
\* their order and, unless a call failed, all of them: output_byte() agrees with
\* encode_datagram() and the loop in return_datagram() with datagram_to_frames().
THEOREM RepliesInFrames ==
  ASSUME RepliesFit
  PROVE  Spec => []InFrames /\ AllOfThem
<1> DEFINE Ends == (loop = "reply" /\ loop' = "read") =>
                     \/ FramesSent = Len(FramesOfReply(writer.data))
                     \/ ~returned
                     \/ transmission_count = 0
<1>1. ASSUME ReplyInStep PROVE InFrames
  <2> SUFFICES ASSUME loop = "reply", transmission_count < MaxTransmissions
               PROVE  message.frame = FramesOfReply(writer.data)[FramesSent]
    BY DEF InFrames
  <2>1. FramesSent > 0
    BY <1>1, ExchangeAssumption DEF ReplyInStep, FramesSent
  <2> QED BY <1>1, <2>1 DEF ReplyInStep
<1>2. ASSUME ReplyInStep, [Next]_vars PROVE Ends
  <2> SUFFICES ASSUME loop = "reply", loop' = "read", returned, transmission_count # 0
               PROVE  FramesSent = Len(FramesOfReply(writer.data))
    OBVIOUS
  <2>1. ReplyEnds
    <3>1. ~ReplyFrame /\ ~UNCHANGED vars
      BY DEF ReplyFrame, vars, reply
    <3>2. ~Request /\ ~SendFrame /\ ~OtherTransmission
      BY DEF Request, SendFrame, OtherTransmission, reply
    <3>3. ~ReadFrame /\ ~DatagramTimeOut
      BY DEF ReadFrame, TakeFrame, DatagramTimeOut
    <3>4. ~Sending /\ ~StartTransmission /\ ~Transmission /\ ~FailTransmission
      BY DEF Sending, StartTransmission, Transmission, FailTransmission, reply
    <3> QED BY <1>2, <3>1, <3>2, <3>3, <3>4 DEF Next
  <2> QED BY <1>2, <2>1, AllWritten
<1>3. ReplyInStep /\ [Next]_vars => [Ends]_vars
  BY <1>2
<1> QED BY <1>1, <1>3, ReplyInvariant, PTL DEF Spec, AllOfThem

---------------------------------------------------------------------------
(* Types *)

TypeInv ==
  /\ SendTypeOK(Frame)
  /\ Len(fifo) <= FifoDepth
  /\ datagram_timeout_running \in BOOLEAN /\ undefined \in BOOLEAN
  /\ other \in Seq(Frame)
  /\ buf \in [Sources -> Seq(Byte)]
  /\ faults \in 0..MaxFaults /\ clean \in BOOLEAN

NoFrameTyped == NoFrame \in Numbered(Frame)

LEMMA NoFrameHasType == NoFrameTyped
BY ExchangeAssumption DEF NoFrameTyped, NoFrame, Numbered, Frame

\* The steps of CanSend keep the types of its variables, when frames are sent.
LEMMA SendTyped ==
  ASSUME SendTypeOK(Frame),
         \/ \E f \in Frame : Call(f)
         \/ SendStep
         \/ \E m \in Mailboxes : Controller(m)
         \/ UNCHANGED sendVars
  PROVE  SendTypeOK(Frame)'
<1> USE DEF SendTypeOK
<1>1. CASE \E f \in Frame : Call(f)
  <2>1. PICK f \in Frame : Call(f)
    BY <1>1
  <2>2. message' \in Numbered(Frame)
    BY <2>1 DEF Call, Numbered
  <2> QED BY <2>1, <2>2, SendAssumption DEF Call, registers
<1>2. CASE Abort
  <2>1. mailbox' \in [Mailboxes -> Numbered(Frame)]
    BY <1>2, NoFrameHasType DEF Abort, abort_all_transmissions, NoFrameTyped
  <2>2. status' \in [Mailboxes -> {"empty", "pending", "wire", "aborting"}]
    BY <1>2 DEF Abort, abort_all_transmissions, Aborted
  <2> QED BY <1>2, <2>1, <2>2 DEF Abort, abort_all_transmissions
<1>3. CASE Transmit
  <2>1. Polls \in 0..CounterLimit-1
    BY SendAssumption
  <2>2. mailbox' \in [Mailboxes -> Numbered(Frame)]
    BY <1>3 DEF Transmit, registers
  <2>3. status' \in [Mailboxes -> {"empty", "pending", "wire", "aborting"}]
    BY <1>3 DEF Transmit, registers
  <2> QED BY <1>3, <2>1, <2>2, <2>3 DEF Transmit, registers
<1>4. CASE PollAgain
  <2>1. timeout' \in 0..CounterLimit-1
    BY <1>4, SendAssumption DEF PollAgain, Decremented
  <2> QED BY <1>4, <2>1 DEF PollAgain, registers
<1>5. CASE Complete
  BY <1>5 DEF Complete, registers
<1>6. CASE EvaluateTimeout
  <2>1. mailbox' \in [Mailboxes -> Numbered(Frame)]
    BY <1>6, NoFrameHasType DEF EvaluateTimeout, abort_all_transmissions, NoFrameTyped
  <2>2. status' \in [Mailboxes -> {"empty", "pending", "wire", "aborting"}]
    BY <1>6 DEF EvaluateTimeout, abort_all_transmissions, Aborted
  <2>3. retries' \in 0..SendRetries /\ timeout' \in 0..CounterLimit-1
    BY <1>6, SendAssumption DEF EvaluateTimeout, TryAgain, Return
  <2> QED BY <1>6, <2>1, <2>2, <2>3 DEF EvaluateTimeout, abort_all_transmissions, TryAgain, Return
<1>7. CASE EvaluateStatus
  <2>1. retries' \in 0..SendRetries /\ timeout' \in 0..CounterLimit-1
    BY <1>7, SendAssumption DEF EvaluateStatus, TryAgain, Return
  <2> QED BY <1>7, <2>1 DEF EvaluateStatus, TryAgain, Return, registers
<1>8. ASSUME NEW m \in Mailboxes, StartTx(m) PROVE SendTypeOK(Frame)'
  BY <1>8 DEF StartTx
<1>9. ASSUME NEW m \in Mailboxes, NEW ok \in BOOLEAN, Completed(m, ok)
      PROVE  /\ mailbox' \in [Mailboxes -> Numbered(Frame)]
             /\ status' \in [Mailboxes -> {"empty", "pending", "wire", "aborting"}]
             /\ rqcp0' \in BOOLEAN /\ txok0' \in BOOLEAN
  BY <1>9, NoFrameHasType DEF Completed, NoFrameTyped
<1>10. ASSUME NEW m \in Mailboxes, TxDone(m) PROVE SendTypeOK(Frame)'
  <2>1. mailbox[m].n \in Nat
    BY DEF Numbered
  <2> QED BY <1>9, <1>10, <2>1 DEF TxDone
<1>11. ASSUME NEW m \in Mailboxes, TxFailed(m) PROVE SendTypeOK(Frame)'
  <2>1. CASE status[m] = "aborting" /\ Completed(m, FALSE)
    BY <1>9, <1>11, <2>1 DEF TxFailed
  <2>2. CASE status' = [status EXCEPT ![m] = "pending"] /\ UNCHANGED <<mailbox, rqcp0, txok0>>
    BY <1>11, <2>2 DEF TxFailed
  <2> QED BY <1>11, <2>1, <2>2 DEF TxFailed
<1>12. CASE UNCHANGED sendVars
  BY <1>12 DEF sendVars, registers
<1> QED BY <1>1, <1>2, <1>3, <1>4, <1>5, <1>6, <1>7, <1>8, <1>10, <1>11, <1>12
        DEF SendStep, Controller

\* A step of the exchange sends frames, or is a step of CanSend, or of neither.
LEMMA SendsFrames ==
  ASSUME RepliesFit, ReplyInStep, [Next]_vars
  PROVE  \/ \E f \in Frame : Call(f)
         \/ SendStep
         \/ \E m \in Mailboxes : Controller(m)
         \/ UNCHANGED sendVars
<1>1. CASE ReplyFrame
  BY <1>1, ReplyFrameInStep
<1>2. CASE Sending
  BY <1>2 DEF Sending
<1>3. CASE StartTransmission \/ Transmission \/ FailTransmission
  BY <1>3 DEF StartTransmission, Transmission, FailTransmission, Controller
<1>4. CASE Request \/ SendFrame \/ ReadFrame \/ DatagramTimeOut
  BY <1>4 DEF Request, SendFrame, ReadFrame, DatagramTimeOut
<1>5. CASE ReplyEnds \/ OtherTransmission \/ UNCHANGED vars
  BY <1>5 DEF ReplyEnds, OtherTransmission, vars
<1> QED BY <1>1, <1>2, <1>3, <1>4, <1>5 DEF Next

LEMMA ReadTyped ==
  ASSUME buf \in [Sources -> Seq(Byte)], NEW src \in Sources, NEW f \in Frame,
         ReadDatagram(src, f)
  PROVE  buf' \in [Sources -> Seq(Byte)]
<1>1. f.data \in Seq(Byte) /\ Begun(src, f) \in Seq(Byte) /\ <<>> \in Seq(Byte)
  BY EmptySeq DEF Begun, Frame
<1>2. Begun(src, f) \o f.data \in Seq(Byte)
  BY <1>1, ConcatProperties
<1>3. PICK b \in Seq(Byte) : buf' = [buf EXCEPT ![src] = b]
  BY <1>1, <1>2 DEF ReadDatagram
<1> QED BY <1>3

LEMMA FaultTyped ==
  ASSUME faults \in 0..MaxFaults, Fault
  PROVE  faults' \in 0..MaxFaults /\ clean' \in BOOLEAN
<1>1. MaxFaults \in Nat
  BY ExchangeAssumption
<1>2. faults < MaxFaults /\ faults' = faults + 1 /\ clean' = FALSE
  BY DEF Fault
<1>3. faults' \in 0..MaxFaults
  BY <1>1, <1>2
<1> QED BY <1>2, <1>3

LEMMA TypeInitial == ASSUME RepliesFit PROVE Init => TypeInv
<1> SUFFICES ASSUME Init PROVE TypeInv
  OBVIOUS
<1>1. SendTypeOK(Frame)
  <2>1. 0 \in 0..CounterLimit-1 /\ 0 \in 0..SendRetries
    BY SendAssumption
  <2> QED BY <2>1, NoFrameHasType DEF Init, SendInit, SendTypeOK, NoFrameTyped
<1>2. other \in Seq(Frame)
  <2>1. other = FramesOfReply(OtherReply)
    BY DEF Init, FramesOfReply, Written, ReplyOf
  <2> QED BY <2>1, ReplyLayout DEF RepliesFit
<1>3. buf \in [Sources -> Seq(Byte)]
  <2>1. <<>> \in Seq(Byte)
    BY EmptySeq
  <2> QED BY <2>1 DEF Init
<1>4. Len(fifo) <= FifoDepth
  <2>1. fifo = <<>> /\ Len(<<>>) = 0
    BY EmptySeq DEF Init
  <2> QED BY <2>1, ExchangeAssumption
<1>5. /\ faults \in 0..MaxFaults /\ clean \in BOOLEAN
      /\ datagram_timeout_running \in BOOLEAN /\ undefined \in BOOLEAN
  <2>1. MaxFaults \in Nat
    BY ExchangeAssumption
  <2>2. faults = 0 /\ clean = TRUE /\ datagram_timeout_running = FALSE /\ undefined = FALSE
    BY DEF Init
  <2>3. faults \in 0..MaxFaults
    BY <2>1, <2>2
  <2> QED BY <2>2, <2>3
<1> QED BY <1>1, <1>2, <1>3, <1>4, <1>5 DEF TypeInv

LEMMA TypeKept ==
  ASSUME RepliesFit, LinkInv, ReplyInStep, TypeInv, [Next]_vars
  PROVE  TypeInv'
<1>1. SendTypeOK(Frame)'
  BY SendsFrames, SendTyped DEF TypeInv
<1>2. /\ fifo \in Seq(Frame \X Tag) /\ unsent \in Seq(Frame \X Tag)
      /\ Len(fifo) <= FifoDepth /\ other \in Seq(Frame) /\ buf \in [Sources -> Seq(Byte)]
      /\ datagram_timeout_running \in BOOLEAN /\ undefined \in BOOLEAN
      /\ faults \in 0..MaxFaults /\ clean \in BOOLEAN
  BY DEF LinkInv, LinkShape, TypeInv
<1>3. (Len(fifo) <= FifoDepth)'
  <2>1. CASE SendFrame
    <3>1. CASE fifo' = fifo
      BY <1>2, <3>1
    <3>2. CASE Len(fifo) < FifoDepth /\ fifo' = Append(fifo, Head(unsent))
      <4>1. Head(unsent) \in Frame \X Tag
        BY <1>2, <2>1, HeadTailProperties DEF SendFrame
      <4>2. Len(fifo') = Len(fifo) + 1 /\ Len(fifo) \in Nat
        BY <1>2, <3>2, <4>1, AppendProperties
      <4> QED BY <3>2, <4>2, ExchangeAssumption
    <3> QED BY <2>1, <3>1, <3>2, ClientPasses DEF SendFrame
  <2>2. CASE ReadFrame
    <3>1. fifo # <<>> /\ fifo' = Tail(fifo)
      BY <2>2 DEF ReadFrame, TakeFrame
    <3>2. Len(fifo') = Len(fifo) - 1 /\ Len(fifo) \in Nat
      BY <1>2, <3>1, HeadTailProperties
    <3> QED BY <1>2, <3>2, ExchangeAssumption
  <2>3. CASE UNCHANGED fifo
    BY <1>2, <2>3
  <2>4. SendFrame \/ ReadFrame \/ UNCHANGED fifo
    BY OtherBoardFiltered DEF Next, vars, Request, DatagramTimeOut, ReplyFrame, ReplyEnds, Sending,
       StartTransmission, Transmission, FailTransmission
  <2> QED BY <2>1, <2>2, <2>3, <2>4
<1>4. datagram_timeout_running' \in BOOLEAN /\ undefined' \in BOOLEAN
  <2>1. CASE ReadFrame
    BY <1>2, <2>1, ReadFrameIs DEF RunsOver, RunOver, Judges, Judge, GoesOn, Restart
  <2>2. CASE ~ReadFrame
    BY <1>2, <2>2 DEF Next, vars, board, Request, SendFrame, DatagramTimeOut, Restart,
       ReplyFrame, ReplyEnds, Sending, StartTransmission, Transmission, FailTransmission,
       OtherTransmission
  <2> QED BY <2>1, <2>2
<1>5. other' \in Seq(Frame) /\ buf' \in [Sources -> Seq(Byte)]
  <2>1. CASE Transmission
    <3>1. PICK m \in Mailboxes :
            ReadDatagram(Board, mailbox[m].frame) \/ UNCHANGED receiver
      BY <2>1 DEF Transmission
    <3>2. mailbox[m].frame \in Frame /\ Board \in Sources
      BY DEF TypeInv, SendTypeOK, Numbered, Sources
    <3>3. other' = other
      BY <2>1 DEF Transmission
    <3> QED BY <1>2, <3>1, <3>2, <3>3, ReadTyped DEF receiver
  <2>2. CASE OtherTransmission
    <3>1. other # <<>> /\ other' = Tail(other) /\ ReadDatagram(OtherBoard, Head(other))
      BY <2>2 DEF OtherTransmission
    <3>2. Head(other) \in Frame /\ Tail(other) \in Seq(Frame) /\ OtherBoard \in Sources
      BY <1>2, <3>1, HeadTailProperties DEF Sources
    <3> QED BY <1>2, <3>1, <3>2, ReadTyped
  <2>3. CASE UNCHANGED <<other, buf>>
    BY <1>2, <2>3
  <2>4. Transmission \/ OtherTransmission \/ UNCHANGED <<other, buf>>
    BY DEF Next, vars, receiver, Request, SendFrame, ReadFrame, DatagramTimeOut, ReplyFrame,
       ReplyEnds, Sending, StartTransmission, FailTransmission
  <2> QED BY <2>1, <2>2, <2>3, <2>4
<1>6. faults' \in 0..MaxFaults /\ clean' \in BOOLEAN
  <2>1. Fault \/ (faults' = faults /\ clean' \in {clean, TRUE, FALSE})
    BY DEF Next, vars, Request, SendFrame, ReadFrame, DatagramTimeOut, ReplyFrame,
       ReplyEnds, Sending, StartTransmission, Transmission, FailTransmission, OtherTransmission
  <2> QED BY <1>2, <2>1, FaultTyped
<1> QED BY <1>1, <1>3, <1>4, <1>5, <1>6 DEF TypeInv

LEMMA TypeInvariant ==
  ASSUME RepliesFit
  PROVE  Spec => []TypeInv
<1>1. LinkInv /\ ReplyInStep /\ TypeInv /\ [Next]_vars => TypeInv'
  BY TypeKept
<1> QED BY <1>1, TypeInitial, LinkInvariant, ReplyInvariant, PTL DEF Spec

\* Frames, sequence numbers, the buffers of both readers and the counters stay within
\* their types and bounds.
THEOREM TypeCorrect ==
  ASSUME RepliesFit
  PROVE  Spec => []TypeOK
<1>1. Spec => []TypeInv
  BY TypeInvariant
<1>2. LinkInv /\ ReplyInStep /\ TypeInv => TypeOK
  <2> SUFFICES ASSUME LinkInv, ReplyInStep, TypeInv PROVE TypeOK
    OBVIOUS
  <2>1. Shaped(dt) /\ dt \in Reader /\ ~Overrun(dt)
    BY DEF LinkInv, LinkShape, Shaped
  <2>2. /\ dt.dst_len \in Byte /\ dt.dst \in Seq(Byte) /\ Len(dt.dst) <= AddressSize
        /\ Len(dt.crc) = 4 /\ Len(dt.data_len) = 4 /\ Len(dt.data) <= InputSize
        /\ dt.reader_state \in {"version", "crc", "dst_len", "dst", "data_len", "data", "trailing"}
        /\ dt.crc_read <= 4 /\ dt.data_len_read <= 4
    BY <2>1 DEF Shaped, Reader, ReaderState, Overrun, Quad
  <2> QED BY <2>2 DEF LinkInv, LinkShape, ReplyInStep, TypeInv, TypeOK
<1> QED BY <1>1, <1>2, LinkInvariant, ReplyInvariant, PTL

---------------------------------------------------------------------------
(* While nothing is lost and the bus is in time, the client yields every answer *)

\* return_datagram() comes to the end of every reply: reply_length is a uint8_t, and 255
\* bytes of data take 34 frames, fewer than transmission_count allows.
RepliesShort ==
  /\ \A s \in Seq(Byte) : Len(FramesOfReply(Reply(s))) <= MaxTransmissions
  /\ Len(FramesOfReply(<<ERROR_CORRUPT_DATAGRAM>>)) <= MaxTransmissions

\* The frame of the call in progress has not been transmitted.
Waiting == pc \in {"abort", "transmit"} \/ (pc = "poll" /\ ~rqcp0)

\* How many frames of the reply the client has.
Arrived == IF Waiting THEN FramesSent - 1 ELSE FramesSent

OnlyRepliesSent == pc # "idle" => loop = "reply" /\ FramesSent > 0

\* A bus in time: a frame waits in mailbox 0 alone, is transmitted before the counter
\* runs out, and the call that sends it is told so.
InTime ==
  /\ (pc # "poll" \/ rqcp0) => \A m \in Mailboxes : status[m] = "empty"
  /\ (pc = "poll" /\ ~rqcp0) =>
       /\ status[0] \in {"pending", "wire"} /\ mailbox[0] = message
       /\ \A m \in Mailboxes \ {0} : status[m] = "empty"
  /\ pc \in {"poll", "evaluate"} => timeout > 0
  /\ (pc = "evaluate" \/ (pc = "poll" /\ rqcp0)) => rqcp0 /\ txok0
  /\ (loop = "reply" /\ pc = "idle") => start_of_datagram \/ returned

\* Of a reply to s the client has the first k frames.
Has(k, s) ==
  /\ k < Len(FramesOfReply(s)) => replies = Append(yielded, s)
  /\ (k > 0 /\ k < Len(FramesOfReply(s))) =>
       buf[Board] = SubSeq(Written(ReplyOf(s)), 1, 8 * k)
  /\ k = Len(FramesOfReply(s)) => yielded = replies

InTurn ==
  /\ loop = "read" => yielded = replies
  /\ loop = "reply" => /\ Len(FramesOfReply(writer.data)) <= MaxTransmissions
                       /\ Has(Arrived, writer.data)

AnswersInv == OnlyRepliesSent /\ (clean => InTime /\ InTurn)

\* What else is known of every state.
Surely == RepliesFit /\ RepliesShort /\ LinkInv /\ ReplyInStep /\ TypeInv

LEMMA FirstBytes ==
  ASSUME NEW W \in Seq(Byte), NEW n \in Nat, n <= Len(W)
  PROVE  /\ SubSeq(W, 1, n) \in Seq(Byte) /\ Len(SubSeq(W, 1, n)) = n
         /\ \A i \in 1..n : SubSeq(W, 1, n)[i] = W[i]
<1>1. Len(W) \in Nat
  OBVIOUS
<1>2. \A i \in 1..n : W[i] \in Byte
  <2>1. \A i \in 1..n : i \in 1..Len(W)
    BY <1>1
  <2> QED BY <2>1, ElementOfSeq
<1>3. /\ SubSeq(W, 1, n) \in Seq(Byte)
      /\ Len(SubSeq(W, 1, n)) = IF 1 <= n THEN n - 1 + 1 ELSE 0
      /\ \A i \in 1..n-1+1 : SubSeq(W, 1, n)[i] = W[1+i-1]
  BY <1>2, SubSeqProperties
<1> QED BY <1>3

IsBeginning(t, W, n) == t = SubSeq(W, 1, n)

\* B holds the first m bytes of W, and A the next ones up to n.
Continues(B, A, W, m, n) ==
  /\ W \in Seq(Byte) /\ m \in Nat /\ n \in Nat /\ m < n /\ n <= Len(W)
  /\ B \in Seq(Byte) /\ Len(B) = m /\ \A i \in 1..m : B[i] = W[i]
  /\ A \in Seq(Byte) /\ Len(A) = n - m /\ \A i \in 1..Len(A) : A[i] = W[m + i]

LEMMA JoinedPrefix ==
  ASSUME NEW W, NEW m, NEW n, NEW B, NEW A, Continues(B, A, W, m, n)
  PROVE  IsBeginning(B \o A, W, n)
<1> USE DEF Continues, IsBeginning
<1> PICK t : t = B \o A
  OBVIOUS
<1>1. t \in Seq(Byte)
  BY ConcatProperties
<1>2. Len(t) = n
  <2>1. Len(t) = Len(B) + Len(A)
    BY ConcatProperties
  <2> QED BY <2>1
<1>3. ASSUME NEW i \in 1..n PROVE t[i] = W[i]
  <2>1. CASE i <= m
    <3>1. i <= Len(B) /\ i \in 1..Len(B) + Len(A)
      BY <2>1
    <3>2. t[i] = B[i]
      BY <3>1, ConcatProperties
    <3> QED BY <2>1, <3>2
  <2>2. CASE i > m
    <3> PICK j \in Nat : j = i - m
      BY <2>2
    <3>1. ~(i <= Len(B)) /\ i \in 1..Len(B) + Len(A) /\ i - Len(B) = j
          /\ j \in 1..Len(A) /\ m + j = i
      BY <2>2
    <3>2. t[i] = A[j]
      BY <3>1, ConcatProperties, SMTT(60)
    <3>3. A[j] = W[m + j]
      BY <3>1
    <3> QED BY <3>1, <3>2, <3>3
  <2> QED BY <2>1, <2>2
<1>4. \A j \in 1..Len(t) : W[1 + j - 1] = t[j]
  BY <1>2, <1>3
<1>5. n = 1 + Len(t) - 1 /\ 1 \in Nat \ {0}
  BY <1>2
<1>6. SubSeq(W, 1, n) = t
  BY <1>1, <1>4, <1>5, PartOf
<1> QED BY <1>6

\* Where the frame k of C ends, in N bytes.
FrameEnds(n, k, C, N) ==
  /\ n \in Nat \ {0} /\ n <= N /\ 8 * (k - 1) \in Nat /\ 8 * (k - 1) < n
  /\ k < C => n = 8 * k /\ n < N /\ n - 8 * (k - 1) = 8
  /\ k = C => n = N

LEMMA FrameEnd ==
  ASSUME NEW N \in Nat, NEW C \in Nat, NEW k \in 1..C, N <= 8 * C, 8 * C < N + 8,
         NEW n, n = IF k < C THEN 8 * k ELSE N
  PROVE  FrameEnds(n, k, C, N)
<1>1. CASE k < C
  <2>1. k + 1 <= C
    BY <1>1
  <2>2. 8 * (k + 1) <= 8 * C
    BY <2>1
  <2> QED BY <1>1, <2>2 DEF FrameEnds
<1>2. CASE k = C
  BY <1>2 DEF FrameEnds
<1> QED BY <1>1, <1>2

\* The client puts the bytes of the reply together and decodes them when, and not
\* before, they are complete.
LEMMA FrameTaken ==
  ASSUME RepliesFit, NEW s, ReplyData(s), NEW k \in 1..Len(FramesOfReply(s)),
         buf \in [Sources -> Seq(Byte)],
         k > 1 => buf[Board] = SubSeq(Written(ReplyOf(s)), 1, 8 * (k - 1)),
         ReadDatagram(Board, FramesOfReply(s)[k])
  PROVE  /\ k < Len(FramesOfReply(s)) =>
              /\ buf'[Board] = SubSeq(Written(ReplyOf(s)), 1, 8 * k)
              /\ yielded' = yielded
         /\ k = Len(FramesOfReply(s)) => yielded' = Append(yielded, s)
<1> PICK r, W, F, f : /\ r = ReplyOf(s) /\ W = Written(r) /\ F = FramesOfReply(s)
                      /\ f = FramesOfReply(s)[k]
  OBVIOUS
<1>1. s \in Seq(Byte) /\ Len(s) < 256*256*256 /\ Fits(r) /\ r.data = s /\ r.dst = <<0>>
  BY ReplyFits DEF ReplyData, ReplyOf
<1>2. W \in Seq(Byte) /\ W # <<>> /\ Len(W) \in Nat \ {0}
  BY <1>1, WrittenBytes
<1>3. CutInto(F, W)
  BY <1>2, FramesOfBytes DEF FramesOfReply
<1>4. PICK N \in Nat, C \in Nat : N = Len(W) /\ C = Len(F)
  BY <1>2, <1>3 DEF CutInto
<1>5. /\ k \in 1..C /\ N <= 8 * C /\ 8 * C < N + 8
      /\ f.start <=> k = 1
      /\ f \in Frame
      /\ Len(f.data) = (IF k < C THEN 8 ELSE N - 8 * (k - 1))
      /\ \A i \in 1..Len(f.data) : f.data[i] = W[8 * (k - 1) + i]
  <2>1. k \in 1..C /\ f = F[k] /\ F \in Seq(Frame)
    BY <1>3, <1>4 DEF CutInto
  <2>2. N <= 8 * C /\ 8 * C < N + 8
    BY <1>3, <1>4 DEF CutInto
  <2>3. f \in Frame
    BY <1>4, <2>1, ElementOfSeq
  <2>4. /\ F[k].start <=> k = 1
        /\ Len(F[k].data) = (IF k < Len(F) THEN 8 ELSE Len(W) - 8 * (k - 1))
        /\ \A i \in 1..Len(F[k].data) : F[k].data[i] = W[8 * (k - 1) + i]
    BY <1>3, <1>4, <2>1 DEF CutInto
  <2> QED BY <1>4, <2>1, <2>2, <2>3, <2>4
<1> PICK n : n = IF k < C THEN 8 * k ELSE N
  OBVIOUS
<1>6. /\ n \in Nat \ {0} /\ n <= N /\ 8 * (k - 1) \in Nat /\ 8 * (k - 1) < n
      /\ k < C => n = 8 * k /\ n < N /\ n - 8 * (k - 1) = 8
      /\ k = C => n = N
  <2>1. FrameEnds(n, k, C, N)
    BY <1>5, FrameEnd, ZenonT(30)
  <2> QED BY <2>1 DEF FrameEnds
<1>7. f.data \in Seq(Byte)
  BY <1>5 DEF Frame
<1> PICK B, bytes : B = Begun(Board, f) /\ bytes = B \o f.data
  OBVIOUS
<1> PICK m \in Nat : m = 8 * (k - 1)
  BY <1>6
<1>8. B \in Seq(Byte) /\ Len(B) = m /\ \A i \in 1..m : B[i] = W[i]
  <2>1. CASE k = 1
    <3>1. B = <<>> /\ m = 0
      BY <1>5, <2>1 DEF Begun
    <3> QED BY <3>1, EmptySeq
  <2>2. CASE k > 1
    <3>1. ~f.start
      BY <1>5, <2>2
    <3>2. B = SubSeq(W, 1, m)
      BY <2>2, <3>1 DEF Begun
    <3>3. m <= Len(W)
      BY <1>4, <1>6
    <3> QED BY <1>2, <3>2, <3>3, FirstBytes
  <2>3. k = 1 \/ k > 1
    BY <1>5
  <2> QED BY <2>1, <2>2, <2>3
<1>9. bytes = SubSeq(W, 1, n)
  <2>1. Len(f.data) = n - m
    BY <1>4, <1>5, <1>6
  <2>2. \A i \in 1..Len(f.data) : f.data[i] = W[m + i]
    BY <1>5
  <2>3. n \in Nat /\ m < n /\ n <= Len(W)
    BY <1>4, <1>6
  <2>4. Len(B) = m /\ B \in Seq(Byte) /\ m \in Nat /\ f.data \in Seq(Byte) /\ W \in Seq(Byte)
        /\ \A i \in 1..m : B[i] = W[i]
    BY <1>2, <1>7, <1>8
  <2> PICK A : A = f.data
    OBVIOUS
  <2>5. A \in Seq(Byte) /\ Len(A) = n - m /\ \A i \in 1..Len(A) : A[i] = W[m + i]
    BY <2>1, <2>2, <2>4
  <2>6. Continues(B, A, W, m, n)
    BY <2>3, <2>4, <2>5 DEF Continues
  <2>7. IsBeginning(B \o A, W, n)
    BY <2>6, JoinedPrefix
  <2>8. B \o A = bytes
    OBVIOUS
  <2> QED BY <2>7, <2>8 DEF IsBeginning
<1>10. /\ buf' = [buf EXCEPT ![Board] = IF decode_datagram(bytes).valid THEN <<>> ELSE bytes]
       /\ yielded' = IF decode_datagram(bytes).valid
                     THEN Append(yielded, decode_datagram(bytes).data) ELSE yielded
  BY DEF ReadDatagram
<1>11. CASE k < C
  <2>1. decode_datagram(bytes) = NoDatagram
    <3>1. n \in Nat \ {0} /\ n < Len(encode_datagram(r.data, r.dst))
      BY <1>4, <1>6, <1>11 DEF Written
    <3> QED BY <1>1, <1>9, <3>1, BeginningIsNotDecoded, ZenonT(60) DEF Written
  <2>2. ~decode_datagram(bytes).valid
    BY <2>1 DEF NoDatagram
  <2>3. Board \in Sources
    BY DEF Sources
  <2> QED BY <1>4, <1>6, <1>9, <1>10, <1>11, <2>2, <2>3
<1>12. CASE k = C
  <2>1. bytes = W
    <3>1. n = Len(W) /\ n \in Nat /\ bytes \in Seq(Byte) /\ Len(bytes) = n
          /\ \A i \in 1..n : bytes[i] = W[i]
      BY <1>2, <1>4, <1>6, <1>9, <1>12, FirstBytes
    <3> QED BY <1>2, <3>1, SeqEqual
  <2>2. decode_datagram(bytes) = Decoded(s, <<0>>)
    BY <1>1, <2>1, EncodedIsDecoded DEF Written
  <2>3. decode_datagram(bytes).valid /\ decode_datagram(bytes).data = s
    BY <2>2 DEF Decoded
  <2> QED BY <1>4, <1>10, <1>12, <2>3
<1> QED BY <1>4, <1>5, <1>11, <1>12

\* A reply has a frame.
LEMMA FramesThere ==
  ASSUME RepliesFit, NEW s, ReplyData(s)
  PROVE  Len(FramesOfReply(s)) \in Nat \ {0}
<1>1. s \in Seq(Byte) /\ Len(s) < 256*256*256
  BY DEF ReplyData
<1> PICK W : W = Written(ReplyOf(s))
  OBVIOUS
<1>2. W \in Seq(Byte) /\ W # <<>>
  BY <1>1, ReplyFits, WrittenBytes
<1>3. CutInto(datagram_to_frames(W), W)
  BY <1>2, FramesOfBytes
<1> QED BY <1>3 DEF CutInto, FramesOfReply

\* What the board reads is a frame that was sent.
LEMMA HeadSent ==
  ASSUME LinkInv, fifo # <<>>
  PROVE  Head(fifo) \in Frame \X Tag /\ Sent(Head(fifo))
<1>1. fifo \in Seq(Frame \X Tag) /\ \A i \in 1..Len(fifo) : Sent(fifo[i])
  BY DEF LinkInv, LinkShape, TagsTrue
<1>2. Len(fifo) \in Nat \ {0} /\ Head(fifo) = fifo[1]
  BY <1>1, EmptySeq
<1> QED BY <1>1, <1>2, HeadTailProperties

\* Steps that leave the board's sending, its reply and what the client has of it alone.
LEMMA OthersAnswers ==
  ASSUME AnswersInv, UNCHANGED <<sendVars, reply, yielded>>, buf'[Board] = buf[Board],
         clean' => clean
  PROVE  AnswersInv'
<1>1. UNCHANGED <<status, mailbox, message, rqcp0, txok0, pc, timeout, returned, loop, writer,
                  transmission_count, start_of_datagram, replies>>
  BY DEF sendVars, registers, reply
<1>2. OnlyRepliesSent' /\ (InTime => InTime')
  BY <1>1 DEF AnswersInv, OnlyRepliesSent, InTime, FramesSent
<1>3. Arrived' = Arrived
  BY <1>1 DEF Arrived, Waiting, FramesSent
<1>4. InTurn => InTurn'
  BY <1>1, <1>3 DEF InTurn, Has
<1> QED BY <1>2, <1>4 DEF AnswersInv

LEMMA RequestAnswers ==
  ASSUME AnswersInv, Request
  PROVE  AnswersInv'
<1>1. /\ loop = "read" /\ pc = "idle"
      /\ UNCHANGED <<sendVars, loop, writer, transmission_count, start_of_datagram, buf>>
  BY DEF Request, AnswersInv, OnlyRepliesSent
<1>2. UNCHANGED <<status, mailbox, message, rqcp0, txok0, pc, timeout, returned>>
  BY <1>1 DEF sendVars, registers
<1>3. OnlyRepliesSent'
  BY <1>1, <1>2 DEF OnlyRepliesSent
<1>4. CASE \A m \in Mailboxes : ~Busy(m)
  <2>1. yielded' = replies'
    BY <1>4 DEF Request
  <2>2. InTime'
    BY <1>1, <1>2, <1>4 DEF InTime, Busy
  <2>3. InTurn'
    BY <1>1, <2>1 DEF InTurn
  <2> QED BY <1>3, <2>2, <2>3 DEF AnswersInv
<1>5. CASE ~(\A m \in Mailboxes : ~Busy(m))
  <2>1. ~clean
    BY <1>1, <1>5 DEF AnswersInv, InTime, Busy
  <2>2. clean' = clean
    BY <1>5 DEF Request
  <2> QED BY <1>3, <2>1, <2>2 DEF AnswersInv
<1> QED BY <1>4, <1>5

\* A new answer: none of its frames is sent.
LEMMA AnswerBegins ==
  ASSUME Surely, AnswersInv, NEW s, ReplyData(s), Answer(s), loop = "read",
         UNCHANGED <<sendVars, receiver>>,
         clean' => clean /\ Len(FramesOfReply(s)) <= MaxTransmissions
  PROVE  AnswersInv'
<1>1. /\ pc = "idle" /\ pc' = "idle"
      /\ UNCHANGED <<status, mailbox, message, rqcp0, txok0, pc, timeout, returned>>
      /\ yielded' = yielded
  BY DEF AnswersInv, OnlyRepliesSent, sendVars, registers, receiver
<1>2. /\ loop' = "reply" /\ transmission_count' = MaxTransmissions /\ start_of_datagram' = TRUE
      /\ replies' = Append(replies, s)
  BY DEF Answer
<1>3. writer'.data = s
  BY DEF Answer, NewWriter
<1>4. Arrived' = 0
  <2>1. ~Waiting'
    BY <1>1 DEF Waiting
  <2>2. FramesSent' = 0
    BY <1>2, ExchangeAssumption DEF FramesSent
  <2> QED BY <2>1, <2>2 DEF Arrived
<1>5. 0 < Len(FramesOfReply(s))
  <2>1. ReplyData(s) /\ RepliesFit
    BY DEF Surely
  <2> QED BY <2>1, FramesThere
<1>6. OnlyRepliesSent'
  BY <1>1 DEF OnlyRepliesSent
<1>7. ASSUME clean' PROVE InTime' /\ InTurn'
  <2>1. clean /\ InTime /\ InTurn /\ Len(FramesOfReply(s)) <= MaxTransmissions
    BY <1>7 DEF AnswersInv
  <2>2. InTime'
    BY <1>1, <1>2, <2>1 DEF InTime
  <2>3. replies' = Append(yielded', s)
    BY <1>1, <1>2, <2>1 DEF InTurn
  <2>4. Has(0, s)'
    BY <1>5, <2>3 DEF Has
  <2>5. Has(Arrived, writer.data)'
    BY <1>3, <1>4, <2>4 DEF Has
  <2> QED BY <1>2, <1>3, <2>1, <2>2, <2>5 DEF InTurn
<1> QED BY <1>6, <1>7 DEF AnswersInv

LEMMA ReadFrameAnswers ==
  ASSUME Surely, AnswersInv, ReadFrame
  PROVE  AnswersInv'
<1>1. /\ loop = "read" /\ UNCHANGED <<sendVars, receiver>> /\ clean' = clean
  BY DEF ReadFrame, TakeFrame
<1> PICK x : x = Head(fifo)
  OBVIOUS
<1>2. x \in Frame \X Tag /\ Sent(x)
  BY HeadSent DEF Surely, ReadFrame, TakeFrame
<1>3. PICK d \in Input(ReaderBefore(x), x[1].data) :
        \/ Execute(d) \/ Answer(<<ERROR_CORRUPT_DATAGRAM>>) \/ UNCHANGED reply
  BY ReadFrameIs DEF RunsOver, RunOver, Judges, Judge, GoesOn
<1>4. d.data \in Seq(Byte)
  BY <1>2, FrameTyped DEF Shaped, Reader, Surely
<1>5. CASE UNCHANGED reply
  BY <1>1, <1>5, OthersAnswers DEF receiver
<1>6. CASE Answer(Reply(d.data))
  <2>1. ReplyData(Reply(d.data)) /\ Len(FramesOfReply(Reply(d.data))) <= MaxTransmissions
    BY <1>4 DEF Surely, RepliesFit, RepliesShort, ReplyData
  <2> QED BY <1>1, <1>6, <2>1, AnswerBegins
<1>7. CASE Answer(<<ERROR_CORRUPT_DATAGRAM>>)
  <2>1. ReplyData(<<ERROR_CORRUPT_DATAGRAM>>)
    BY DEF ReplyData, ERROR_CORRUPT_DATAGRAM, Byte
  <2>2. Len(FramesOfReply(<<ERROR_CORRUPT_DATAGRAM>>)) <= MaxTransmissions
    BY DEF Surely, RepliesShort
  <2> QED BY <1>1, <1>7, <2>1, <2>2, AnswerBegins
<1> QED BY <1>3, <1>5, <1>6, <1>7 DEF Execute

LEMMA DatagramTimeOutAnswers ==
  ASSUME AnswersInv, DatagramTimeOut
  PROVE  AnswersInv'
<1>1. loop = "read" /\ pc = "idle" /\ pc' = pc /\ ~clean'
  BY DEF DatagramTimeOut, AnswersInv, OnlyRepliesSent, sendVars
<1> QED BY <1>1 DEF AnswersInv, OnlyRepliesSent

\* A call begins: its frame is one more that is sent, and one that has not arrived.
LEMMA ReplyFrameAnswers ==
  ASSUME Surely, AnswersInv, ReplyFrame
  PROVE  AnswersInv'
<1>1. /\ writer'.data = writer.data /\ FramesSent' = FramesSent + 1 /\ FramesSent \in Nat
  <2>1. RepliesFit /\ ReplyInStep
    BY DEF Surely
  <2>2. FramesSent \in Nat
    BY <2>1, ExchangeAssumption DEF ReplyInStep, FramesSent
  <2> QED BY <2>1, <2>2, ReplyFrameInStep
<1>2. /\ loop = "reply" /\ loop' = "reply" /\ pc = "idle" /\ pc' = "abort"
      /\ UNCHANGED <<status, mailbox, rqcp0, txok0, buf, yielded, replies, clean>>
  BY DEF ReplyFrame, Call, registers, receiver
<1>3. Arrived' = FramesSent /\ Arrived = FramesSent
  BY <1>1, <1>2 DEF Arrived, Waiting
<1>4. OnlyRepliesSent'
  BY <1>1, <1>2 DEF OnlyRepliesSent
<1>5. ASSUME clean' PROVE InTime' /\ InTurn'
  <2>1. InTime /\ InTurn
    BY <1>2, <1>5 DEF AnswersInv
  <2>2. InTime'
    BY <1>2, <2>1 DEF InTime
  <2>3. InTurn'
    BY <1>1, <1>2, <1>3, <2>1 DEF InTurn, Has
  <2> QED BY <2>2, <2>3
<1> QED BY <1>4, <1>5 DEF AnswersInv

LEMMA ReplyEndsAnswers ==
  ASSUME Surely, AnswersInv, ReplyEnds
  PROVE  AnswersInv'
<1>1. /\ loop = "reply" /\ loop' = "read" /\ pc = "idle" /\ pc' = "idle"
      /\ UNCHANGED <<status, mailbox, rqcp0, txok0, yielded, replies, clean>>
  BY DEF ReplyEnds, sendVars, registers, receiver
<1>2. ASSUME clean PROVE InTime' /\ InTurn'
  <2>1. InTime /\ InTurn
    BY <1>2 DEF AnswersInv
  <2>2. InTime'
    BY <1>1, <2>1 DEF InTime
  <2>3. start_of_datagram \/ returned
    BY <1>1, <2>1 DEF InTime
  <2> PICK s, F : s = writer.data /\ F = Len(FramesOfReply(s))
    OBVIOUS
  <2>4. Arrived = FramesSent /\ F <= MaxTransmissions /\ Has(FramesSent, s)
    BY <1>1, <2>1 DEF Arrived, Waiting, InTurn
  <2>5. FramesSent = F
    <3>1. CASE transmission_count # 0
      BY <2>3, <3>1, AllWritten DEF Surely
    <3>2. CASE transmission_count = 0
      <4>1. RepliesFit /\ ReplyInStep /\ ReplyData(s)
        BY DEF Surely, ReplyInStep
      <4>2. F \in Nat \ {0}
        BY <4>1, FramesThere
      <4>3. FramesSent = MaxTransmissions /\ MaxTransmissions \in Nat
        BY <3>2, ExchangeAssumption DEF FramesSent
      <4>4. FramesSent > 0 => FramesSent \in 1..F
        BY <1>1, <4>1 DEF ReplyInStep
      <4> QED BY <2>4, <4>2, <4>3, <4>4
    <3> QED BY <3>1, <3>2
  <2>6. yielded = replies
    BY <2>4, <2>5 DEF Has
  <2> QED BY <1>1, <2>2, <2>6 DEF InTurn
<1> QED BY <1>1, <1>2 DEF AnswersInv, OnlyRepliesSent

\* The sending function, on a bus in time: it is never at the last poll, and is told
\* that its frame was transmitted.
LEMMA SendingInTime ==
  ASSUME TypeInv, InTime, Sending, ~Slow
  PROVE  InTime' /\ (Waiting' <=> Waiting) /\ pc # "idle"
<1>1. /\ status \in [Mailboxes -> {"empty", "pending", "wire", "aborting"}]
      /\ mailbox \in [Mailboxes -> Numbered(Frame)]
      /\ timeout \in 0..CounterLimit-1 /\ pc \in {"idle", "abort", "transmit", "poll", "evaluate"}
  BY DEF TypeInv, SendTypeOK
<1>2. UNCHANGED <<loop, start_of_datagram>>
  BY DEF Sending, reply
<1>3. CASE Abort
  <2>1. \A m \in Mailboxes : status'[m] = "empty"
    BY <1>1, <1>3 DEF Abort, abort_all_transmissions, Aborted, InTime
  <2> QED BY <1>3, <2>1 DEF Abort, InTime, Waiting
<1>4. CASE Transmit
  <2>1. /\ pc = "transmit" /\ pc' = "poll" /\ timeout' = Polls /\ message' = message
        /\ \A m \in Mailboxes : status[m] = "empty"
    BY <1>4 DEF Transmit, InTime
  <2>2. /\ mailbox' = [mailbox EXCEPT ![0] = message]
        /\ status' = [status EXCEPT ![0] = "pending"] /\ rqcp0' = FALSE
    <3>1. ~(\A m \in Mailboxes : Busy(m))
      BY <2>1 DEF Busy, Mailboxes
    <3>2. PICK m \in Mailboxes :
            /\ ~Busy(m) /\ \A k \in Mailboxes : k < m => Busy(k)
            /\ mailbox' = [mailbox EXCEPT ![m] = message]
            /\ status' = [status EXCEPT ![m] = "pending"]
            /\ IF m = 0 THEN rqcp0' = FALSE /\ txok0' = FALSE
                        ELSE UNCHANGED <<rqcp0, txok0>>
      BY <1>4, <3>1 DEF Transmit
    <3>3. m = 0
      BY <2>1, <3>2 DEF Busy, Mailboxes
    <3> QED BY <3>2, <3>3
  <2>3. /\ status'[0] = "pending" /\ mailbox'[0] = message
        /\ \A m \in Mailboxes \ {0} : status'[m] = "empty"
    BY <1>1, <2>1, <2>2 DEF Mailboxes
  <2>4. timeout' > 0
    BY <2>1, SendAssumption
  <2> QED BY <2>1, <2>2, <2>3, <2>4 DEF InTime, Waiting
<1>5. CASE PollAgain
  <2>1. /\ pc = "poll" /\ ~rqcp0 /\ timeout > 0 /\ timeout # 1
        /\ timeout' = (timeout + CounterLimit - 1) % CounterLimit
        /\ UNCHANGED <<mailbox, status, rqcp0, txok0, message>>
    BY <1>5 DEF PollAgain, Decremented, Slow, InTime, registers
  <2>2. timeout' = timeout - 1 /\ timeout' > 0
    BY <1>1, <2>1, SendAssumption
  <2>3. pc' = "poll"
    BY <1>5, <2>1 DEF PollAgain
  <2> QED BY <2>1, <2>2, <2>3 DEF InTime, Waiting
<1>6. CASE Complete
  BY <1>6 DEF Complete, InTime, Waiting, registers
<1>7. CASE EvaluateTimeout
  BY <1>1, <1>7 DEF EvaluateTimeout, InTime
<1>8. CASE EvaluateStatus
  <2>1. pc = "evaluate" /\ Return(TRUE) /\ UNCHANGED <<mailbox, status, rqcp0, txok0, message>>
    BY <1>8 DEF EvaluateStatus, Successful, InTime, registers
  <2> QED BY <2>1 DEF Return, InTime, Waiting
<1> QED BY <1>3, <1>4, <1>5, <1>6, <1>7, <1>8 DEF Sending, SendStep

LEMMA SendingAnswers ==
  ASSUME Surely, AnswersInv, Sending
  PROVE  AnswersInv'
<1>1. UNCHANGED <<loop, writer, transmission_count, buf, yielded, replies>>
      /\ FramesSent' = FramesSent
  BY DEF Sending, reply, receiver, FramesSent
<1>2. pc # "idle"
  BY DEF Sending, SendStep, Abort, Transmit, PollAgain, Complete, EvaluateTimeout, EvaluateStatus
<1>3. OnlyRepliesSent'
  BY <1>1, <1>2 DEF AnswersInv, OnlyRepliesSent
<1>4. ASSUME clean' PROVE InTime' /\ InTurn'
  <2>1. clean /\ ~Slow
    BY <1>4 DEF Sending, Fault
  <2>2. InTime /\ InTurn /\ TypeInv
    BY <2>1 DEF AnswersInv, Surely
  <2>3. InTime' /\ (Waiting' <=> Waiting)
    BY <2>1, <2>2, SendingInTime
  <2>4. Arrived' = Arrived
    BY <1>1, <2>3 DEF Arrived
  <2> QED BY <1>1, <2>2, <2>3, <2>4 DEF InTurn, Has
<1> QED BY <1>3, <1>4 DEF AnswersInv

\* On a bus in time only mailbox 0 has a frame, that of the call that polls.
LEMMA OnlyTheCall ==
  ASSUME InTime, NEW m \in Mailboxes, status[m] # "empty"
  PROVE  m = 0 /\ pc = "poll" /\ ~rqcp0
BY DEF InTime

LEMMA StartAnswers ==
  ASSUME Surely, AnswersInv, StartTransmission
  PROVE  AnswersInv'
<1> PICK m \in Mailboxes : StartTx(m)
  BY DEF StartTransmission
<1>1. /\ UNCHANGED <<mailbox, rqcp0, txok0, pc, message, timeout, returned, loop, writer,
                     transmission_count, start_of_datagram, replies, buf, yielded, clean>>
      /\ status[m] = "pending" /\ status' = [status EXCEPT ![m] = "wire"]
      /\ status \in [Mailboxes -> {"empty", "pending", "wire", "aborting"}]
  BY DEF StartTransmission, StartTx, reply, receiver, Surely, TypeInv, SendTypeOK
<1>2. OnlyRepliesSent' /\ Arrived' = Arrived
  BY <1>1 DEF AnswersInv, OnlyRepliesSent, FramesSent, Arrived, Waiting
<1>3. ASSUME clean' PROVE InTime' /\ InTurn'
  <2>1. InTime /\ InTurn
    BY <1>1, <1>3 DEF AnswersInv
  <2>2. m = 0 /\ pc = "poll" /\ ~rqcp0
    BY <1>1, <2>1, OnlyTheCall
  <2>3. status'[0] = "wire" /\ \A k \in Mailboxes \ {0} : status'[k] = status[k]
    BY <1>1, <2>2
  <2>4. InTime'
    BY <1>1, <2>1, <2>2, <2>3 DEF InTime
  <2>5. InTurn'
    BY <1>1, <1>2, <2>1 DEF InTurn, Has
  <2> QED BY <2>4, <2>5
<1> QED BY <1>2, <1>3 DEF AnswersInv

LEMMA FailAnswers ==
  ASSUME AnswersInv, FailTransmission
  PROVE  AnswersInv'
<1>1. UNCHANGED <<pc, loop, transmission_count>> /\ ~clean'
  BY DEF FailTransmission, TxFailed, Fault, reply
<1> QED BY <1>1 DEF AnswersInv, OnlyRepliesSent, FramesSent

\* A frame of the reply reaches the client: one more than before.
LEMMA TransmissionAnswers ==
  ASSUME Surely, AnswersInv, Transmission
  PROVE  AnswersInv'
<1> PICK m \in Mailboxes :
      /\ TxDone(m)
      /\ \/ ReadDatagram(Board, mailbox[m].frame) /\ UNCHANGED <<faults, clean>>
         \/ Fault /\ UNCHANGED receiver
  BY DEF Transmission
<1>1. /\ UNCHANGED <<pc, message, timeout, returned, loop, writer,
                     transmission_count, start_of_datagram, replies>>
      /\ status[m] # "empty" /\ Completed(m, TRUE)
      /\ status \in [Mailboxes -> {"empty", "pending", "wire", "aborting"}]
  BY DEF Transmission, TxDone, OnBus, reply, Surely, TypeInv, SendTypeOK
<1>2. OnlyRepliesSent' /\ FramesSent' = FramesSent
  BY <1>1 DEF AnswersInv, OnlyRepliesSent, FramesSent
<1>3. ASSUME clean' PROVE InTime' /\ InTurn'
  <2>1. clean /\ ReadDatagram(Board, mailbox[m].frame)
    BY <1>3 DEF Fault
  <2>2. InTime /\ InTurn /\ OnlyRepliesSent
    BY <2>1 DEF AnswersInv
  <2>3. m = 0 /\ pc = "poll" /\ ~rqcp0
    BY <1>1, <2>2, OnlyTheCall
  <2>4. /\ status' = [status EXCEPT ![0] = "empty"] /\ rqcp0' = TRUE /\ txok0' = TRUE
        /\ mailbox[0] = message
        /\ \A k \in Mailboxes : status'[k] = "empty"
    BY <1>1, <2>2, <2>3 DEF Completed, InTime
  <2>5. InTime'
    BY <1>1, <2>2, <2>3, <2>4 DEF InTime
  <2> PICK s, k, F : s = writer.data /\ k = FramesSent /\ F = Len(FramesOfReply(s))
    OBVIOUS
  <2>6. /\ loop = "reply" /\ k > 0 /\ RepliesFit /\ ReplyInStep /\ ReplyData(s)
        /\ buf \in [Sources -> Seq(Byte)]
    BY <2>2, <2>3 DEF OnlyRepliesSent, Surely, ReplyInStep, TypeInv
  <2>7. k \in 1..F /\ message.frame = FramesOfReply(s)[k]
    BY <2>6 DEF ReplyInStep
  <2>8. Arrived = k - 1 /\ Arrived' = k
    BY <1>1, <1>2, <2>3, <2>4 DEF Arrived, Waiting
  <2>9. F <= MaxTransmissions /\ Has(k - 1, s)
    BY <2>2, <2>6, <2>8 DEF InTurn
  <2>10. F \in Nat \ {0}
    BY <2>6, FramesThere
  <2>11. k - 1 < F /\ k \in Nat /\ (k > 1 => k - 1 > 0)
    BY <2>7, <2>10
  <2>12. /\ replies = Append(yielded, s)
         /\ k > 1 => buf[Board] = SubSeq(Written(ReplyOf(s)), 1, 8 * (k - 1))
    BY <2>9, <2>11 DEF Has
  <2>13. ReadDatagram(Board, FramesOfReply(s)[k])
    BY <2>1, <2>3, <2>4, <2>7
  <2>14. /\ k < F => /\ buf'[Board] = SubSeq(Written(ReplyOf(s)), 1, 8 * k)
                     /\ yielded' = yielded
         /\ k = F => yielded' = Append(yielded, s)
    BY <2>6, <2>7, <2>12, <2>13, FrameTaken
  <2>15. Has(k, s)'
    BY <1>1, <2>12, <2>14 DEF Has
  <2>16. Has(Arrived, writer.data)'
    BY <1>1, <2>8, <2>15 DEF Has
  <2>17. InTurn'
    BY <1>1, <2>6, <2>9, <2>16 DEF InTurn
  <2> QED BY <2>5, <2>17
<1> QED BY <1>2, <1>3 DEF AnswersInv

LEMMA OtherAnswers ==
  ASSUME Surely, AnswersInv, OtherTransmission
  PROVE  AnswersInv'
<1>1. Board # OtherBoard /\ ReadDatagram(OtherBoard, Head(other))
      /\ UNCHANGED <<sendVars, reply, clean>>
  BY ExchangeAssumption DEF OtherTransmission
<1>2. yielded' = yielded
  BY <1>1 DEF ReadDatagram
<1>3. buf'[Board] = buf[Board]
  <2>1. buf \in [Sources -> Seq(Byte)] /\ Board \in Sources
    BY DEF Surely, TypeInv, Sources
  <2> PICK b : buf' = [buf EXCEPT ![OtherBoard] = b]
    BY <1>1 DEF ReadDatagram
  <2> QED BY <1>1, <2>1
<1> QED BY <1>1, <1>2, <1>3, OthersAnswers

LEMMA AnswersKept ==
  ASSUME Surely, AnswersInv, [Next]_vars
  PROVE  AnswersInv'
<1>1. CASE Request
  BY <1>1, RequestAnswers
<1>2. CASE SendFrame
  BY <1>2, OthersAnswers DEF SendFrame, receiver, Fault
<1>3. CASE ReadFrame
  BY <1>3, ReadFrameAnswers
<1>4. CASE DatagramTimeOut
  BY <1>4, DatagramTimeOutAnswers
<1>5. CASE ReplyFrame
  BY <1>5, ReplyFrameAnswers
<1>6. CASE ReplyEnds
  BY <1>6, ReplyEndsAnswers
<1>7. CASE Sending
  BY <1>7, SendingAnswers
<1>8. CASE StartTransmission \/ FailTransmission
  BY <1>8, StartAnswers, FailAnswers
<1>9. CASE Transmission
  BY <1>9, TransmissionAnswers
<1>10. CASE OtherTransmission
  BY <1>10, OtherAnswers
<1>11. CASE UNCHANGED vars
  BY <1>11, OthersAnswers DEF vars, receiver
<1> QED BY <1>1, <1>2, <1>3, <1>4, <1>5, <1>6, <1>7, <1>8, <1>9, <1>10, <1>11 DEF Next

LEMMA AnswersInitial == Init => AnswersInv
<1> SUFFICES ASSUME Init PROVE AnswersInv
  OBVIOUS
<1>1. pc = "idle" /\ loop = "read" /\ yielded = replies
      /\ \A m \in Mailboxes : status[m] = "empty"
  BY DEF Init, SendInit
<1> QED BY <1>1 DEF AnswersInv, OnlyRepliesSent, InTime, InTurn

\* As long as no frame is lost or late, the client yields every answer of the board, in
\* order and in its turn, whatever earlier losses left in the readers of both
\* (return_datagram(), can_interface_send_message(), read_can_datagrams()).
THEOREM AnswersYielded ==
  ASSUME RepliesFit, RepliesShort
  PROVE  Spec => []AnswersInTurn
<1>1. LinkInv /\ ReplyInStep /\ TypeInv => Surely
  BY DEF Surely
<1>2. Surely /\ AnswersInv /\ [Next]_vars => AnswersInv'
  BY AnswersKept
<1>3. Surely /\ AnswersInv => AnswersInTurn
  <2> SUFFICES ASSUME Surely, AnswersInv, clean
               PROVE  \/ yielded = replies
                      \/ loop = "reply" /\ replies = Append(yielded, writer.data)
    BY DEF AnswersInTurn
  <2> PICK s, k, F : s = writer.data /\ k = FramesSent /\ F = Len(FramesOfReply(s))
    OBVIOUS
  <2>1. InTurn /\ OnlyRepliesSent /\ loop \in {"read", "reply"} /\ ReplyData(s) /\ RepliesFit
    BY DEF AnswersInv, Surely, ReplyInStep
  <2>2. CASE loop = "read"
    BY <2>1, <2>2 DEF InTurn
  <2>3. CASE loop = "reply"
    <3>1. F \in Nat \ {0}
      BY <2>1, FramesThere
    <3>2. k \in Nat /\ (k > 0 => k \in 1..F)
      BY <2>3, ExchangeAssumption DEF Surely, ReplyInStep, FramesSent
    <3>3. Has(Arrived, s) /\ Arrived \in {k, k - 1}
      BY <2>1, <2>3 DEF InTurn, Arrived
    <3>4. Arrived < F \/ Arrived = F
      BY <3>1, <3>2, <3>3
    <3> QED BY <2>3, <3>3, <3>4 DEF Has
  <2> QED BY <2>1, <2>2, <2>3
<1> QED BY <1>1, <1>2, <1>3, AnswersInitial, LinkInvariant, ReplyInvariant, TypeInvariant, PTL
        DEF Spec
=============================================================================
