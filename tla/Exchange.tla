------------------------------ MODULE Exchange ------------------------------
(***************************************************************************)
(* A client and a board exchanging datagrams over a CAN bus that loses     *)
(* frames: the client cuts its request into frames, the main loop of the   *)
(* board (bootloader.c) reads them byte by byte, executes a valid datagram *)
(* addressed to it and answers through return_datagram() and               *)
(* can_interface_send_message() (CanSend), and read_can_datagrams()        *)
(* (client/cvra_bootloader/utils.py) puts the answers together, while      *)
(* another board is answering too.                                         *)
(*                                                                         *)
(* The board may run past its buffers over what it receives.  What it does *)
(* from then on is not modelled: it is undefined.                          *)
(***************************************************************************)
EXTENDS Datagram, CanSend

CONSTANTS Board,           \* the ID of the board
          OtherBoard,      \* the ID of another one, whose replies are on the bus too
          Requests,        \* the requests the client may send: [dst, data]
          Reply(_),        \* the reply to the data of a request
          OtherReply,      \* the data of the reply of the other board
          MaxTransmissions,\* return_datagram(): 100
          FifoDepth,       \* bound: frames of the client the board has not read
          MaxRequests,     \* bound: requests sent
          MaxFaults        \* bound: frames lost or tried again, or late

\* The ID the client sends with: every board reads its frames.
Broadcast == 0

ASSUME ExchangeAssumption ==
  /\ Board \in Byte /\ OtherBoard \in Byte \ {Board, Broadcast}
  /\ MaxTransmissions \in Nat /\ FifoDepth \in Nat \ {0}
  /\ {MaxRequests, MaxFaults} \subseteq Nat
  /\ NoPayload \in Frame

ASSUME RequestsAssumption == \A r \in Requests : Fits(r)

\* Codes of error.h.
ERROR_CORRUPT_DATAGRAM == 2
ERROR_DATAGRAM_TIMEOUT == 6

VARIABLES
  unsent,                    \* frames of the request the client still has to send
  fifo,                      \* frames the board has not read yet
  dt,                        \* the reader of the board
  undefined,                 \* has it run past one of its buffers?
  datagram_timeout_running,
  loop,                      \* main loop: "read", or "reply" in return_datagram()
  writer, transmission_count, start_of_datagram,
  other,                     \* frames the other board still has to send
  buf                        \* read_can_datagrams(): bytes by source

\* Auxiliary variables.
VARIABLES
  requests,    \* requests sent so far
  arrived,     \* tags of the frames read since the reader was started: the number
               \* of their request, and their place in it
  verdict,     \* on the last datagram that came to its end
  replies,     \* what the board answered since the last request that found the bus idle
  yielded,     \* what the client's reader yielded for the board since then
  clean,       \* since then, has no frame been lost, tried again or late?
  faults

client == <<unsent, requests>>
board == <<dt, undefined, datagram_timeout_running, arrived, verdict>>
reply == <<loop, writer, transmission_count, start_of_datagram, replies>>
receiver == <<buf, yielded>>
vars == <<sendVars, client, fifo, board, reply, other, receiver, faults, clean>>

Tag == [request : 1..MaxRequests, place : Nat]
NoTag == [request |-> 0, place |-> 0]  \* of a frame no client sent
Sources == {Board, OtherBoard}

\* The frames of a request.
FramesOf == [r \in Requests |-> datagram_to_frames(encode_datagram(r.data, r.dst))]

\* The frame of a tag, when the requests are those of rs.
FrameOf(rs, tag) == FramesOf[rs[tag.request]][tag.place]

\* Do these frames begin with all those of a request?  They may be of several ones: a
\* request that is sent again completes what arrived of it the first time.
BeginsWhole(rs, tags) ==
  LET frames == FramesOf[rs[tags[1].request]]
  IN /\ Len(tags) >= Len(frames)
     /\ \A i \in 1..Len(frames) : FrameOf(rs, tags[i]) = frames[i]

Whole(tags) ==
  BeginsWhole(requests, tags) /\ Len(tags) = Len(FramesOf[requests[tags[1].request]])

NoVerdict == [valid |-> FALSE, tags |-> <<>>, dst |-> <<>>, data |-> <<>>]

TypeOK ==
  /\ SendTypeOK(Frame)
  /\ unsent \in Seq(Frame \X Tag) /\ fifo \in Seq(Frame \X Tag) /\ Len(fifo) <= FifoDepth
  /\ dt.dst_len \in Byte /\ dt.dst \in Seq(Byte) /\ Len(dt.dst) <= AddressSize
  /\ Len(dt.crc) = 4 /\ Len(dt.data_len) = 4 /\ Len(dt.data) <= InputSize
  /\ dt.reader_state \in {"version", "crc", "dst_len", "dst", "data_len", "data", "trailing"}
  /\ dt.reader_state # "trailing" => dt.crc_read <= 4 /\ dt.data_len_read <= 4
  /\ undefined \in BOOLEAN
  /\ datagram_timeout_running \in BOOLEAN
  /\ loop \in {"read", "reply"}
  /\ transmission_count \in 0..MaxTransmissions /\ start_of_datagram \in BOOLEAN
  /\ buf \in [Sources -> Seq(Byte)]
  /\ requests \in Seq(Requests) /\ Len(requests) <= MaxRequests
  /\ arrived \in Seq(Tag)
  /\ faults \in 0..MaxFaults /\ clean \in BOOLEAN

Init ==
  /\ SendInit
  /\ unsent = <<>> /\ fifo = <<>>
  /\ dt = InitialReader /\ undefined = FALSE /\ datagram_timeout_running = FALSE
  /\ loop = "read" /\ writer = NewWriter(<<0>>, <<>>)
  /\ transmission_count = 0 /\ start_of_datagram = FALSE
  /\ other = datagram_to_frames(encode_datagram(OtherReply, <<0>>))
  /\ buf = [s \in Sources |-> <<>>]
  /\ requests = <<>> /\ arrived = <<>> /\ verdict = NoVerdict
  /\ replies = <<>> /\ yielded = <<>>
  /\ faults = 0 /\ clean = TRUE

\* can_set_filters(): the IDs, without the start bit, whose frames the board receives.
Filters == {Broadcast, Board}

\* A frame with this ID is on the bus.
Received(id, f) == IF id \in Filters THEN Append(fifo, f) ELSE fifo

Fault ==
  /\ faults < MaxFaults /\ faults' = faults + 1
  /\ clean' = FALSE

---------------------------------------------------------------------------
(* The client sends *)

\* write_command().  The client waits for an answer, for seconds, before it sends
\* its next request.
Request ==
  /\ unsent = <<>> /\ fifo = <<>> /\ loop = "read" /\ Len(requests) < MaxRequests
  /\ \E r \in Requests :
       /\ requests' = Append(requests, r)
       /\ unsent' = [i \in 1..Len(FramesOf[r]) |->
                       <<FramesOf[r][i], [request |-> Len(requests) + 1, place |-> i]>>]
  /\ IF \A m \in Mailboxes : ~Busy(m)
     THEN replies' = <<>> /\ yielded' = <<>> /\ clean' = TRUE
     ELSE UNCHANGED <<replies, yielded, clean>>
  /\ UNCHANGED <<sendVars, fifo, board, loop, writer, transmission_count, start_of_datagram,
                 other, buf, faults>>

SendFrame ==
  /\ unsent # <<>> /\ unsent' = Tail(unsent)
  /\ \/ /\ Len(fifo) < FifoDepth
        /\ fifo' = Received(Broadcast, Head(unsent))
        /\ UNCHANGED <<faults, clean>>
     \/ Fault /\ UNCHANGED fifo
  /\ UNCHANGED <<sendVars, requests, board, reply, other, receiver>>

---------------------------------------------------------------------------
(* The main loop of the board *)

\* return_datagram() begins.
Answer(data) ==
  /\ loop' = "reply"
  /\ writer' = NewWriter(<<0>>, data)
  /\ transmission_count' = MaxTransmissions
  /\ start_of_datagram' = TRUE
  /\ replies' = Append(replies, data)

\* Begin a new datagram; the timer waits for its start frame.
Restart ==
  /\ dt' = Start(dt)
  /\ datagram_timeout_running' = FALSE
  /\ arrived' = <<>>

\* A valid datagram is executed if this node is amongst its destinations.
Execute(d) ==
  IF \E i \in 1..d.dst_len : d.dst[i] = Board
  THEN Answer(Reply(d.data))
  ELSE UNCHANGED reply

\* The board runs past one of its buffers over the datagram of these frames.  It may
\* take it for valid, or not.
RunOver(tags) ==
  /\ undefined' = TRUE
  /\ \E valid \in BOOLEAN :
       verdict' = [valid |-> valid, tags |-> tags, dst |-> <<>>, data |-> <<>>]
  /\ UNCHANGED <<dt, arrived, datagram_timeout_running, reply>>

\* A datagram d came to its end, and can_datagram_is_valid() told so much of it.
Judge(d, valid, tags) ==
  /\ Restart
  /\ verdict' = [valid |-> valid, tags |-> tags, dst |-> d.dst, data |-> d.data]
  /\ \/ valid /\ Execute(d)
     \/ ~valid /\ Answer(<<ERROR_CORRUPT_DATAGRAM>>)
  /\ UNCHANGED undefined

TakeFrame == ~undefined /\ loop = "read" /\ fifo # <<>> /\ fifo' = Tail(fifo)

ReadFrame ==
  /\ TakeFrame
  /\ LET frame == Head(fifo)[1]
         tag == Head(fifo)[2]
         tags == IF frame.start THEN <<tag>> ELSE Append(arrived, tag)
     IN \E d \in Input(IF frame.start THEN Start(dt) ELSE dt, frame.data) :
        \/ Overrun(d) /\ RunOver(tags)
        \/ /\ ~Overrun(d) /\ (is_complete(d) \/ Len(frame.data) < FrameBytes)
           /\ \E valid \in Verdicts(d) : IF valid /\ OverRead(d) THEN RunOver(tags)
                                       ELSE Judge(d, valid, tags)
        \/ /\ ~Overrun(d) /\ ~is_complete(d) /\ Len(frame.data) = FrameBytes
           /\ dt' = d /\ arrived' = tags
           /\ datagram_timeout_running' = (datagram_timeout_running \/ frame.start)
           /\ UNCHANGED <<undefined, verdict, reply>>
  /\ UNCHANGED <<sendVars, client, other, receiver, faults, clean>>

\* The datagram timeout: BootLoop says when; here, whenever the client is slow.
DatagramTimeOut ==
  /\ ~undefined /\ loop = "read" /\ fifo = <<>> /\ datagram_timeout_running
  /\ Answer(<<ERROR_DATAGRAM_TIMEOUT>>)
  /\ Restart
  /\ clean' = FALSE
  /\ UNCHANGED <<sendVars, client, fifo, undefined, verdict, other, receiver, faults>>

\* One turn of the loop in return_datagram().
ReplyFrame ==
  /\ loop = "reply" /\ pc = "idle"
  /\ start_of_datagram \/ returned
  /\ transmission_count > 0 /\ transmission_count' = transmission_count - 1
  /\ \E w \in output_bytes(writer) :
       /\ w.buffer # <<>>
       /\ writer' = w
       /\ Call([start |-> start_of_datagram, data |-> w.buffer])
  /\ start_of_datagram' = FALSE
  /\ UNCHANGED <<client, fifo, board, loop, replies, other, receiver, faults, clean>>

\* The loop ends: the datagram is written, or sending a frame failed.
ReplyEnds ==
  /\ loop = "reply" /\ pc = "idle"
  /\ \/ ~start_of_datagram /\ ~returned
     \/ transmission_count = 0
     \/ \E w \in output_bytes(writer) : w.buffer = <<>>
  /\ loop' = "read"
  /\ writer' = NewWriter(<<0>>, <<>>) /\ transmission_count' = 0 /\ start_of_datagram' = FALSE
  /\ UNCHANGED <<sendVars, client, fifo, board, replies, other, receiver, faults, clean>>

---------------------------------------------------------------------------
(* can_interface_send_message(), the controller and the bus *)

\* The bus is slow when a frame is not transmitted before the last poll but one.
Slow == pc = "poll" /\ ~rqcp0 /\ timeout = 1

Sending ==
  /\ SendStep
  /\ IF Slow THEN Fault ELSE UNCHANGED <<faults, clean>>
  /\ UNCHANGED <<client, fifo, board, reply, other, receiver>>

StartTransmission ==
  /\ \E m \in Mailboxes : StartTx(m)
  /\ UNCHANGED <<client, fifo, board, reply, other, receiver, faults, clean>>

FailTransmission ==
  /\ \E m \in Mailboxes : TxFailed(m)
  /\ Fault
  /\ UNCHANGED <<client, fifo, board, reply, other, receiver>>

\* Mutant: a start frame is appended to what is left of the datagram before it.
Begun_Kept(src, frame) == buf[src]

\* The bytes of this source, without those before a start frame.
Begun(src, frame) == IF frame.start THEN <<>> ELSE buf[src]

\* read_can_datagrams() takes a frame.  The adapters queue them in order, so that
\* it may as well be taken when it is received.
ReadDatagram(src, frame) ==
  LET bytes == Begun(src, frame) \o frame.data
      datagram == decode_datagram(bytes)
  IN /\ buf' = [buf EXCEPT ![src] = IF datagram.valid THEN <<>> ELSE bytes]
     /\ yielded' = IF datagram.valid /\ src = Board
                   THEN Append(yielded, datagram.data) ELSE yielded

\* A frame of the board is on the bus.  The client may fail to receive it.
Transmission ==
  /\ \E m \in Mailboxes :
       /\ TxDone(m)
       /\ \/ ReadDatagram(Board, mailbox[m].frame) /\ UNCHANGED <<faults, clean>>
          \/ Fault /\ UNCHANGED receiver
  /\ UNCHANGED <<client, fifo, board, reply, other>>

\* A frame of the other board.  Both ends receive what their filters let pass.
OtherTransmission ==
  /\ \A m \in Mailboxes : ~OnBus(m)
  /\ other # <<>> /\ other' = Tail(other)
  /\ ReadDatagram(OtherBoard, Head(other))
  /\ fifo' = Received(OtherBoard, <<Head(other), NoTag>>)
  /\ UNCHANGED <<sendVars, client, board, reply, faults, clean>>

Next == \/ Request \/ SendFrame
        \/ ReadFrame \/ DatagramTimeOut \/ ReplyFrame \/ ReplyEnds \/ Sending
        \/ StartTransmission \/ Transmission \/ FailTransmission \/ OtherTransmission

\* The client sends what it began to send, the board never stops, and the bus is
\* free again and again.
Spec ==
  /\ Init /\ [][Next]_vars
  /\ WF_vars(SendFrame)
  /\ WF_fifo(TakeFrame) /\ WF_vars(ReplyFrame \/ ReplyEnds) /\ WF_sendVars(SendStep)
  /\ WF_sendVars(\E m \in Mailboxes : StartTx(m) \/ TxDone(m))

---------------------------------------------------------------------------
(* What the bus may make of the requests *)

TagsOf(rs) ==
  UNION {{[request |-> n, place |-> k] : k \in 1..Len(FramesOf[rs[n]])} : n \in 1..Len(rs)}

Before(s, t) == \/ s.request < t.request
                \/ s.request = t.request /\ s.place < t.place

\* Frames the board may read as one datagram: in the order they were sent in, with
\* no start frame but the first one and none that is not full but the last one.
Splice(rs, tags) ==
  /\ \A i, j \in 1..Len(tags) : i < j => Before(tags[i], tags[j])
  /\ \A i \in 1..Len(tags) :
       /\ i > 1 => ~FrameOf(rs, tags[i]).start
       /\ i < Len(tags) => Len(FrameOf(rs, tags[i]).data) = FrameBytes

SpliceLength(rs, tags) ==
  FrameBytes * (Len(tags) - 1) + Len(FrameOf(rs, tags[Len(tags)]).data)

\* Which of full frames has the byte n, and where.
FrameWith(n) == (n - 1) \div FrameBytes + 1
PlaceIn(n) == ((n - 1) % FrameBytes) + 1

BytesOf(rs, tags) ==
  [n \in 1..SpliceLength(rs, tags) |-> FrameOf(rs, tags[FrameWith(n)]).data[PlaceIn(n)]]

\* The checksum tells what the bus made of the requests from the requests: of their
\* splices, only those that begin with a request are accepted.
NoCollision ==
  \A rs \in UNION {[1..n -> Requests] : n \in 1..MaxRequests} :
    \A tags \in UNION {[1..k -> TagsOf(rs)] : k \in 1..Cardinality(TagsOf(rs))} :
      (Splice(rs, tags) /\ Accepts(BytesOf(rs, tags))) =>
        BeginsWhole(rs, tags) /\ Readable(rs[tags[1].request])

---------------------------------------------------------------------------
(* Properties *)

\* The board's reader accepts a datagram that arrived whole, with its destinations
\* and its data, whatever was lost or left of the datagrams before it.
WholeAccepted ==
  (verdict.tags # <<>> /\ Whole(verdict.tags)) =>
    LET r == requests[verdict.tags[1].request]
    IN Readable(r) => verdict.valid /\ verdict.dst = r.dst /\ verdict.data = r.data

\* ... and no other, whichever of its frames were lost, and none that it cannot read:
\* one without destinations or data, or with more than it has room for; unless it runs
\* past a buffer over them, which nothing in the code prevents.
OthersRefused ==
  (verdict.tags # <<>> /\ verdict.valid /\ ~undefined) =>
    Whole(verdict.tags) /\ Readable(requests[verdict.tags[1].request])

\* The board stays within its buffers as long as no frame is lost and the last request
\* is one that it can read, whatever was lost before, or left in its reader.  (Otherwise
\* it need not: after a lost start frame it takes any byte for the number of destinations,
\* and bytes of data for destinations; and the lengths of a request are not tested.)
StaysInBounds ==
  [][(~undefined /\ undefined') => ~clean \/ ~Readable(requests[Len(requests)])]_vars

\* What the client takes for an answer of the board is one, whole, and none is
\* taken twice or before an earlier one: for all the frames lost, sent twice or
\* left out by the board, and those of the other board in between.
Embeds(s, t) == \E f \in [1..Len(s) -> 1..Len(t)] :
                  /\ \A i \in 1..Len(s) : s[i] = t[f[i]]
                  /\ \A i, j \in 1..Len(s) : i < j => f[i] < f[j]

RepliesIntact == Embeds(yielded, replies)

\* As long as no frame is lost or late, the client has yielded every answer of the board
\* but the one that is being sent, each in its turn, whatever the exchange before left in
\* the readers of both.
AnswersInTurn ==
  clean => \/ yielded = replies
           \/ loop = "reply" /\ replies = Append(yielded, writer.data)

\* If nothing is lost and the bus is in time, every answer of the board is yielded
\* by the client, whatever the exchange before left in the readers of both.
Answered == (clean /\ replies # yielded) ~> (replies = yielded \/ ~clean)
=============================================================================
