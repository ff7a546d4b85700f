------------------------------ MODULE Datagram ------------------------------
(***************************************************************************)
(* The datagram codec, twice: the reader and writer of the boards, byte by *)
(* byte (can_datagram.c), and the encoder and decoder of the client        *)
(* (client/can/datagram.py).                                               *)
(*                                                                         *)
(* A datagram is: version, CRC, number of destinations, destinations,      *)
(* length of the data, data.  CRC and length take four bytes, most         *)
(* significant first; a uint32_t is the sequence of its four bytes.        *)
(***************************************************************************)
EXTENDS Integers, Sequences

CONSTANTS Crc(_),         \* crc32() of a sequence of bytes, as four bytes
          InputSize,      \* INPUT_BUFFER_SIZE
          AddressSize     \* of the buffer for the destinations, addr_buf: 128

ASSUME DatagramAssumption ==
  /\ InputSize \in Nat \ {0} /\ InputSize < 256*256*256
  /\ AddressSize \in Nat \ {0}

Byte == 0..255
Quad == {u \in Seq(Byte) : Len(u) = 4}
CAN_DATAGRAM_VERSION == 1
FrameBytes == 8
Frame == [start : BOOLEAN, data : Seq(Byte)]

\* What a decoder yields when there is nothing (yet).
NoDatagram == [valid |-> FALSE]
Decoded(data, dst) == [valid |-> TRUE, data |-> data, dst |-> dst]

\* The bytes of a number below 2^24.
Bytes(n) == <<0, n \div 65536, (n \div 256) % 256, n % 256>>

\* The number a uint32_t holds; from 2^24 on, longer than any buffer.
Value(u) == IF u[1] > 0 THEN 256*256*256 ELSE (u[2] * 256 + u[3]) * 256 + u[4]

\* The checksum of a datagram, as those who write one compute it.
Checksum(data, dst) == Crc(<<Len(dst)>> \o dst \o Bytes(Len(data)) \o data)

\* What can be written as a datagram: its lists are as long as a byte and three bytes
\* can tell, and its checksum is of four bytes.
Fits(r) ==
  /\ r.dst \in Seq(Byte) /\ Len(r.dst) \in Byte
  /\ r.data \in Seq(Byte) /\ Len(r.data) < 256*256*256
  /\ Checksum(r.data, r.dst) \in Quad

\* What the boards can read of it: they take a byte too many for a list without
\* elements, and have so much room.
Readable(r) ==
  /\ r.dst # <<>> /\ Len(r.dst) <= AddressSize
  /\ r.data # <<>> /\ Len(r.data) <= InputSize

\* u << 8 | val
Shift(u, val) == Append(Tail(u), val)

---------------------------------------------------------------------------
(* The reader of the boards *)

\* Mutant: the bytes of the last length that were read are still counted.
Start_LengthKept(dt) ==
  [dt EXCEPT !.reader_state = "version", !.crc = <<17, 34, 51, 68>>, !.crc_read = 0,
             !.dst = <<>>, !.data = <<>>]

\* can_datagram_start()
Start(dt) ==
  [dt EXCEPT !.reader_state = "version", !.crc = <<17, 34, 51, 68>>, !.crc_read = 0,
             !.dst = <<>>, !.data_len_read = 0, !.data = <<>>]

\* can_datagram_init() and the first can_datagram_start().  dst and data hold what
\* was read of the two lists; the counters of bytes read are their lengths.
InitialReader ==
  [reader_state |-> "version", version |-> CAN_DATAGRAM_VERSION, crc |-> <<17, 34, 51, 68>>,
   crc_read |-> 0, dst_len |-> 0, dst |-> <<>>, data_len |-> <<0, 0, 0, 0>>,
   data_len_read |-> 0, data |-> <<>>]

\* Mutant: the list of destinations takes a byte too many.
DstComplete_Late(dt) == Len(dt.dst) > dt.dst_len

\* The list of destinations is tested for its end only after a byte was stored.
DstComplete(dt) == Len(dt.dst) >= dt.dst_len

\* So is the data, which ends with the buffer as well.
DataComplete(dt) == Len(dt.data) >= Value(dt.data_len) \/ Len(dt.data) >= InputSize

Goto(dt, state, condition) == IF condition THEN [dt EXCEPT !.reader_state = state] ELSE dt

\* can_datagram_input_byte().  Nothing keeps the destinations within their buffer: when
\* there are more, the reader is in the state "overrun", which is not one of the code;
\* what it writes to, and does, from there on is not told by the code.
input_byte(dt, val) ==
  CASE dt.reader_state = "version" ->
         [dt EXCEPT !.version = val, !.reader_state = "crc"]
    [] dt.reader_state = "crc" ->
         LET d == [dt EXCEPT !.crc = Shift(@, val), !.crc_read = @ + 1]
         IN Goto(d, "dst_len", d.crc_read >= 4)
    [] dt.reader_state = "dst_len" ->
         [dt EXCEPT !.dst_len = val, !.reader_state = "dst"]
    [] dt.reader_state = "dst" /\ Len(dt.dst) >= AddressSize ->
         [dt EXCEPT !.reader_state = "overrun"]
    [] dt.reader_state = "dst" /\ Len(dt.dst) < AddressSize ->
         LET d == [dt EXCEPT !.dst = Append(@, val)]
         IN Goto(d, "data_len", DstComplete(d))
    [] dt.reader_state = "data_len" ->
         LET d == [dt EXCEPT !.data_len = Shift(@, val), !.data_len_read = @ + 1]
         IN Goto(d, "data", d.data_len_read >= 4)
    [] dt.reader_state = "data" ->
         LET d == [dt EXCEPT !.data = Append(@, val)]
         IN Goto(d, "trailing", DataComplete(d))
    [] OTHER -> dt

\* The reader (the one element of the set) before and after each byte of a frame.
Readings(dt, bytes) ==
  LET after[i \in 0..Len(bytes)] ==
        IF i = 0 THEN {dt} ELSE {input_byte(d, bytes[i]) : d \in after[i-1]}
  IN after

Input(dt, bytes) == Readings(dt, bytes)[Len(bytes)]

is_complete(dt) == dt.reader_state = "trailing"

Overrun(dt) == dt.reader_state = "overrun"

\* The data did not fit in its buffer: the CRC is that of what follows the buffer in
\* memory, too.
OverRead(dt) == is_complete(dt) /\ Len(dt.data) < Value(dt.data_len)

\* can_datagram_compute_crc(), when it stays within the buffer.
Prefix(s, n) == SubSeq(s, 1, n)

CrcMatches(dt) ==
  dt.crc = Crc(<<dt.dst_len>> \o Prefix(dt.dst, dt.dst_len)
                 \o dt.data_len \o Prefix(dt.data, Value(dt.data_len)))

\* Mutant: any complete datagram is valid.
is_valid_Complete(dt) == is_complete(dt)

is_valid(dt) ==
  is_complete(dt) /\ CrcMatches(dt) /\ dt.version = CAN_DATAGRAM_VERSION

\* What can_datagram_is_valid() may yield: what follows the buffer may match.
Verdicts(dt) == IF OverRead(dt) THEN BOOLEAN ELSE {is_valid(dt)}

\* The reader, said of all the bytes since its start.  A list takes a byte at least.
Taken(n) == IF n = 0 THEN 1 ELSE n

\* More destinations than there is room for.
Overruns(bytes) == Len(bytes) > 6 + AddressSize /\ Taken(bytes[6]) > AddressSize

\* More data than there is room for, and as much of it as there is.
OverReads(bytes) ==
  LET n == 6 + Taken(bytes[6])
  IN /\ Len(bytes) >= 6 /\ Taken(bytes[6]) <= AddressSize
     /\ Len(bytes) >= n + 4 + InputSize
     /\ Value(SubSeq(bytes, n + 1, n + 4)) > InputSize

\* A valid datagram.
Accepts(bytes) ==
  LET dst_len == bytes[6]
      n == 6 + Taken(dst_len)  \* bytes before the length of the data
      data_len == SubSeq(bytes, n + 1, n + 4)
      size == Value(data_len)
  IN /\ Len(bytes) >= 6 /\ Len(bytes) >= n + 4
     /\ Taken(dst_len) <= AddressSize
     /\ size <= InputSize /\ Len(bytes) >= n + 4 + Taken(size)
     /\ bytes[1] = CAN_DATAGRAM_VERSION
     /\ SubSeq(bytes, 2, 5) = Crc(<<dst_len>> \o SubSeq(bytes, 7, 6 + dst_len)
                                    \o data_len \o SubSeq(bytes, n + 5, n + 4 + size))

---------------------------------------------------------------------------
(* The writer of the boards *)

\* A datagram to write, as return_datagram() sets it up.
NewWriter(dst, data) ==
  [writer_state |-> "version", dst |-> dst, data |-> data,
   crc |-> Checksum(data, dst),
   written |-> 0, buffer |-> <<>>]

\* One byte goes out; `written' counts those of the current field, which is over
\* when there are n of them.
Put(w, byte, n, next) ==
  [w EXCEPT !.buffer = Append(@, byte),
            !.written = IF w.written + 1 >= n THEN 0 ELSE w.written + 1,
            !.writer_state = IF w.written + 1 >= n THEN next ELSE @]

\* One turn of the loop in can_datagram_output_bytes().
output_byte(w) ==
  CASE w.writer_state = "version" -> Put(w, CAN_DATAGRAM_VERSION, 1, "crc")
    [] w.writer_state = "crc" -> Put(w, w.crc[w.written + 1], 4, "dst_len")
    [] w.writer_state = "dst_len" -> Put(w, Len(w.dst), 1, "dst")
    [] w.writer_state = "dst" -> Put(w, w.dst[w.written + 1], Len(w.dst), "data_len")
    [] w.writer_state = "data_len" -> Put(w, Bytes(Len(w.data))[w.written + 1], 4, "data")
    [] w.writer_state = "data" ->
         IF w.written >= Len(w.data) THEN [w EXCEPT !.writer_state = "trailing"]
         ELSE [w EXCEPT !.buffer = Append(@, w.data[w.written + 1]), !.written = @ + 1]
    [] OTHER -> w

\* The writer (the one element of the set) before and after each turn of that loop,
\* which fills an empty buffer of a frame's length.
Writings(w) ==
  LET after[i \in 0..FrameBytes] ==
        IF i = 0 THEN {[w EXCEPT !.buffer = <<>>]}
                 ELSE {output_byte(x) : x \in after[i-1]}
  IN after

\* can_datagram_output_bytes()
output_bytes(w) == Writings(w)[FrameBytes]

---------------------------------------------------------------------------
(* The client *)

encode_datagram(data, dst) ==
  <<CAN_DATAGRAM_VERSION>> \o Checksum(data, dst) \o <<Len(dst)>> \o dst
    \o Bytes(Len(data)) \o data

\* Mutant: nothing is checked.
Damaged_Never(crc, dst, data_len, data) == FALSE

\* if len(data) < data_len, or the CRC differs.  It is that of all the bytes there
\* are, the length of the data being counted and not read: with a byte too many it
\* does not match.
Damaged(crc, dst, data_len, data) ==
  \/ Len(data) < Value(data_len)
  \/ crc # Checksum(data, dst)

\* The bytes of s from n on.
From(s, n) == SubSeq(s, n, Len(s))

\* decode_datagram() of what was received from one source so far, which is not
\* empty.
decode_datagram(bytes) ==
  IF bytes[1] # CAN_DATAGRAM_VERSION \/ Len(bytes) < 6 THEN NoDatagram
  ELSE LET dst_len == bytes[6]
           dst == SubSeq(bytes, 7, 6 + dst_len)
           data == From(bytes, 11 + dst_len)
       IN IF \/ Len(bytes) < 10 + dst_len
             \/ Damaged(SubSeq(bytes, 2, 5), dst, SubSeq(bytes, 7 + dst_len, 10 + dst_len), data)
          THEN NoDatagram
          ELSE Decoded(data, dst)

\* Frames of up to eight bytes, the last one never empty.
FrameCount(datagram) == (Len(datagram) + FrameBytes - 1) \div FrameBytes

\* datagram_to_frames(): only the first frame has the start bit.
datagram_to_frames(datagram) ==
  [k \in 1..FrameCount(datagram) |->
     [start |-> k = 1,
      data |-> SubSeq(datagram, FrameBytes * (k - 1) + 1,
                      IF k < FrameCount(datagram) THEN FrameBytes * k ELSE Len(datagram))]]
=============================================================================
