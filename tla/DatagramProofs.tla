--------------------------- MODULE DatagramProofs ---------------------------
(***************************************************************************)
(* The three codecs of Datagram.tla agree with each other, for datagrams   *)
(* of any length and whatever the checksum: the boards read what the       *)
(* client writes, and write frame by frame what the client would, and the  *)
(* client reads what it writes.                                            *)
(***************************************************************************)
EXTENDS Datagram, SequenceTheorems, TLAPS

---------------------------------------------------------------------------
(* A request on the wire *)

\* The big-endian bytes of a length, and back.
LEMMA BytesOfLength ==
  ASSUME NEW n \in Nat, n < 256*256*256
  PROVE  /\ Bytes(n) \in Quad
         /\ Value(Bytes(n)) = n
<1>1. PICK low \in 0..255, q \in Nat : n = 256 * q + low /\ n % 256 = low /\ n \div 256 = q
  OBVIOUS
<1>2. PICK mid \in 0..255, high \in Nat : q = 256 * high + mid /\ q % 256 = mid /\ q \div 256 = high
  OBVIOUS
<1>3. n = 65536 * high + (256 * mid + low) /\ 256 * mid + low \in Nat /\ 256 * mid + low < 65536
  BY <1>1, <1>2, Z3T(60)
<1>4. n \div 65536 = high /\ high \in 0..255
  BY <1>2, <1>3, Z3T(60)
<1>5. Bytes(n) = <<0, high, mid, low>>
  BY <1>1, <1>2, <1>4 DEF Bytes
<1>6. Bytes(n) \in Quad
  BY <1>4, <1>5 DEF Quad, Byte
<1> QED BY <1>1, <1>2, <1>5, <1>6 DEF Value

\* What a concatenation is, element by element.
LEMMA Concatenation ==
  ASSUME NEW s \in Seq(Byte), NEW t \in Seq(Byte)
  PROVE  /\ s \o t \in Seq(Byte) /\ Len(s \o t) = Len(s) + Len(t)
         /\ \A j \in 1..Len(s) : (s \o t)[j] = s[j]
         /\ \A j \in 1..Len(t) : (s \o t)[Len(s)+j] = t[j]
<1>1. Len(s) \in Nat /\ Len(t) \in Nat
  OBVIOUS
<1>2. /\ s \o t \in Seq(Byte) /\ Len(s \o t) = Len(s) + Len(t)
      /\ \A i \in 1..Len(s) + Len(t) :
           (s \o t)[i] = IF i <= Len(s) THEN s[i] ELSE t[i - Len(s)]
  BY ConcatProperties
<1> DEFINE st == s \o t
<1> HIDE DEF st
<1>3. ASSUME NEW j \in 1..Len(s) PROVE st[j] = s[j]
  BY <1>1, <1>2 DEF st
<1>4. ASSUME NEW j \in 1..Len(t) PROVE st[Len(s)+j] = t[j]
  <2>1. Len(s)+j \in 1..Len(s) + Len(t) /\ ~(Len(s)+j <= Len(s)) /\ Len(s)+j - Len(s) = j
    BY <1>1
  <2> QED BY <1>2, <2>1 DEF st
<1> QED BY <1>2, <1>3, <1>4 DEF st

\* The bytes of the datagram of a request, or of a reply.
Written(r) == encode_datagram(r.data, r.dst)

LEMMA DatagramLayout ==
  ASSUME NEW r, Fits(r)
  PROVE  /\ Written(r) \in Seq(Byte)
         /\ Len(Written(r)) = 10 + Len(r.dst) + Len(r.data)
         /\ Written(r)[1] = CAN_DATAGRAM_VERSION
         /\ \A j \in 1..4 : Written(r)[1+j] = Checksum(r.data, r.dst)[j]
         /\ Written(r)[6] = Len(r.dst)
         /\ \A j \in 1..Len(r.dst) : Written(r)[6+j] = r.dst[j]
         /\ \A j \in 1..4 : Written(r)[6+Len(r.dst)+j] = Bytes(Len(r.data))[j]
         /\ \A j \in 1..Len(r.data) : Written(r)[10+Len(r.dst)+j] = r.data[j]
<1> DEFINE C == Checksum(r.data, r.dst)
           B == Bytes(Len(r.data))
           s1 == <<CAN_DATAGRAM_VERSION>> \o C
           s2 == s1 \o <<Len(r.dst)>>
           s3 == s2 \o r.dst
           s4 == s3 \o B
           s5 == s4 \o r.data
<1>1. r.dst \in Seq(Byte) /\ Len(r.dst) \in Byte /\ r.data \in Seq(Byte) /\ C \in Quad
  BY DEF Fits
<1>2. B \in Quad
  <2>1. Len(r.data) \in Nat /\ Len(r.data) < 256*256*256
    BY <1>1 DEF Fits
  <2> QED BY <2>1, BytesOfLength
<1>3. Written(r) = s5
  BY DEF Written, encode_datagram
<1>4. <<CAN_DATAGRAM_VERSION>> \in Seq(Byte) /\ <<Len(r.dst)>> \in Seq(Byte)
      /\ Len(<<CAN_DATAGRAM_VERSION>>) = 1 /\ Len(<<Len(r.dst)>>) = 1
  BY <1>1 DEF CAN_DATAGRAM_VERSION, Byte
<1> HIDE DEF C, B
<1>5. s1 \in Seq(Byte) /\ Len(s1) = 5 /\ s1[1] = CAN_DATAGRAM_VERSION
      /\ \A j \in 1..4 : s1[1+j] = C[j]
  <2> DEFINE v == <<CAN_DATAGRAM_VERSION>>
  <2> HIDE DEF v
  <2>1. v \in Seq(Byte) /\ Len(v) = 1 /\ C \in Seq(Byte) /\ Len(C) = 4 /\ v[1] = CAN_DATAGRAM_VERSION
    BY <1>1, <1>4 DEF Quad, v
  <2>2. /\ v \o C \in Seq(Byte) /\ Len(v \o C) = Len(v) + Len(C)
        /\ \A j \in 1..Len(v) : (v \o C)[j] = v[j]
        /\ \A j \in 1..Len(C) : (v \o C)[Len(v)+j] = C[j]
    BY <2>1, Concatenation
  <2>3. s1 = v \o C
    BY DEF v
  <2> HIDE DEF s1
  <2> QED BY <2>1, <2>2, <2>3, SMTT(60)
<1> HIDE DEF s1
<1>6. s2 \in Seq(Byte) /\ Len(s2) = 6 /\ s2[6] = Len(r.dst) /\ \A j \in 1..5 : s2[j] = s1[j]
  <2> DEFINE v == <<Len(r.dst)>>
  <2> HIDE DEF v
  <2>1. v \in Seq(Byte) /\ Len(v) = 1 /\ v[1] = Len(r.dst)
    BY <1>4 DEF v
  <2>2. /\ s1 \o v \in Seq(Byte) /\ Len(s1 \o v) = Len(s1) + Len(v)
        /\ \A j \in 1..Len(s1) : (s1 \o v)[j] = s1[j]
        /\ \A j \in 1..Len(v) : (s1 \o v)[Len(s1)+j] = v[j]
    BY <1>5, <2>1, Concatenation
  <2>3. s2 = s1 \o v
    BY DEF v
  <2> HIDE DEF s2
  <2>4. s2[Len(s1)+1] = v[1]
    BY <2>1, <2>2, <2>3
  <2> QED BY <1>5, <2>1, <2>2, <2>3, <2>4, SMTT(60)
<1> HIDE DEF s2
<1>7. s3 \in Seq(Byte) /\ Len(s3) = 6 + Len(r.dst) /\ (\A j \in 1..6 : s3[j] = s2[j])
      /\ \A j \in 1..Len(r.dst) : s3[6+j] = r.dst[j]
  <2>1. /\ s3 \in Seq(Byte) /\ Len(s3) = Len(s2) + Len(r.dst)
        /\ \A j \in 1..Len(s2) : s3[j] = s2[j]
        /\ \A j \in 1..Len(r.dst) : s3[Len(s2)+j] = r.dst[j]
    BY <1>1, <1>6, Concatenation
  <2> HIDE DEF s3
  <2> QED BY <1>6, <2>1
<1> HIDE DEF s3
<1>8. s4 \in Seq(Byte) /\ Len(s4) = Len(s3) + 4 /\ (\A j \in 1..Len(s3) : s4[j] = s3[j])
      /\ \A j \in 1..4 : s4[Len(s3)+j] = B[j]
  <2>1. B \in Seq(Byte) /\ Len(B) = 4
    BY <1>2 DEF Quad
  <2>2. /\ s4 \in Seq(Byte) /\ Len(s4) = Len(s3) + Len(B)
        /\ \A j \in 1..Len(s3) : s4[j] = s3[j]
        /\ \A j \in 1..Len(B) : s4[Len(s3)+j] = B[j]
    BY <1>7, <2>1, Concatenation
  <2> HIDE DEF s4
  <2> QED BY <2>1, <2>2
<1> HIDE DEF s4
<1>9. s5 \in Seq(Byte) /\ Len(s5) = Len(s4) + Len(r.data) /\ (\A j \in 1..Len(s4) : s5[j] = s4[j])
      /\ \A j \in 1..Len(r.data) : s5[Len(s4)+j] = r.data[j]
  BY <1>1, <1>8, Concatenation
<1> HIDE DEF s5
<1>10. /\ Len(r.dst) \in Nat /\ Len(r.data) \in Nat
       /\ Len(s3) = 6 + Len(r.dst) /\ Len(s4) = 10 + Len(r.dst)
  <2>1. Len(r.dst) \in Nat /\ Len(r.data) \in Nat
    BY <1>1
  <2> QED BY <1>7, <1>8, <2>1
<1>11. Written(r) \in Seq(Byte) /\ Len(Written(r)) = 10 + Len(r.dst) + Len(r.data)
  BY <1>3, <1>9, <1>10
<1>12. \A j \in 1..6 : s5[j] = s2[j]
  <2>1. ASSUME NEW j \in 1..6 PROVE s5[j] = s2[j]
    <3>1. j \in 1..Len(s3) /\ j \in 1..Len(s4)
      BY <1>10
    <3> QED BY <1>7, <1>8, <1>9, <3>1
  <2> QED BY <2>1
<1>13. Written(r)[1] = CAN_DATAGRAM_VERSION /\ Written(r)[6] = Len(r.dst)
  BY <1>3, <1>5, <1>6, <1>12
<1>14. \A j \in 1..4 : Written(r)[1+j] = C[j]
  BY <1>3, <1>5, <1>6, <1>12
<1>15. ASSUME NEW j \in 1..Len(r.dst) PROVE s5[6+j] = r.dst[j]
  <2>1. 6+j \in 1..Len(s3) /\ 6+j \in 1..Len(s4)
    BY <1>10
  <2> QED BY <1>7, <1>8, <1>9, <2>1, ZenonT(60)
<1>16. ASSUME NEW j \in 1..4 PROVE s5[6+Len(r.dst)+j] = B[j]
  <2>1. 6+Len(r.dst)+j \in 1..Len(s4)
    BY <1>10
  <2> QED BY <1>8, <1>9, <1>10, <2>1, ZenonT(60)
<1>17. ASSUME NEW j \in 1..Len(r.data) PROVE s5[10+Len(r.dst)+j] = r.data[j]
  BY <1>9, <1>10
<1> QED BY <1>3, <1>11, <1>13, <1>14, <1>15, <1>16, <1>17 DEF C, B

\* A datagram is never empty.
LEMMA WrittenBytes ==
  ASSUME NEW r, Fits(r)
  PROVE  Written(r) \in Seq(Byte) /\ Len(Written(r)) \in Nat \ {0} /\ Written(r) # <<>>
<1> PICK W : W = Written(r)
  OBVIOUS
<1>1. PICK L \in Nat, M \in Nat : L = Len(r.dst) /\ M = Len(r.data)
  BY DEF Fits
<1>2. W \in Seq(Byte) /\ Len(W) = 10 + L + M
  BY <1>1, DatagramLayout
<1>3. Len(W) \in Nat \ {0}
  BY <1>2
<1> QED BY <1>2, <1>3, EmptySeq

---------------------------------------------------------------------------
(* The reader of the board, byte by byte *)

ReaderState ==
  {"version", "crc", "dst_len", "dst", "data_len", "data", "trailing", "overrun"}

Reader ==
  [reader_state : ReaderState,
   version : Byte, crc : Quad, crc_read : Nat, dst_len : Byte, dst : Seq(Byte),
   data_len : Quad, data_len_read : Nat, data : Seq(Byte)]

\* The lists that have not been reached are empty, and no byte of the length was
\* counted before its turn.
Ahead(d) ==
  /\ d.reader_state \in {"version", "crc", "dst_len"} => d.dst = <<>>
  /\ d.reader_state \in {"version", "crc", "dst_len", "dst"} => d.data_len_read = 0
  /\ d.reader_state \in {"version", "crc", "dst_len", "dst", "data_len"} => d.data = <<>>

\* The fields the reader is done with are those of the datagram of r.
Behind(d, r) ==
  /\ d.reader_state # "version" => d.version = CAN_DATAGRAM_VERSION
  /\ d.reader_state \notin {"version", "crc"} => d.crc = Checksum(r.data, r.dst)
  /\ d.reader_state \in {"dst", "data_len", "data", "trailing"} => d.dst_len = Len(r.dst)
  /\ d.reader_state \in {"data_len", "data", "trailing"} => d.dst = r.dst
  /\ d.reader_state \in {"data", "trailing"} => d.data_len = Bytes(Len(r.data))
  /\ d.reader_state = "trailing" => d.data = r.data

\* u ends in the first k elements of w.
EndsIn(u, w, k) == \A j \in 1..k : u[4-k+j] = w[j]

\* Where the reader is in the field that has the byte n + 1.
InCrc(d, r, n) ==
  /\ n \in 1..4 /\ d.crc_read = n - 1
  /\ EndsIn(d.crc, Checksum(r.data, r.dst), n - 1)

InDst(d, r, n) ==
  /\ n \in 6..5+Len(r.dst) /\ Len(d.dst) = n - 6
  /\ \A j \in 1..n-6 : d.dst[j] = r.dst[j]

InDataLen(d, r, n) ==
  /\ n \in 6+Len(r.dst)..9+Len(r.dst) /\ d.data_len_read = n - 6 - Len(r.dst)
  /\ EndsIn(d.data_len, Bytes(Len(r.data)), n - 6 - Len(r.dst))

InData(d, r, n) ==
  /\ n \in 10+Len(r.dst)..9+Len(r.dst)+Len(r.data) /\ Len(d.data) = n - 10 - Len(r.dst)
  /\ \A j \in 1..n-10-Len(r.dst) : d.data[j] = r.data[j]

Within(d, r, n) ==
  /\ d.reader_state = "version" => n = 0 /\ d.crc_read = 0
  /\ d.reader_state = "crc" => InCrc(d, r, n)
  /\ d.reader_state = "dst_len" => n = 5
  /\ d.reader_state = "dst" => InDst(d, r, n)
  /\ d.reader_state = "data_len" => InDataLen(d, r, n)
  /\ d.reader_state = "data" => InData(d, r, n)
  /\ d.reader_state = "trailing" => n = 10 + Len(r.dst) + Len(r.data)

\* The reader has read the first n bytes of the datagram of r.
HasRead(d, r, n) ==
  d \in Reader /\ ~Overrun(d) /\ Ahead(d) /\ Behind(d, r) /\ Within(d, r, n)

\* One more byte is shifted into a number of four.
LEMMA ShiftIn ==
  ASSUME NEW u \in Quad, NEW w \in Quad, NEW k \in 0..3, EndsIn(u, w, k)
  PROVE  /\ Shift(u, w[k+1]) \in Quad
         /\ EndsIn(Shift(u, w[k+1]), w, k+1)
         /\ k = 3 => Shift(u, w[k+1]) = w
<1> DEFINE t == Shift(u, w[k+1])
<1>1. u \in Seq(Byte) /\ Len(u) = 4 /\ w \in Seq(Byte) /\ Len(w) = 4 /\ w[k+1] \in Byte
  <2>1. u \in Seq(Byte) /\ Len(u) = 4 /\ w \in Seq(Byte) /\ Len(w) = 4
    BY DEF Quad
  <2>2. k + 1 \in 1..Len(w)
    BY <2>1
  <2> QED BY <2>1, <2>2, ElementOfSeq
<1>2. /\ Tail(u) \in Seq(Byte) /\ Len(Tail(u)) = 3
      /\ \A i \in 1..3 : Tail(u)[i] = u[i+1]
  <2>1. u # <<>>
    BY <1>1, EmptySeq
  <2>2. /\ Tail(u) \in Seq(Byte) /\ Len(Tail(u)) = Len(u) - 1
        /\ \A i \in 1..Len(Tail(u)) : Tail(u)[i] = u[i+1]
    BY <1>1, <2>1, HeadTailProperties
  <2> HIDE DEF t
  <2>3. Len(Tail(u)) = 3
    BY <1>1, <2>2
  <2> QED BY <2>2, <2>3
<1>3. /\ t \in Seq(Byte) /\ Len(t) = 4 /\ t[4] = w[k+1]
      /\ \A i \in 1..3 : t[i] = Tail(u)[i]
  <2> DEFINE v == Tail(u)
             x == w[k+1]
  <2>1. v \in Seq(Byte) /\ Len(v) = 3 /\ x \in Byte
    BY <1>1, <1>2
  <2>2. t = Append(v, x)
    BY DEF Shift
  <2> HIDE DEF v, x, t
  <2>3. /\ t \in Seq(Byte) /\ Len(t) = Len(v) + 1 /\ t[Len(v)+1] = x
        /\ \A i \in 1..Len(v) : t[i] = v[i]
    <3>0. v \in Seq(Byte) /\ x \in Byte
      BY <2>1
    <3>1. /\ Append(v, x) \in Seq(Byte) /\ Len(Append(v, x)) = Len(v) + 1
          /\ Append(v, x)[Len(v)+1] = x
          /\ \A i \in 1..Len(v) : Append(v, x)[i] = v[i]
      BY <3>0, AppendProperties, Z3T(60)
    <3> QED BY <2>2, <3>1
  <2>4. /\ t \in Seq(Byte) /\ Len(t) = 4 /\ t[4] = x
        /\ \A i \in 1..3 : t[i] = v[i]
    BY <2>1, <2>3
  <2> QED BY <2>4 DEF v, x
<1> HIDE DEF t
<1>4. ASSUME NEW j \in 1..k+1 PROVE t[4-(k+1)+j] = w[j]
  <2>1. CASE j = k + 1
    BY <1>3, <2>1
  <2>2. CASE j \in 1..k
    <3>1. 4-(k+1)+j \in 1..3 /\ 4-(k+1)+j+1 = 4-k+j
      BY <2>2
    <3>2. t[4-(k+1)+j] = u[4-k+j]
      BY <1>2, <1>3, <3>1
    <3> QED BY <2>2, <3>2 DEF EndsIn
  <2> QED BY <2>1, <2>2
<1>5. t \in Quad /\ EndsIn(t, w, k+1)
  BY <1>3, <1>4 DEF Quad, EndsIn
<1>6. ASSUME k = 3 PROVE t = w
  <2>1. \A j \in 1..4 : t[j] = w[j]
    BY <1>4, <1>6
  <2> QED BY <1>1, <1>3, <2>1, SeqEqual
<1> QED BY <1>5, <1>6 DEF t

\* One more element at the end of a list.
LEMMA ListGrows ==
  ASSUME NEW s \in Seq(Byte), NEW w \in Seq(Byte), Len(s) < Len(w),
         \A j \in 1..Len(s) : s[j] = w[j]
  PROVE  /\ Append(s, w[Len(s)+1]) \in Seq(Byte)
         /\ Len(Append(s, w[Len(s)+1])) = Len(s) + 1
         /\ \A j \in 1..Len(s)+1 : Append(s, w[Len(s)+1])[j] = w[j]
         /\ Len(s) + 1 = Len(w) => Append(s, w[Len(s)+1]) = w
<1> DEFINE x == w[Len(s)+1]
           t == Append(s, x)
<1>1. Len(s) \in Nat /\ Len(w) \in Nat /\ x \in Byte
  OBVIOUS
<1> HIDE DEF x
<1>2. t \in Seq(Byte) /\ Len(t) = Len(s) + 1 /\ t[Len(s)+1] = x
      /\ \A j \in 1..Len(s) : t[j] = s[j]
  BY <1>1
<1> HIDE DEF t
<1>3. \A j \in 1..Len(s)+1 : t[j] = w[j]
  BY <1>1, <1>2 DEF x
<1>4. Len(s) + 1 = Len(w) => t = w
  BY <1>2, <1>3, SeqEqual
<1> QED BY <1>2, <1>3, <1>4 DEF t, x

LEMMA ReadByte ==
  ASSUME NEW r, Fits(r), Readable(r), NEW n \in Nat, n < Len(Written(r)),
         NEW d, HasRead(d, r, n)
  PROVE  HasRead(input_byte(d, Written(r)[n+1]), r, n+1)
<1> DEFINE val == Written(r)[n+1]
           L == Len(r.dst)
           M == Len(r.data)
           C == Checksum(r.data, r.dst)
           e == input_byte(d, val)
<1>1. /\ r.dst \in Seq(Byte) /\ L \in Byte /\ L \in Nat /\ L > 0
      /\ r.data \in Seq(Byte) /\ M \in Nat /\ M > 0 /\ C \in Quad
      /\ Bytes(M) \in Quad /\ Value(Bytes(M)) = M /\ M <= InputSize /\ InputSize \in Nat
  <2>1. /\ r.dst \in Seq(Byte) /\ L \in Byte /\ r.data \in Seq(Byte) /\ M < 256*256*256
        /\ C \in Seq(Byte) /\ Len(C) = 4
    BY DEF Fits, Quad
  <2>2. L \in Nat /\ L > 0 /\ M \in Nat /\ M > 0 /\ M <= InputSize
    BY <2>1, EmptySeq DEF Readable
  <2>3. Bytes(M) \in Quad /\ Value(Bytes(M)) = M
    BY <2>1, <2>2, BytesOfLength
  <2>4. C \in Quad /\ InputSize \in Nat
    BY <2>1, DatagramAssumption DEF Quad
  <2> QED BY <2>1, <2>2, <2>3, <2>4
<1>2. /\ Len(Written(r)) = 10 + L + M /\ val \in Byte
      /\ n = 0 => val = CAN_DATAGRAM_VERSION
      /\ n \in 1..4 => val = C[n]
      /\ n = 5 => val = L
      /\ n \in 6..5+L => val = r.dst[n-5]
      /\ n \in 6+L..9+L => val = Bytes(M)[n-5-L]
      /\ n \in 10+L..9+L+M => val = r.data[n-9-L]
  <2> DEFINE W == Written(r)
             B == Bytes(M)
  <2>1. /\ W \in Seq(Byte) /\ Len(W) = 10 + L + M
        /\ W[1] = CAN_DATAGRAM_VERSION /\ W[6] = L
        /\ \A j \in 1..4 : W[1+j] = C[j]
        /\ \A j \in 1..L : W[6+j] = r.dst[j]
        /\ \A j \in 1..4 : W[6+L+j] = B[j]
        /\ \A j \in 1..M : W[10+L+j] = r.data[j]
    BY DatagramLayout
  <2> HIDE DEF W, B, C, L, M
  <2>2. n + 1 \in 1..Len(W)
    BY DEF W
  <2>3. W[n+1] \in Byte
    BY <2>1, <2>2, ElementOfSeq
  <2>4. n = 0 => W[n+1] = CAN_DATAGRAM_VERSION
    BY <2>1
  <2>5. n = 5 => W[n+1] = L
    BY <2>1
  <2>6. ASSUME n \in 1..4 PROVE W[n+1] = C[n]
    BY <2>1, <2>6
  <2>7. ASSUME n \in 6..5+L PROVE W[n+1] = r.dst[n-5]
    <3>1. n - 5 \in 1..L /\ 6 + (n - 5) = n + 1
      BY <1>1, <2>7
    <3> QED BY <2>1, <3>1
  <2>8. ASSUME n \in 6+L..9+L PROVE W[n+1] = B[n-5-L]
    <3>1. n - 5 - L \in 1..4 /\ 6 + L + (n - 5 - L) = n + 1
      BY <1>1, <2>8
    <3> QED BY <2>1, <3>1, SMTT(60)
  <2>9. ASSUME n \in 10+L..9+L+M PROVE W[n+1] = r.data[n-9-L]
    <3>1. n - 9 - L \in 1..M /\ 10 + L + (n - 9 - L) = n + 1
      BY <1>1, <2>9
    <3> QED BY <2>1, <3>1, SMTT(60)
  <2> QED BY <2>1, <2>3, <2>4, <2>5, <2>6, <2>7, <2>8, <2>9 DEF W, B, L
<1>3. d \in Reader /\ ~Overrun(d) /\ Ahead(d) /\ Behind(d, r) /\ Within(d, r, n)
  BY DEF HasRead, Overrun
<1> SUFFICES HasRead(e, r, n+1)
  OBVIOUS
<1> HIDE DEF val, L, M, C, e
<1>4. CASE d.reader_state = "version"
  <2>1. /\ e \in Reader /\ e.reader_state = "crc" /\ e.version = val
        /\ e.crc = d.crc /\ e.crc_read = d.crc_read /\ e.dst_len = d.dst_len /\ e.dst = d.dst /\ e.data_len = d.data_len /\ e.data_len_read = d.data_len_read /\ e.data = d.data
    BY <1>2, <1>3, <1>4 DEF e, input_byte, Reader, ReaderState
  <2>2. n = 0 /\ d.crc_read = 0 /\ val = CAN_DATAGRAM_VERSION
    BY <1>2, <1>3, <1>4 DEF Within
  <2>3. Ahead(e) /\ Behind(e, r)
    BY <1>3, <1>4, <2>1, <2>2 DEF Ahead, Behind
  <2>4. Within(e, r, n+1)
    <3>1. n + 1 \in 1..4 /\ e.crc_read = n + 1 - 1 /\ EndsIn(e.crc, Checksum(r.data, r.dst), n + 1 - 1)
      BY <2>1, <2>2 DEF EndsIn
    <3> QED BY <2>1, <3>1 DEF Within, InCrc
  <2> QED BY <2>1, <2>3, <2>4 DEF HasRead, Overrun
<1>5. CASE d.reader_state = "crc"
  <2>1. n \in 1..4 /\ d.crc_read = n - 1 /\ EndsIn(d.crc, C, n - 1) /\ val = C[n-1+1] /\ d.crc \in Quad
    BY <1>2, <1>3, <1>5 DEF Within, InCrc, C, Reader, ReaderState
  <2>2. /\ Shift(d.crc, val) \in Quad /\ EndsIn(Shift(d.crc, val), C, n)
        /\ n = 4 => Shift(d.crc, val) = C
    BY <1>1, <2>1, ShiftIn, SMTT(60)
  <2>3. /\ e \in Reader /\ e.crc = Shift(d.crc, val) /\ e.crc_read = n
        /\ e.reader_state = IF n >= 4 THEN "dst_len" ELSE "crc"
        /\ e.version = d.version /\ e.dst_len = d.dst_len /\ e.dst = d.dst /\ e.data_len = d.data_len /\ e.data_len_read = d.data_len_read /\ e.data = d.data
    <3> DEFINE f == [d EXCEPT !.crc = Shift(d.crc, val), !.crc_read = d.crc_read + 1]
    <3>1. e = Goto(f, "dst_len", f.crc_read >= 4)
      BY <1>5 DEF e, input_byte
    <3>2. /\ f \in Reader /\ f.crc = Shift(d.crc, val) /\ f.crc_read = n /\ f.reader_state = "crc"
          /\ f.version = d.version /\ f.dst_len = d.dst_len /\ f.dst = d.dst /\ f.data_len = d.data_len /\ f.data_len_read = d.data_len_read /\ f.data = d.data
      <4>1. d.crc_read + 1 = n
        BY <2>1
      <4> QED BY <1>3, <1>5, <2>2, <4>1 DEF Reader, ReaderState
    <3> HIDE DEF f
    <3> QED BY <2>1, <3>1, <3>2 DEF Goto, Reader, ReaderState
  <2>4. Ahead(e) /\ Behind(e, r)
    BY <1>3, <1>5, <2>1, <2>2, <2>3 DEF Ahead, Behind, C
  <2>5. Within(e, r, n+1)
    <3>1. n < 4 => InCrc(e, r, n + 1)
      BY <2>1, <2>2, <2>3 DEF InCrc, C
    <3>2. n >= 4 => n + 1 = 5
      BY <2>1
    <3> QED BY <2>1, <2>3, <3>1, <3>2 DEF Within
  <2> QED BY <2>3, <2>4, <2>5 DEF HasRead, Overrun
<1>6. CASE d.reader_state = "dst_len"
  <2>1. /\ e \in Reader /\ e.reader_state = "dst" /\ e.dst_len = val
        /\ e.version = d.version /\ e.crc = d.crc /\ e.crc_read = d.crc_read /\ e.dst = d.dst /\ e.data_len = d.data_len /\ e.data_len_read = d.data_len_read /\ e.data = d.data
    BY <1>2, <1>3, <1>6 DEF e, input_byte, Reader, ReaderState
  <2>2. n = 5 /\ d.dst = <<>> /\ val = L
    BY <1>2, <1>3, <1>6 DEF Within, Ahead
  <2>3. Ahead(e) /\ Behind(e, r)
    BY <1>3, <1>6, <2>1, <2>2 DEF Ahead, Behind, L
  <2>4. Len(e.dst) = 0
    BY <2>1, <2>2, EmptySeq
  <2>5. Within(e, r, n+1)
    <3>1. InDst(e, r, n + 1)
      BY <1>1, <2>1, <2>2, <2>4 DEF InDst, L
    <3> QED BY <2>1, <3>1 DEF Within
  <2> QED BY <2>1, <2>3, <2>5 DEF HasRead, Overrun
<1>7. CASE d.reader_state = "dst"
  <2>1. /\ n \in 6..5+L /\ Len(d.dst) = n - 6 /\ (\A j \in 1..n-6 : d.dst[j] = r.dst[j])
        /\ d.dst \in Seq(Byte) /\ d.dst_len = L
    BY <1>3, <1>7 DEF Within, InDst, Behind, L, Reader, ReaderState
  <2>2. val = r.dst[Len(d.dst)+1] /\ Len(d.dst) < Len(r.dst)
    <3>1. val = r.dst[n-5]
      BY <1>2, <2>1
    <3>2. L \in Nat /\ n \in 6..5+L /\ Len(d.dst) = n - 6
      BY <1>1, <2>1
    <3> HIDE DEF val, L
    <3>3. Len(d.dst) + 1 = n - 5 /\ Len(d.dst) < L
      BY <3>2
    <3> QED BY <3>1, <3>3 DEF L
  <2> DEFINE t == Append(d.dst, val)
  <2>3. /\ t \in Seq(Byte) /\ Len(t) = n - 5 /\ (\A j \in 1..n-5 : t[j] = r.dst[j])
        /\ n - 5 = L => t = r.dst
    <3> DEFINE u == Append(d.dst, r.dst[Len(d.dst)+1])
    <3>0. /\ u \in Seq(Byte) /\ Len(u) = Len(d.dst) + 1
          /\ \A j \in 1..Len(d.dst)+1 : u[j] = r.dst[j]
          /\ Len(d.dst) + 1 = Len(r.dst) => u = r.dst
      <4>1. \A j \in 1..Len(d.dst) : d.dst[j] = r.dst[j]
        BY <2>1
      <4> QED BY <1>1, <2>1, <2>2, <4>1, ListGrows
    <3>1. /\ t \in Seq(Byte) /\ Len(t) = Len(d.dst) + 1
          /\ \A j \in 1..Len(d.dst)+1 : t[j] = r.dst[j]
          /\ Len(d.dst) + 1 = Len(r.dst) => t = r.dst
      <4>1. u = t
        BY <2>2
      <4> HIDE DEF u, t
      <4> QED BY <3>0, <4>1
    <3> HIDE DEF t
    <3>2. Len(d.dst) + 1 = n - 5
      BY <2>1
    <3> QED BY <3>1, <3>2 DEF L
  <2> HIDE DEF t
  <2>4. /\ e \in Reader /\ e.dst = t
        /\ e.reader_state = IF n - 5 >= L THEN "data_len" ELSE "dst"
        /\ e.version = d.version /\ e.crc = d.crc /\ e.crc_read = d.crc_read /\ e.dst_len = d.dst_len /\ e.data_len = d.data_len /\ e.data_len_read = d.data_len_read /\ e.data = d.data
    <3>0. Len(d.dst) < AddressSize /\ ~(Len(d.dst) >= AddressSize)
      <4>1. PICK l \in Nat : l = Len(d.dst)
        BY <2>1
      <4>2. L <= AddressSize /\ AddressSize \in Nat
        BY DatagramAssumption DEF Readable, L
      <4>3. l < L
        BY <2>2, <4>1 DEF L
      <4>4. l < AddressSize /\ ~(l >= AddressSize)
        BY <1>1, <4>2, <4>3
      <4> QED BY <4>1, <4>4
    <3>1. e = Goto([d EXCEPT !.dst = t], "data_len", DstComplete([d EXCEPT !.dst = t]))
      BY <1>7, <3>0 DEF e, input_byte, t
    <3>2. [d EXCEPT !.dst = t] \in Reader /\ [d EXCEPT !.dst = t].dst = t
          /\ [d EXCEPT !.dst = t].dst_len = L
      BY <1>3, <2>1, <2>3 DEF Reader, ReaderState
    <3> QED BY <1>3, <1>7, <2>3, <3>1, <3>2 DEF Goto, DstComplete, Reader, ReaderState
  <2>5. Ahead(e) /\ Behind(e, r)
    <3>1. n - 5 >= L => e.dst = r.dst
      BY <1>1, <2>1, <2>3, <2>4
    <3> QED BY <1>3, <1>7, <2>4, <3>1 DEF Ahead, Behind
  <2>6. Within(e, r, n+1)
    <3>1. CASE n - 5 >= L
      <4>1. n + 1 = 6 + L /\ e.reader_state = "data_len" /\ e.data_len_read = 0
        BY <1>1, <1>3, <1>7, <2>1, <2>4, <3>1 DEF Ahead
      <4>2. InDataLen(e, r, n + 1)
        BY <1>1, <4>1, SMTT(60) DEF InDataLen, EndsIn, L
      <4> QED BY <4>1, <4>2 DEF Within
    <3>2. CASE n - 5 < L
      <4>1. n + 1 \in 6..5+L /\ e.reader_state = "dst" /\ Len(e.dst) = n + 1 - 6
            /\ \A j \in 1..n+1-6 : e.dst[j] = r.dst[j]
        BY <1>1, <2>1, <2>3, <2>4, <3>2
      <4>2. InDst(e, r, n + 1)
        BY <4>1 DEF InDst, L
      <4> QED BY <4>1, <4>2 DEF Within
    <3> QED BY <1>1, <2>1, <3>1, <3>2
  <2> QED BY <2>4, <2>5, <2>6 DEF HasRead, Overrun
<1>8. CASE d.reader_state = "data_len"
  <2> DEFINE k == n - 6 - L
  <2>1. /\ n \in 6+L..9+L /\ k \in 0..3 /\ d.data_len_read = k /\ EndsIn(d.data_len, Bytes(M), k)
        /\ val = Bytes(M)[k+1] /\ d.data_len \in Quad /\ d.data = <<>>
    <3>1. /\ n \in 6+L..9+L /\ d.data_len_read = k /\ EndsIn(d.data_len, Bytes(M), k)
          /\ d.data_len \in Quad /\ d.data = <<>>
      BY <1>3, <1>8 DEF Within, InDataLen, Ahead, L, M, Reader, ReaderState
    <3>2. k \in 0..3 /\ k + 1 = n - 5 - L
      <4>1. L \in Nat
        BY <1>1
      <4>2. n \in 6+L..9+L
        BY <3>1
      <4> HIDE DEF L
      <4> QED BY <4>1, <4>2, Z3T(60)
    <3> QED BY <1>2, <3>1, <3>2
  <2> DEFINE t == Shift(d.data_len, val)
  <2>2. /\ t \in Quad /\ EndsIn(t, Bytes(M), k+1)
        /\ k = 3 => t = Bytes(M)
    BY <1>1, <2>1, ShiftIn
  <2> HIDE DEF t, k
  <2>3. /\ e \in Reader /\ e.data_len = t /\ e.data_len_read = k + 1
        /\ e.reader_state = IF k + 1 >= 4 THEN "data" ELSE "data_len"
        /\ e.version = d.version /\ e.crc = d.crc /\ e.crc_read = d.crc_read /\ e.dst_len = d.dst_len /\ e.dst = d.dst /\ e.data = d.data
    <3> DEFINE f == [d EXCEPT !.data_len = t, !.data_len_read = d.data_len_read + 1]
    <3>1. e = Goto(f, "data", f.data_len_read >= 4)
      BY <1>8 DEF e, input_byte, t
    <3>2. /\ f \in Reader /\ f.data_len = t /\ f.data_len_read = k + 1 /\ f.reader_state = "data_len"
          /\ f.version = d.version /\ f.crc = d.crc /\ f.crc_read = d.crc_read /\ f.dst_len = d.dst_len /\ f.dst = d.dst /\ f.data = d.data
      <4>1. d.data_len_read + 1 = k + 1 /\ k + 1 \in Nat
        BY <2>1
      <4> QED BY <1>3, <1>8, <2>2, <4>1 DEF Reader, ReaderState
    <3> HIDE DEF f
    <3> QED BY <2>1, <3>1, <3>2 DEF Goto, Reader, ReaderState
  <2>4. Ahead(e) /\ Behind(e, r)
    BY <1>3, <1>8, <2>1, <2>2, <2>3 DEF Ahead, Behind, M
  <2>5. Within(e, r, n+1)
    <3>1. CASE k = 3
      <4>1. n + 1 = 10 + L /\ e.reader_state = "data" /\ e.data = <<>> /\ Len(e.data) = 0
        BY <1>1, <2>1, <2>3, <3>1, EmptySeq DEF k
      <4>2. n + 1 \in 10+L..9+L+M /\ Len(e.data) = n + 1 - 10 - L
        BY <1>1, <4>1
      <4>3. \A j \in 1..n+1-10-L : e.data[j] = r.data[j]
        BY <1>1, <4>1, <4>2
      <4>4. InData(e, r, n + 1)
        <5>1. PICK m \in Nat : m = n + 1
          OBVIOUS
        <5>2. m \in 10+L..9+L+M /\ Len(e.data) = m - 10 - L
          BY <1>1, <4>2, <5>1
        <5>3. \A j \in 1..m-10-L : e.data[j] = r.data[j]
          BY <1>1, <4>3, <5>1
        <5>4. InData(e, r, m)
          BY <5>2, <5>3, Zenon DEF InData, L, M
        <5> QED BY <5>1, <5>4
      <4> QED BY <4>1, <4>4 DEF Within
    <3>2. CASE k \in 0..2
      <4>1. n + 1 \in 6+L..9+L /\ e.reader_state = "data_len" /\ k + 1 = n + 1 - 6 - L
        BY <1>1, <2>1, <2>3, <3>2 DEF k
      <4>2. e.data_len_read = n + 1 - 6 - L /\ EndsIn(e.data_len, Bytes(M), n + 1 - 6 - L)
        BY <2>2, <2>3, <4>1
      <4>3. InDataLen(e, r, n + 1)
        <5>1. PICK m \in Nat : m = n + 1
          OBVIOUS
        <5>2. m \in 6+L..9+L /\ e.data_len_read = m - 6 - L
          BY <1>1, <4>1, <4>2, <5>1
        <5>3. EndsIn(e.data_len, Bytes(M), m - 6 - L)
          BY <1>1, <4>2, <5>1
        <5>4. InDataLen(e, r, m)
          BY <5>2, <5>3, Zenon DEF InDataLen, L, M
        <5> QED BY <5>1, <5>4
      <4> QED BY <4>1, <4>3 DEF Within
    <3> QED BY <2>1, <3>1, <3>2
  <2> QED BY <2>3, <2>4, <2>5 DEF HasRead, Overrun
<1>9. CASE d.reader_state = "data"
  <2>1. /\ n \in 10+L..9+L+M /\ Len(d.data) = n - 10 - L
        /\ (\A j \in 1..n-10-L : d.data[j] = r.data[j])
        /\ d.data \in Seq(Byte) /\ d.data_len = Bytes(M)
    BY <1>3, <1>9 DEF Within, InData, Behind, L, M, Reader, ReaderState
  <2> DEFINE k == Len(d.data)
  <2>2. k \in Nat /\ k + 1 = n - 9 - L /\ k < M /\ val = r.data[k+1]
    <3>1. k = n - 10 - L /\ n - 10 - L \in Nat /\ n - 10 - L < M
      BY <1>1, <2>1, SMTT(60)
    <3>2. val = r.data[n-9-L]
      BY <1>2, <2>1
    <3> HIDE DEF k
    <3>3. k + 1 = n - 9 - L
      BY <1>1, <3>1
    <3> QED BY <3>1, <3>2, <3>3
  <2> DEFINE t == Append(d.data, val)
  <2>3. /\ t \in Seq(Byte) /\ Len(t) = k + 1 /\ (\A j \in 1..k+1 : t[j] = r.data[j])
        /\ k + 1 = M => t = r.data
    <3>1. \A j \in 1..Len(d.data) : d.data[j] = r.data[j]
      BY <2>1
    <3> QED BY <1>1, <2>1, <2>2, <3>1, ListGrows, ZenonT(60) DEF M
  <2> HIDE DEF t, k
  <2>4. /\ e \in Reader /\ e.data = t
        /\ e.reader_state = IF k + 1 >= M THEN "trailing" ELSE "data"
        /\ e.version = d.version /\ e.crc = d.crc /\ e.crc_read = d.crc_read /\ e.dst_len = d.dst_len /\ e.dst = d.dst /\ e.data_len = d.data_len /\ e.data_len_read = d.data_len_read
    <3> DEFINE f == [d EXCEPT !.data = t]
    <3>1. e = Goto(f, "trailing", DataComplete(f))
      BY <1>9 DEF e, input_byte, t
    <3>2. /\ f \in Reader /\ f.data = t /\ f.data_len = Bytes(M) /\ f.reader_state = "data"
          /\ f.version = d.version /\ f.crc = d.crc /\ f.crc_read = d.crc_read /\ f.dst_len = d.dst_len /\ f.dst = d.dst /\ f.data_len = d.data_len /\ f.data_len_read = d.data_len_read
      BY <1>3, <1>9, <2>1, <2>3 DEF Reader, ReaderState
    <3> HIDE DEF f
    <3>3. DataComplete(f) <=> k + 1 >= M
      BY <1>1, <2>2, <2>3, <3>2 DEF DataComplete
    <3> QED BY <3>1, <3>2, <3>3 DEF Goto, Reader, ReaderState
  <2>5. Ahead(e) /\ Behind(e, r)
    <3>1. k + 1 >= M => e.data = r.data
      BY <1>1, <2>2, <2>3, <2>4
    <3> QED BY <1>3, <1>9, <2>4, <3>1 DEF Ahead, Behind
  <2>6. Within(e, r, n+1)
    <3>1. CASE k + 1 >= M
      <4>1. n + 1 = 10 + L + M /\ e.reader_state = "trailing"
        BY <1>1, <2>2, <2>4, <3>1
      <4> QED BY <4>1 DEF Within, L, M
    <3>2. CASE k + 1 < M
      <4>1. e.reader_state = "data" /\ Len(e.data) = k + 1
            /\ \A j \in 1..Len(e.data) : e.data[j] = r.data[j]
        <5>1. ~(k + 1 >= M)
          BY <1>1, <2>2, <3>2
        <5>2. e.data = t /\ e.reader_state = "data"
          BY <2>4, <5>1
        <5> QED BY <2>3, <5>2
      <4>2. n + 1 \in 10+L..9+L+M /\ Len(e.data) = n + 1 - 10 - L
        BY <1>1, <2>2, <3>2, <4>1
      <4>3. \A j \in 1..n+1-10-L : e.data[j] = r.data[j]
        BY <4>1, <4>2
      <4>4. InData(e, r, n + 1)
        <5>1. PICK m \in Nat : m = n + 1
          OBVIOUS
        <5>2. m \in 10+L..9+L+M /\ Len(e.data) = m - 10 - L
          BY <1>1, <4>2, <5>1
        <5>3. \A j \in 1..m-10-L : e.data[j] = r.data[j]
          BY <1>1, <4>3, <5>1
        <5>4. InData(e, r, m)
          BY <5>2, <5>3, Zenon DEF InData, L, M
        <5> QED BY <5>1, <5>4
      <4> QED BY <4>1, <4>4 DEF Within
    <3> QED BY <1>1, <2>2, <3>1, <3>2
  <2> QED BY <2>4, <2>5, <2>6 DEF HasRead, Overrun
<1>10. d.reader_state # "trailing"
  <2>1. d.reader_state = "trailing" => n = 10 + L + M
    BY <1>3 DEF Within, L, M
  <2>2. n < 10 + L + M
    BY <1>2
  <2> QED BY <1>1, <2>1, <2>2
<1>11. d.reader_state \in {"version", "crc", "dst_len", "dst", "data_len", "data", "trailing"}
  BY <1>3 DEF Reader, ReaderState, Overrun
<1> QED BY <1>4, <1>5, <1>6, <1>7, <1>8, <1>9, <1>10, <1>11

---------------------------------------------------------------------------
(* The reader of the board, frame by frame *)

\* Readings is a recursive function: it exists, because a frame has eight bytes at
\* most.
LEMMA ReadingsStep ==
  ASSUME NEW d, NEW bytes, Len(bytes) \in 0..FrameBytes
  PROVE  /\ Readings(d, bytes)[0] = {d}
         /\ \A i \in 1..Len(bytes) :
              Readings(d, bytes)[i] = {input_byte(x, bytes[i]) : x \in Readings(d, bytes)[i-1]}
<1> DEFINE x0 == {d}
           x1 == {input_byte(x, bytes[1]) : x \in x0}
           x2 == {input_byte(x, bytes[2]) : x \in x1}
           x3 == {input_byte(x, bytes[3]) : x \in x2}
           x4 == {input_byte(x, bytes[4]) : x \in x3}
           x5 == {input_byte(x, bytes[5]) : x \in x4}
           x6 == {input_byte(x, bytes[6]) : x \in x5}
           x7 == {input_byte(x, bytes[7]) : x \in x6}
           x8 == {input_byte(x, bytes[8]) : x \in x7}
           g == [i \in 0..Len(bytes) |->
                 IF i = 0 THEN x0 ELSE IF i = 1 THEN x1 ELSE IF i = 2 THEN x2
                 ELSE IF i = 3 THEN x3 ELSE IF i = 4 THEN x4
                 ELSE IF i = 5 THEN x5 ELSE IF i = 6 THEN x6
                 ELSE IF i = 7 THEN x7 ELSE x8]
           After(f, i) == IF i = 0 THEN {d} ELSE {input_byte(x, bytes[i]) : x \in f[i-1]}
           Is(f) == f = [i \in 0..Len(bytes) |-> After(f, i)]
<1>1. Is(g)
  <2>0. Len(bytes) \in 0..8
    BY DEF FrameBytes
  <2>1. ASSUME NEW i \in 0..Len(bytes) PROVE g[i] = After(g, i)
    <3>0. Len(bytes) \in 0..8 /\ i \in 0..Len(bytes)
      BY <2>0
    <3>1. CASE i = 0
      BY <3>1
    <3>2. CASE i = 1
      <4>1. 0 \in 0..Len(bytes) /\ i - 1 = 0
        BY <3>0, <3>2
      <4>2. g[1] = x1 /\ g[0] = x0
        BY <3>2, <4>1
      <4>3. x1 = {input_byte(x, bytes[1]) : x \in x0}
        OBVIOUS
      <4> HIDE DEF g, x0, x1, x2, x3, x4, x5, x6, x7, x8
      <4>4. After(g, i) = {input_byte(x, bytes[1]) : x \in g[0]}
        BY <3>2, <4>1
      <4> QED BY <3>2, <4>2, <4>3, <4>4
    <3>3. CASE i = 2
      <4>1. 1 \in 0..Len(bytes) /\ i - 1 = 1
        BY <3>0, <3>3
      <4>2. g[2] = x2 /\ g[1] = x1
        BY <3>3, <4>1
      <4>3. x2 = {input_byte(x, bytes[2]) : x \in x1}
        OBVIOUS
      <4> HIDE DEF g, x0, x1, x2, x3, x4, x5, x6, x7, x8
      <4>4. After(g, i) = {input_byte(x, bytes[2]) : x \in g[1]}
        BY <3>3, <4>1
      <4> QED BY <3>3, <4>2, <4>3, <4>4
    <3>4. CASE i = 3
      <4>1. 2 \in 0..Len(bytes) /\ i - 1 = 2
        BY <3>0, <3>4
      <4>2. g[3] = x3 /\ g[2] = x2
        BY <3>4, <4>1
      <4>3. x3 = {input_byte(x, bytes[3]) : x \in x2}
        OBVIOUS
      <4> HIDE DEF g, x0, x1, x2, x3, x4, x5, x6, x7, x8
      <4>4. After(g, i) = {input_byte(x, bytes[3]) : x \in g[2]}
        BY <3>4, <4>1
      <4> QED BY <3>4, <4>2, <4>3, <4>4
    <3>5. CASE i = 4
      <4>1. 3 \in 0..Len(bytes) /\ i - 1 = 3
        BY <3>0, <3>5
      <4>2. g[4] = x4 /\ g[3] = x3
        BY <3>5, <4>1
      <4>3. x4 = {input_byte(x, bytes[4]) : x \in x3}
        OBVIOUS
      <4> HIDE DEF g, x0, x1, x2, x3, x4, x5, x6, x7, x8
      <4>4. After(g, i) = {input_byte(x, bytes[4]) : x \in g[3]}
        BY <3>5, <4>1
      <4> QED BY <3>5, <4>2, <4>3, <4>4
    <3>6. CASE i = 5
      <4>1. 4 \in 0..Len(bytes) /\ i - 1 = 4
        BY <3>0, <3>6
      <4>2. g[5] = x5 /\ g[4] = x4
        BY <3>6, <4>1
      <4>3. x5 = {input_byte(x, bytes[5]) : x \in x4}
        OBVIOUS
      <4> HIDE DEF g, x0, x1, x2, x3, x4, x5, x6, x7, x8
      <4>4. After(g, i) = {input_byte(x, bytes[5]) : x \in g[4]}
        BY <3>6, <4>1
      <4> QED BY <3>6, <4>2, <4>3, <4>4
    <3>7. CASE i = 6
      <4>1. 5 \in 0..Len(bytes) /\ i - 1 = 5
        BY <3>0, <3>7
      <4>2. g[6] = x6 /\ g[5] = x5
        BY <3>7, <4>1
      <4>3. x6 = {input_byte(x, bytes[6]) : x \in x5}
        OBVIOUS
      <4> HIDE DEF g, x0, x1, x2, x3, x4, x5, x6, x7, x8
      <4>4. After(g, i) = {input_byte(x, bytes[6]) : x \in g[5]}
        BY <3>7, <4>1
      <4> QED BY <3>7, <4>2, <4>3, <4>4
    <3>8. CASE i = 7
      <4>1. 6 \in 0..Len(bytes) /\ i - 1 = 6
        BY <3>0, <3>8
      <4>2. g[7] = x7 /\ g[6] = x6
        BY <3>8, <4>1
      <4>3. x7 = {input_byte(x, bytes[7]) : x \in x6}
        OBVIOUS
      <4> HIDE DEF g, x0, x1, x2, x3, x4, x5, x6, x7, x8
      <4>4. After(g, i) = {input_byte(x, bytes[7]) : x \in g[6]}
        BY <3>8, <4>1
      <4> QED BY <3>8, <4>2, <4>3, <4>4
    <3>9. CASE i = 8
      <4>1. 7 \in 0..Len(bytes) /\ i - 1 = 7
        BY <3>0, <3>9
      <4>2. g[8] = x8 /\ g[7] = x7
        BY <3>9, <4>1
      <4>3. x8 = {input_byte(x, bytes[8]) : x \in x7}
        OBVIOUS
      <4> HIDE DEF g, x0, x1, x2, x3, x4, x5, x6, x7, x8
      <4>4. After(g, i) = {input_byte(x, bytes[8]) : x \in g[7]}
        BY <3>9, <4>1
      <4> QED BY <3>9, <4>2, <4>3, <4>4
    <3>10. i \in 0..8
      <4>1. PICK len \in 0..8 : len = Len(bytes)
        BY <3>0
      <4>2. i \in 0..len
        BY <3>0, <4>1
      <4> HIDE DEF g, After
      <4> QED BY <4>1, <4>2
    <3> HIDE DEF g, After
    <3> QED BY <3>10, <3>1, <3>2, <3>3, <3>4, <3>5, <3>6, <3>7, <3>8, <3>9
  <2> HIDE DEF After
  <2> QED BY <2>1, SMTT(60)
<1> HIDE DEF g
<1>2. Is(CHOOSE f : Is(f))
  <2> HIDE DEF Is
  <2> QED BY <1>1
<1>3. Readings(d, bytes) = CHOOSE f : Is(f)
  BY DEF Readings
<1> DEFINE a == Readings(d, bytes)
<1>4. a = [i \in 0..Len(bytes) |-> After(a, i)]
  BY <1>2, <1>3
<1> HIDE DEF a, After
<1>5. \A i \in 0..Len(bytes) : a[i] = After(a, i)
  BY <1>4
<1>6. 0 \in 0..Len(bytes) /\ \A i \in 1..Len(bytes) : i \in 0..Len(bytes) /\ i # 0
  BY DEF FrameBytes
<1>7. a[0] = {d} /\ \A i \in 1..Len(bytes) : a[i] = {input_byte(x, bytes[i]) : x \in a[i-1]}
  BY <1>5, <1>6 DEF After
<1> QED BY <1>7 DEF a

\* A frame that carries the next bytes of the datagram of r takes the reader further.
LEMMA ReadOn ==
  ASSUME NEW r, Fits(r), Readable(r), NEW n \in Nat, NEW d, HasRead(d, r, n),
         NEW bytes, Len(bytes) \in 0..FrameBytes, n + Len(bytes) <= Len(Written(r)),
         \A i \in 1..Len(bytes) : bytes[i] = Written(r)[n+i]
  PROVE  \A e \in Input(d, bytes) : HasRead(e, r, n + Len(bytes))
<1> DEFINE a == Readings(d, bytes)
           len == Len(bytes)
           P(i) == \A e \in a[i] : HasRead(e, r, n + i)
<1>1. a[0] = {d} /\ \A i \in 1..len : a[i] = {input_byte(x, bytes[i]) : x \in a[i-1]}
  <2>1. Len(bytes) \in 0..FrameBytes
    OBVIOUS
  <2> QED BY <2>1, ReadingsStep
<1>2. len \in 0..8
  BY DEF FrameBytes
<1>3. Len(Written(r)) \in Nat
  BY DatagramLayout
<1>4. Input(d, bytes) = a[len]
  BY DEF Input
<1> HIDE DEF a, len
<1>5. P(0)
  <2>1. n + 0 = n
    OBVIOUS
  <2> QED BY <1>1, <2>1
<1>6. ASSUME NEW i \in 0..7, i < len, P(i) PROVE P(i+1)
  <2>1. i + 1 \in 1..len /\ i + 1 - 1 = i /\ n + i \in Nat /\ n + i + 1 = n + (i + 1)
    BY <1>2, <1>6
  <2>2. bytes[i+1] = Written(r)[n+i+1] /\ n + i < Len(Written(r))
    BY <1>2, <1>3, <2>1 DEF len
  <2>3. SUFFICES ASSUME NEW e \in a[i+1] PROVE HasRead(e, r, n+i+1)
    BY <2>1
  <2>4. PICK x \in a[i] : e = input_byte(x, bytes[i+1])
    <3>1. a[i+1] = {input_byte(x, bytes[i+1]) : x \in a[i+1-1]}
      BY <1>1, <2>1
    <3>2. a[i+1] = {input_byte(x, bytes[i+1]) : x \in a[i]}
      BY <2>1, <3>1
    <3> QED BY <2>3, <3>2
  <2>5. HasRead(x, r, n+i)
    BY <1>6, <2>4
  <2>6. HasRead(input_byte(x, Written(r)[n+i+1]), r, n+i+1)
    BY <2>1, <2>2, <2>5, ReadByte
  <2> QED BY <2>2, <2>4, <2>6
<1> HIDE DEF P
<1>7. 1 <= len => P(1)
  BY <1>2, <1>6, <1>5
<1>8. 2 <= len => P(2)
  BY <1>2, <1>6, <1>7
<1>9. 3 <= len => P(3)
  BY <1>2, <1>6, <1>8
<1>10. 4 <= len => P(4)
  BY <1>2, <1>6, <1>9
<1>11. 5 <= len => P(5)
  BY <1>2, <1>6, <1>10
<1>12. 6 <= len => P(6)
  BY <1>2, <1>6, <1>11
<1>13. 7 <= len => P(7)
  BY <1>2, <1>6, <1>12
<1>14. 8 <= len => P(8)
  BY <1>2, <1>6, <1>13
<1>15. P(len)
  BY <1>2, <1>5, <1>7, <1>8, <1>9, <1>10, <1>11, <1>12, <1>13, <1>14
<1> QED BY <1>4, <1>15 DEF P, len

\* Before the end of the datagram the reader wants more bytes, and at its end it has
\* them all.
LEMMA ReadToTheEnd ==
  ASSUME NEW r, Fits(r), Readable(r), NEW n \in Nat, NEW d, HasRead(d, r, n)
  PROVE  /\ n < Len(Written(r)) => ~is_complete(d)
         /\ n = Len(Written(r)) =>
              is_valid(d) /\ ~OverRead(d) /\ d.dst = r.dst /\ d.data = r.data
<1> DEFINE L == Len(r.dst)
           M == Len(r.data)
<1>1. /\ r.dst \in Seq(Byte) /\ L \in Nat /\ L > 0 /\ r.data \in Seq(Byte) /\ M \in Nat /\ M > 0
      /\ Len(Written(r)) = 10 + L + M /\ Value(Bytes(M)) = M
  <2>1. r.dst \in Seq(Byte) /\ r.data \in Seq(Byte) /\ M < 256*256*256
    BY DEF Fits
  <2>2. L \in Nat /\ L > 0 /\ M \in Nat /\ M > 0
    BY <2>1, EmptySeq DEF Readable
  <2> QED BY <2>1, <2>2, DatagramLayout, BytesOfLength
<1>2. /\ d.reader_state \in {"version", "crc", "dst_len", "dst", "data_len", "data", "trailing"}
      /\ Ahead(d) /\ Behind(d, r) /\ Within(d, r, n)
  BY DEF HasRead, Reader, ReaderState, Overrun
<1>3. ASSUME n < Len(Written(r)) PROVE ~is_complete(d)
  <2>1. d.reader_state = "trailing" => n = 10 + L + M
    BY <1>2 DEF Within
  <2> HIDE DEF L, M
  <2> QED BY <1>1, <1>3, <2>1 DEF is_complete
<1>4. ASSUME n = Len(Written(r))
      PROVE  is_valid(d) /\ ~OverRead(d) /\ d.dst = r.dst /\ d.data = r.data
  <2>1. d.reader_state = "trailing"
    <3>1. n = 10 + L + M
      BY <1>1, <1>4
    <3>2. /\ d.reader_state # "crc" /\ d.reader_state # "dst_len" /\ d.reader_state # "version"
      <4>1. d.reader_state = "crc" => n \in 1..4
        BY <1>2 DEF Within, InCrc
      <4>2. /\ d.reader_state = "dst_len" => n = 5
            /\ d.reader_state = "version" => n = 0
        BY <1>2 DEF Within
      <4> HIDE DEF L, M
      <4> QED BY <1>1, <3>1, <4>1, <4>2
    <3>3. d.reader_state # "dst"
      <4>1. d.reader_state = "dst" => n \in 6..5+L
        BY <1>2 DEF Within, InDst
      <4> HIDE DEF L, M
      <4> QED BY <1>1, <3>1, <4>1
    <3>4. d.reader_state # "data_len"
      <4>1. d.reader_state = "data_len" => n \in 6+L..9+L
        BY <1>2 DEF Within, InDataLen
      <4> HIDE DEF L, M
      <4> QED BY <1>1, <3>1, <4>1
    <3>5. d.reader_state # "data"
      <4>1. d.reader_state = "data" => n \in 10+L..9+L+M
        BY <1>2 DEF Within, InData
      <4> HIDE DEF L, M
      <4> QED BY <1>1, <3>1, <4>1
    <3> QED BY <1>2, <3>2, <3>3, <3>4, <3>5
  <2>2. /\ d.version = CAN_DATAGRAM_VERSION /\ d.crc = Checksum(r.data, r.dst)
        /\ d.dst_len = L /\ d.dst = r.dst /\ d.data_len = Bytes(M) /\ d.data = r.data
    BY <1>2, <2>1 DEF Behind
  <2>3. Prefix(d.dst, d.dst_len) = r.dst /\ Prefix(d.data, Value(d.data_len)) = r.data
    BY <1>1, <2>2, SubSeqFull DEF Prefix
  <2>4. CrcMatches(d)
    BY <2>2, <2>3 DEF CrcMatches, Checksum
  <2>5. ~OverRead(d)
    BY <1>1, <2>2 DEF OverRead
  <2> QED BY <2>1, <2>2, <2>4, <2>5 DEF is_valid, is_complete
<1> QED BY <1>3, <1>4

LEMMA ReaderStarted ==
  ASSUME NEW d \in Reader, NEW r
  PROVE  HasRead(Start(d), r, 0)
<1> DEFINE s == Start(d)
<1>1. <<17, 34, 51, 68>> \in Quad
  BY DEF Quad, Byte
<1>2. /\ s \in Reader /\ s.reader_state = "version" /\ s.crc_read = 0 /\ s.dst = <<>>
      /\ s.data_len_read = 0 /\ s.data = <<>>
  <2>1. <<>> \in Seq(Byte) /\ 0 \in Nat
    BY EmptySeq
  <2> QED BY <1>1, <2>1, ZenonT(60) DEF Start, Reader, ReaderState
<1> HIDE DEF s
<1>3. HasRead(s, r, 0)
  BY <1>2 DEF HasRead, Ahead, Behind, Within, Overrun
<1> QED BY <1>3 DEF s

\* The frames of a datagram: eight bytes each but the last, the first marked.
\* The frames S carry the bytes of W, eight of them in all but the last one, and only
\* the first has the start bit.
CutInto(S, W) ==
  /\ S \in Seq(Frame) /\ Len(S) \in Nat \ {0}
  /\ Len(W) <= 8 * Len(S) /\ 8 * Len(S) < Len(W) + 8
  /\ \A k \in 1..Len(S) :
       /\ S[k].start <=> k = 1
       /\ Len(S[k].data) = IF k < Len(S) THEN 8 ELSE Len(W) - 8 * (k - 1)
       /\ \A i \in 1..Len(S[k].data) : S[k].data[i] = W[8 * (k - 1) + i]

LEMMA FramesOfBytes ==
  ASSUME NEW W \in Seq(Byte), W # <<>>
  PROVE  CutInto(datagram_to_frames(W), W)
<1> DEFINE N == Len(W)
           F == FrameCount(W)
           S == datagram_to_frames(W)
<1>1. W \in Seq(Byte) /\ N \in Nat /\ N >= 1
  BY EmptySeq
<1>2. F \in Nat \ {0} /\ N <= 8 * F /\ 8 * F < N + 8
  <2>1. F = (N + 7) \div 8
    BY <1>1 DEF FrameCount, FrameBytes
  <2> HIDE DEF N, F
  <2> QED BY <1>1, <2>1
<1>3. S = [k \in 1..F |->
             [start |-> k = 1,
              data |-> SubSeq(W, 8 * (k - 1) + 1, IF k < F THEN 8 * k ELSE N)]]
  BY DEF datagram_to_frames, FrameBytes
<1> HIDE DEF N, F, S
<1>4. ASSUME NEW k \in 1..F
      PROVE  /\ S[k].start <=> k = 1
             /\ S[k].data \in Seq(Byte)
             /\ Len(S[k].data) = IF k < F THEN 8 ELSE N - 8 * (k - 1)
             /\ \A i \in 1..Len(S[k].data) : S[k].data[i] = W[8 * (k - 1) + i]
             /\ S[k] \in Frame
  <2> DEFINE lo == 8 * (k - 1) + 1
             hi == IF k < F THEN 8 * k ELSE N
  <2>1. S[k].data = SubSeq(W, lo, hi) /\ S[k].start = (k = 1)
        /\ S[k] = [start |-> k = 1, data |-> SubSeq(W, lo, hi)]
    BY <1>3
  <2>2. /\ lo \in Nat \ {0} /\ hi \in Nat /\ lo <= hi /\ hi <= N
        /\ hi - lo + 1 = IF k < F THEN 8 ELSE N - 8 * (k - 1)
        /\ lo = 8 * (k - 1) + 1 /\ 8 * (k - 1) \in Nat
    BY <1>1, <1>2
  <2> HIDE DEF lo, hi
  <2>3. \A i \in lo..hi : W[i] \in Byte
    <3>1. \A i \in lo..hi : i \in 1..N
      BY <1>1, <2>2
    <3>2. \A i \in 1..N : W[i] \in Byte
      BY <1>1, ElementOfSeq DEF N
    <3> QED BY <3>1, <3>2
  <2>4. /\ SubSeq(W, lo, hi) \in Seq(Byte) /\ Len(SubSeq(W, lo, hi)) = hi - lo + 1
        /\ \A i \in 1..hi-lo+1 : SubSeq(W, lo, hi)[i] = W[lo+i-1]
    BY <2>2, <2>3, SubSeqProperties
  <2>5. \A i \in 1..hi-lo+1 : lo + i - 1 = 8 * (k - 1) + i
    BY <2>2
  <2>6. S[k] \in Frame
    BY <2>1, <2>4 DEF Frame
  <2> QED BY <2>1, <2>2, <2>4, <2>5, <2>6, ZenonT(60)
<1>5. S \in Seq(Frame) /\ Len(S) = F
  <2>1. DOMAIN S = 1..F /\ S = [k \in 1..F |-> S[k]]
    BY <1>3
  <2>2. S \in [1..F -> Frame]
    BY <1>4, <2>1
  <2> QED BY <1>2, <2>2
<1>6. CutInto(S, W)
  <2>1. N = Len(W)
    BY DEF N
  <2> QED BY <1>2, <1>4, <1>5, <2>1 DEF CutInto
<1> QED BY <1>6 DEF S

---------------------------------------------------------------------------
(* Whatever the bytes, the reader stays within its buffers *)

Shaped(d) ==
  /\ d \in Reader
  /\ d.crc_read <= 4
  /\ d.reader_state = "version" => d.crc_read = 0
  /\ d.reader_state = "crc" => d.crc_read < 4
  /\ d.data_len_read <= 4
  /\ d.reader_state \in {"version", "crc", "dst_len", "dst"} => d.data_len_read = 0
  /\ d.reader_state = "data_len" => d.data_len_read < 4
  /\ d.reader_state \in {"version", "crc", "dst_len", "dst", "data_len"} => d.data = <<>>
  /\ d.reader_state = "data" => Len(d.data) < InputSize
  /\ Len(d.data) <= InputSize /\ Len(d.dst) <= AddressSize

LEMMA StartShaped ==
  ASSUME NEW d, Shaped(d)
  PROVE  Shaped(Start(d)) /\ Start(d) \in Reader /\ ~Overrun(Start(d))
<1> DEFINE s == Start(d)
<1>1. <<17, 34, 51, 68>> \in Quad /\ <<>> \in Seq(Byte) /\ Len(<<>>) = 0
  BY EmptySeq DEF Quad, Byte
<1>2. d \in Reader
  BY DEF Shaped
<1>3. /\ s \in Reader /\ s.reader_state = "version" /\ s.crc_read = 0 /\ s.data_len_read = 0
      /\ s.data = <<>> /\ s.dst = <<>>
  BY <1>1, <1>2 DEF Start, Reader, ReaderState
<1>4. InputSize \in Nat \ {0} /\ AddressSize \in Nat \ {0}
  BY DatagramAssumption
<1> HIDE DEF s
<1>5. Shaped(s)
  BY <1>1, <1>3, <1>4 DEF Shaped
<1> QED BY <1>3, <1>5 DEF s, Overrun

LEMMA ByteShaped ==
  ASSUME NEW d, Shaped(d), NEW val \in Byte
  PROVE  Shaped(input_byte(d, val))
<1> DEFINE e == input_byte(d, val)
<1>1. d \in Reader
  BY DEF Shaped
<1>2. /\ d.crc \in Quad /\ d.data_len \in Quad /\ d.dst \in Seq(Byte) /\ d.data \in Seq(Byte)
      /\ d.crc_read \in Nat /\ d.data_len_read \in Nat
      /\ d.reader_state \in ReaderState /\ Len(d.dst) \in Nat
  BY <1>1 DEF Reader, ReaderState
<1>3. ASSUME NEW u \in Quad PROVE Shift(u, val) \in Quad
  <2>1. u \in Seq(Byte) /\ Len(u) = 4 /\ u # <<>>
    BY EmptySeq DEF Quad
  <2>2. Tail(u) \in Seq(Byte) /\ Len(Tail(u)) = Len(u) - 1
    BY <2>1, HeadTailProperties
  <2>3. Append(Tail(u), val) \in Seq(Byte) /\ Len(Append(Tail(u), val)) = Len(Tail(u)) + 1
    BY <2>2, AppendProperties
  <2>4. Len(Tail(u)) = 3
    BY <2>1, <2>2
  <2> DEFINE t == Append(Tail(u), val)
  <2>5. t \in Seq(Byte) /\ Len(t) = 4
    <3> HIDE DEF t
    <3> QED BY <2>3, <2>4 DEF t
  <2>6. Shift(u, val) = t
    BY DEF Shift
  <2> HIDE DEF t
  <2> QED BY <2>5, <2>6 DEF Quad
<1>4. InputSize \in Nat \ {0} /\ AddressSize \in Nat \ {0}
  BY DatagramAssumption
<1> SUFFICES Shaped(e)
  OBVIOUS
<1> HIDE DEF e
<1>5. CASE d.reader_state = "version"
  <2>1. e = [d EXCEPT !.version = val, !.reader_state = "crc"]
    BY <1>5 DEF e, input_byte
  <2>2. /\ e \in Reader /\ e.reader_state = "crc" /\ e.crc_read = d.crc_read
        /\ e.data_len_read = d.data_len_read /\ e.data = d.data /\ e.dst = d.dst
    BY <1>1, <2>1 DEF Reader, ReaderState
  <2> QED BY <1>2, <1>5, <2>2 DEF Shaped
<1>6. CASE d.reader_state = "crc"
  <2> DEFINE t == Shift(d.crc, val)
             f == [d EXCEPT !.crc = t, !.crc_read = d.crc_read + 1]
  <2>1. e = Goto(f, "dst_len", f.crc_read >= 4)
    BY <1>6 DEF e, input_byte
  <2>2. t \in Quad
    BY <1>2, <1>3
  <2> HIDE DEF t
  <2>3. /\ f \in Reader /\ f.reader_state = "crc" /\ f.crc_read = d.crc_read + 1
        /\ f.data_len_read = d.data_len_read /\ f.data = d.data /\ f.dst = d.dst
    <3>1. d.crc_read + 1 \in Nat
      BY <1>2
    <3> QED BY <1>1, <1>6, <2>2, <3>1 DEF Reader, ReaderState
  <2> HIDE DEF f
  <2>4. /\ e \in Reader /\ e.reader_state = IF f.crc_read >= 4 THEN "dst_len" ELSE "crc"
        /\ e.crc_read = d.crc_read + 1
        /\ e.data_len_read = d.data_len_read /\ e.data = d.data /\ e.dst = d.dst
    BY <2>1, <2>3 DEF Goto, Reader, ReaderState
  <2> QED BY <1>2, <1>6, <2>3, <2>4 DEF Shaped
<1>7. CASE d.reader_state = "dst_len"
  <2>1. e = [d EXCEPT !.dst_len = val, !.reader_state = "dst"]
    BY <1>7 DEF e, input_byte
  <2>2. /\ e \in Reader /\ e.reader_state = "dst" /\ e.crc_read = d.crc_read
        /\ e.data_len_read = d.data_len_read /\ e.data = d.data /\ e.dst = d.dst
    BY <1>1, <2>1 DEF Reader, ReaderState
  <2> QED BY <1>2, <1>7, <2>2 DEF Shaped
<1>8. CASE d.reader_state = "dst" /\ Len(d.dst) >= AddressSize
  <2>0. d.reader_state = "dst" /\ Len(d.dst) >= AddressSize
    BY <1>8
  <2>1. e = [d EXCEPT !.reader_state = "overrun"]
    <3>1. ~(Len(d.dst) < AddressSize)
      BY <1>2, <1>4, <1>8
    <3> QED BY <2>0, <3>1 DEF e, input_byte
  <2>2. /\ e \in Reader /\ e.reader_state = "overrun" /\ e.crc_read = d.crc_read
        /\ e.data_len_read = d.data_len_read /\ e.data = d.data /\ e.dst = d.dst
    BY <1>1, <2>1 DEF Reader, ReaderState
  <2> QED BY <1>2, <1>8, <2>2 DEF Shaped
<1>12. CASE d.reader_state = "dst" /\ Len(d.dst) < AddressSize
  <2> DEFINE t == Append(d.dst, val)
             f == [d EXCEPT !.dst = t]
  <2>0. ~(Len(d.dst) >= AddressSize)
    BY <1>2, <1>4, <1>12
  <2>1. e = Goto(f, "data_len", DstComplete(f))
    BY <1>12, <2>0 DEF e, input_byte
  <2>2. t \in Seq(Byte) /\ Len(t) = Len(d.dst) + 1
    BY <1>2, AppendProperties
  <2>5. Len(t) <= AddressSize
    <3> HIDE DEF t
    <3> QED BY <1>2, <1>4, <1>12, <2>2
  <2> HIDE DEF t
  <2>3. /\ f \in Reader /\ f.reader_state = "dst" /\ f.crc_read = d.crc_read
        /\ f.data_len_read = d.data_len_read /\ f.data = d.data /\ f.dst = t
    BY <1>1, <1>12, <2>2 DEF Reader, ReaderState
  <2> HIDE DEF f
  <2>4. /\ e \in Reader /\ e.reader_state \in {"data_len", "dst"} /\ e.crc_read = d.crc_read
        /\ e.data_len_read = d.data_len_read /\ e.data = d.data /\ e.dst = t
    BY <2>1, <2>3 DEF Goto, Reader, ReaderState
  <2> QED BY <1>2, <1>12, <2>4, <2>5 DEF Shaped
<1>9. CASE d.reader_state = "data_len"
  <2> DEFINE t == Shift(d.data_len, val)
             f == [d EXCEPT !.data_len = t, !.data_len_read = d.data_len_read + 1]
  <2>1. e = Goto(f, "data", f.data_len_read >= 4)
    BY <1>9 DEF e, input_byte
  <2>2. t \in Quad
    BY <1>2, <1>3
  <2> HIDE DEF t
  <2>3. /\ f \in Reader /\ f.reader_state = "data_len" /\ f.crc_read = d.crc_read
        /\ f.data_len_read = d.data_len_read + 1 /\ f.data = d.data /\ f.dst = d.dst
    <3>1. d.data_len_read + 1 \in Nat
      BY <1>2
    <3> QED BY <1>1, <1>9, <2>2, <3>1 DEF Reader, ReaderState
  <2> HIDE DEF f
  <2>4. /\ e \in Reader /\ e.reader_state = IF f.data_len_read >= 4 THEN "data" ELSE "data_len"
        /\ e.crc_read = d.crc_read
        /\ e.data_len_read = d.data_len_read + 1 /\ e.data = d.data /\ e.dst = d.dst
    BY <2>1, <2>3 DEF Goto, Reader, ReaderState
  <2>5. Len(e.data) = 0
    BY <1>9, <2>4, EmptySeq DEF Shaped
  <2> QED BY <1>2, <1>4, <1>9, <2>3, <2>4, <2>5 DEF Shaped
<1>10. CASE d.reader_state = "data"
  <2> DEFINE t == Append(d.data, val)
             f == [d EXCEPT !.data = t]
  <2>1. e = Goto(f, "trailing", DataComplete(f))
    BY <1>10 DEF e, input_byte
  <2>2. t \in Seq(Byte) /\ Len(t) = Len(d.data) + 1
    BY <1>2, AppendProperties
  <2> HIDE DEF t
  <2>3. /\ f \in Reader /\ f.reader_state = "data" /\ f.crc_read = d.crc_read
        /\ f.data_len_read = d.data_len_read /\ f.data = t /\ f.dst = d.dst
    BY <1>1, <1>10, <2>2 DEF Reader, ReaderState
  <2>4. Len(d.data) \in Nat /\ Len(d.data) < InputSize
    BY <1>2, <1>10 DEF Shaped
  <2>5. ~DataComplete(f) => Len(t) < InputSize
    BY <1>4, <2>2, <2>3, <2>4 DEF DataComplete
  <2>6. Len(t) <= InputSize
    BY <1>4, <2>2, <2>4
  <2> HIDE DEF f
  <2>7. /\ e \in Reader /\ e.reader_state = IF DataComplete(f) THEN "trailing" ELSE "data"
        /\ e.crc_read = d.crc_read /\ e.data_len_read = d.data_len_read /\ e.data = t
        /\ e.dst = d.dst
    BY <2>1, <2>3 DEF Goto, Reader, ReaderState
  <2> QED BY <1>2, <1>10, <2>5, <2>6, <2>7 DEF Shaped
<1>11. CASE d.reader_state \in {"trailing", "overrun"}
  <2>1. e = d
    BY <1>11 DEF e, input_byte
  <2> QED BY <2>1
<1>13. Len(d.dst) >= AddressSize \/ Len(d.dst) < AddressSize
  BY <1>2, <1>4
<1> QED BY <1>2, <1>5, <1>6, <1>7, <1>8, <1>9, <1>10, <1>11, <1>12, <1>13 DEF ReaderState

LEMMA FrameShaped ==
  ASSUME NEW d, Shaped(d), NEW bytes \in Seq(Byte), Len(bytes) \in 0..FrameBytes
  PROVE  \A e \in Input(d, bytes) : Shaped(e)
<1> DEFINE a == Readings(d, bytes)
           len == Len(bytes)
           P(i) == \A e \in a[i] : Shaped(e)
<1>1. a[0] = {d} /\ \A i \in 1..len : a[i] = {input_byte(x, bytes[i]) : x \in a[i-1]}
  <2>1. Len(bytes) \in 0..FrameBytes
    OBVIOUS
  <2> QED BY <2>1, ReadingsStep
<1>2. len \in 0..8
  BY DEF FrameBytes
<1>3. \A i \in 1..len : bytes[i] \in Byte
  BY ElementOfSeq
<1>4. Input(d, bytes) = a[len]
  BY DEF Input
<1> HIDE DEF a, len
<1>5. P(0)
  BY <1>1
<1>6. ASSUME NEW i \in 0..7, i < len, P(i) PROVE P(i+1)
  <2>1. i + 1 \in 1..len /\ i + 1 - 1 = i
    BY <1>2, <1>6
  <2>2. a[i+1] = {input_byte(x, bytes[i+1]) : x \in a[i]}
    <3>1. a[i+1] = {input_byte(x, bytes[i+1]) : x \in a[i+1-1]}
      BY <1>1, <2>1
    <3> QED BY <2>1, <3>1
  <2>3. SUFFICES ASSUME NEW x \in a[i] PROVE Shaped(input_byte(x, bytes[i+1]))
    BY <2>2
  <2>4. Shaped(x)
    BY <1>6
  <2> QED BY <1>3, <2>1, <2>4, ByteShaped
<1> HIDE DEF P
<1>7. 1 <= len => P(1)
  BY <1>2, <1>6, <1>5
<1>8. 2 <= len => P(2)
  BY <1>2, <1>6, <1>7
<1>9. 3 <= len => P(3)
  BY <1>2, <1>6, <1>8
<1>10. 4 <= len => P(4)
  BY <1>2, <1>6, <1>9
<1>11. 5 <= len => P(5)
  BY <1>2, <1>6, <1>10
<1>12. 6 <= len => P(6)
  BY <1>2, <1>6, <1>11
<1>13. 7 <= len => P(7)
  BY <1>2, <1>6, <1>12
<1>14. 8 <= len => P(8)
  BY <1>2, <1>6, <1>13
<1>15. P(len)
  BY <1>2, <1>5, <1>7, <1>8, <1>9, <1>10, <1>11, <1>12, <1>13, <1>14
<1> QED BY <1>4, <1>15 DEF P, len

---------------------------------------------------------------------------
(* What the client writes, the client reads *)

LEMMA PartOf ==
  ASSUME NEW s \in Seq(Byte), NEW t \in Seq(Byte), NEW lo \in Nat \ {0}, NEW hi \in Nat,
         hi = lo + Len(t) - 1, hi <= Len(s),
         \A j \in 1..Len(t) : s[lo + j - 1] = t[j]
  PROVE  SubSeq(s, lo, hi) = t
<1>1. Len(s) \in Nat /\ Len(t) \in Nat
  OBVIOUS
<1>2. PICK n \in Nat : n = Len(t) /\ hi - lo + 1 = n /\ lo <= hi + 1
  BY <1>1
<1>3. \A i \in lo..hi : s[i] \in Byte
  <2>1. \A i \in lo..hi : i \in 1..Len(s)
    BY <1>1
  <2> QED BY <2>1, ElementOfSeq
<1>4. /\ SubSeq(s, lo, hi) \in Seq(Byte) /\ Len(SubSeq(s, lo, hi)) = hi - lo + 1
      /\ \A i \in 1..hi-lo+1 : SubSeq(s, lo, hi)[i] = s[lo+i-1]
  BY <1>2, <1>3, SubSeqProperties
<1> DEFINE u == SubSeq(s, lo, hi)
<1> HIDE DEF u
<1>5. u \in Seq(Byte) /\ Len(u) = n /\ \A i \in 1..n : u[i] = t[i]
  BY <1>2, <1>4 DEF u
<1>6. u = t
  BY <1>2, <1>5, SeqEqual
<1> QED BY <1>6 DEF u

\* decode_datagram() gives back what encode_datagram() was given (datagram.py),
\* whatever the data, the destinations and the checksum.
THEOREM EncodedIsDecoded ==
  ASSUME NEW r, Fits(r)
  PROVE  decode_datagram(encode_datagram(r.data, r.dst)) = Decoded(r.data, r.dst)
<1> DEFINE W == Written(r)
           C == Checksum(r.data, r.dst)
<1>0. PICK L \in Nat, M \in Nat : L = Len(r.dst) /\ M = Len(r.data)
  BY DEF Fits
<1>b. PICK B : B = Bytes(M)
  OBVIOUS
<1>1. /\ r.dst \in Seq(Byte) /\ r.data \in Seq(Byte) /\ C \in Seq(Byte) /\ Len(C) = 4
  BY DEF Fits, Quad
<1>2. B \in Seq(Byte) /\ Len(B) = 4 /\ Value(B) = M
  <2>1. M < 256*256*256
    BY <1>0, <1>b DEF Fits
  <2> QED BY <1>0, <1>b, <2>1, BytesOfLength DEF Quad
<1>3. PICK N \in Nat : N = Len(W) /\ N = 10 + L + M
  <2>1. Len(W) = 10 + L + M
    BY <1>0, <1>b, DatagramLayout
  <2> HIDE DEF W
  <2>2. 10 + L + M \in Nat
    OBVIOUS
  <2> QED BY <2>1, <2>2
<1>4. /\ W \in Seq(Byte)
      /\ W[1] = CAN_DATAGRAM_VERSION /\ W[6] = L
      /\ \A j \in 1..4 : W[1+j] = C[j]
      /\ \A j \in 1..L : W[6+j] = r.dst[j]
      /\ \A j \in 1..4 : W[6+L+j] = B[j]
      /\ \A j \in 1..M : W[10+L+j] = r.data[j]
  BY <1>0, <1>b, DatagramLayout
<1>w. W \in Seq(Byte) /\ N = Len(W)
  BY <1>3, <1>4
<1> HIDE DEF W, C
<1>5. SubSeq(W, 2, 5) = C
  <2>1. PICK lo \in Nat \ {0}, hi \in Nat :
          /\ lo = 2 /\ hi = 5 /\ hi = lo + 4 - 1 /\ hi <= N
          /\ \A j \in 1..4 : lo + j - 1 = 1 + j
    BY <1>3
  <2>2. \A j \in 1..4 : W[lo + j - 1] = C[j]
    BY <1>4, <2>1, SMTT(60)
  <2>3. SubSeq(W, lo, hi) = C
    BY <1>1, <1>w, <2>1, <2>2, PartOf
  <2> QED BY <2>1, <2>3
<1>6. SubSeq(W, 7, 6 + L) = r.dst
  <2>1. \A j \in 1..L : 7 + j - 1 = 6 + j
    OBVIOUS
  <2>2. \A j \in 1..L : W[7 + j - 1] = r.dst[j]
    BY <1>4, <2>1
  <2>3. 6 + L = 7 + L - 1 /\ 6 + L <= N /\ 6 + L \in Nat
    BY <1>3
  <2> QED BY <1>0, <1>1, <1>w, <2>2, <2>3, PartOf
<1>7. SubSeq(W, 7 + L, 10 + L) = B
  <2>1. PICK lo \in Nat \ {0}, hi \in Nat :
          /\ lo = 7 + L /\ hi = 10 + L /\ hi = lo + 4 - 1 /\ hi <= N
          /\ \A j \in 1..4 : lo + j - 1 = 6 + L + j
    BY <1>3
  <2>2. ASSUME NEW j \in 1..4 PROVE W[lo + j - 1] = B[j]
    <3>1. W[6 + L + j] = B[j]
      BY <1>4
    <3>2. lo + j - 1 = 6 + L + j
      BY <2>1
    <3> QED BY <3>1, <3>2, Zenon
  <2>3. SubSeq(W, lo, hi) = B
    BY <1>2, <1>w, <2>1, <2>2, PartOf
  <2> QED BY <2>1, <2>3
<1>8. From(W, 11 + L) = r.data
  <2>1. PICK lo \in Nat \ {0} :
          /\ lo = 11 + L /\ N = lo + M - 1
          /\ \A j \in 1..M : lo + j - 1 = 10 + L + j
    BY <1>3
  <2>2. ASSUME NEW j \in 1..M PROVE W[lo + j - 1] = r.data[j]
    <3>1. W[10 + L + j] = r.data[j]
      BY <1>4
    <3>2. lo + j - 1 = 10 + L + j
      BY <2>1
    <3> QED BY <3>1, <3>2, Zenon
  <2>3. \A j \in 1..Len(r.data) : W[lo + j - 1] = r.data[j]
    BY <1>0, <1>b, <2>2
  <2>4. N <= Len(W) /\ N = lo + Len(r.data) - 1
    <3>1. N <= N /\ N = lo + M - 1
      BY <2>1
    <3>2. M = Len(r.data) /\ N = Len(W)
      BY <1>0, <1>b, <1>3
    <3> QED BY <3>1, <3>2, Zenon
  <2>5. SubSeq(W, lo, N) = r.data
    BY <1>1, <1>w, <2>1, <2>3, <2>4, PartOf, ZenonT(60)
  <2> QED BY <1>3, <2>1, <2>5 DEF From
<1>9. ~Damaged(C, r.dst, B, r.data)
  BY <1>0, <1>b, <1>2 DEF Damaged, C
<1>10. ~(Len(W) < 10 + L) /\ ~(Len(W) < 6)
  BY <1>3
<1>11. decode_datagram(W) = Decoded(r.data, r.dst)
  BY <1>4, <1>5, <1>6, <1>7, <1>8, <1>9, <1>10 DEF decode_datagram
<1> QED BY <1>11 DEF W, Written

\* ... and nothing before the last byte: read_can_datagrams(), which tries to decode
\* what it has after each frame, takes a datagram when it is whole and not before,
\* whatever the checksum.
THEOREM BeginningIsNotDecoded ==
  ASSUME NEW r, Fits(r), NEW n \in Nat \ {0}, n < Len(encode_datagram(r.data, r.dst))
  PROVE  decode_datagram(SubSeq(encode_datagram(r.data, r.dst), 1, n)) = NoDatagram
<1> DEFINE W == Written(r)
           P == SubSeq(W, 1, n)
<1> SUFFICES decode_datagram(P) = NoDatagram
  BY DEF Written
<1>0. PICK L \in Nat, M \in Nat : L = Len(r.dst) /\ M = Len(r.data)
  BY DEF Fits
<1>b. PICK B : B = Bytes(M)
  OBVIOUS
<1>2. B \in Seq(Byte) /\ Len(B) = 4 /\ Value(B) = M
  <2>1. M < 256*256*256
    BY <1>0, <1>b DEF Fits
  <2> QED BY <1>0, <1>b, <2>1, BytesOfLength DEF Quad
<1>3. PICK N \in Nat : N = Len(W) /\ N = 10 + L + M
  <2>1. Len(W) = 10 + L + M
    BY <1>0, <1>b, DatagramLayout
  <2> HIDE DEF W
  <2>2. 10 + L + M \in Nat
    OBVIOUS
  <2> QED BY <2>1, <2>2
<1>4. /\ W \in Seq(Byte) /\ W[6] = L
      /\ \A j \in 1..4 : W[6+L+j] = B[j]
  BY <1>0, <1>b, DatagramLayout
<1>5. n < N
  BY <1>3 DEF W, Written
<1> HIDE DEF W
<1>6. P \in Seq(Byte) /\ Len(P) = n /\ \A i \in 1..n : P[i] = W[i]
  <2>1. \A i \in 1..n : i \in 1..N
    BY <1>5
  <2>2. \A i \in 1..n : W[i] \in Byte
    BY <1>3, <1>4, <2>1, ElementOfSeq
  <2>3. /\ SubSeq(W, 1, n) \in Seq(Byte) /\ Len(SubSeq(W, 1, n)) = n - 1 + 1
        /\ \A i \in 1..n-1+1 : SubSeq(W, 1, n)[i] = W[1+i-1]
    BY <2>2, SubSeqProperties
  <2>4. n - 1 + 1 = n /\ \A i \in 1..n : 1+i-1 = i
    OBVIOUS
  <2> QED BY <2>3, <2>4
<1> HIDE DEF P
<1>7. CASE n < 6
  BY <1>6, <1>7 DEF decode_datagram
<1>8. CASE n >= 6 /\ n < 10 + L
  <2>1. P[6] = L
    BY <1>4, <1>6, <1>8
  <2> QED BY <1>6, <1>8, <2>1 DEF decode_datagram
<1>9. CASE n >= 10 + L
  <2>1. P[6] = L
    <3>1. 6 \in 1..n
      BY <1>9
    <3> QED BY <1>4, <1>6, <3>1
  <2>2. SubSeq(P, 7 + L, 10 + L) = B
    <3>1. \A j \in 1..4 : 7 + L + j - 1 = 6 + L + j /\ 6 + L + j \in 1..n
      BY <1>9
    <3>2. \A j \in 1..4 : P[7 + L + j - 1] = B[j]
      BY <1>4, <1>6, <3>1
    <3>3. 10 + L = 7 + L + 4 - 1 /\ 10 + L <= n /\ 10 + L \in Nat /\ 7 + L \in Nat \ {0}
      BY <1>9
    <3> QED BY <1>2, <1>6, <3>2, <3>3, PartOf
  <2>3. Len(From(P, 11 + L)) = n - 10 - L /\ n - 10 - L < M
    <3>1. \A i \in 11 + L..n : i \in 1..n
      OBVIOUS
    <3>2. \A i \in 11 + L..n : P[i] \in Byte
      BY <1>6, <3>1, ElementOfSeq
    <3>3. /\ 11 + L \in Nat /\ 11 + L <= n + 1 /\ 11 + L \in Int /\ n \in Int
          /\ n - (11 + L) + 1 = n - 10 - L
      BY <1>9
    <3>4. Len(SubSeq(P, 11 + L, n)) = n - (11 + L) + 1
      <4> PICK lo \in Int : lo = 11 + L
        OBVIOUS
      <4>1. Len(SubSeq(P, lo, n)) = IF lo <= n THEN n - lo + 1 ELSE 0
        BY <3>2, <3>3, SubSeqProperties
      <4> QED BY <3>3, <4>1
    <3>5. n - 10 - L < M
      BY <1>3, <1>5
    <3> QED BY <1>6, <3>3, <3>4, <3>5 DEF From
  <2>4. \A crc, dst : Damaged(crc, dst, B, From(P, 11 + L))
    BY <1>2, <2>3 DEF Damaged
  <2> QED BY <1>6, <2>1, <2>2, <2>4 DEF decode_datagram
<1> QED BY <1>7, <1>8, <1>9

---------------------------------------------------------------------------
(* What the board accepts, whatever the bytes *)

\* u ends in the k bytes of B from m + 1 on, and s holds those its length says.
EndsWith(u, B, m, k) == \A j \in 1..k : u[4-k+j] = B[m+j]
Holds(s, B, m) == \A j \in 1..Len(s) : s[j] = B[m+j]

\* What the reader holds when it has read the first n bytes of B since its start,
\* whatever they are.
Parsed(d, B, n) ==
  LET state == d.reader_state
      L == Len(d.dst)
      size == Value(d.data_len)
  IN /\ state = "version" => n = 0
     /\ state # "version" => d.version = B[1]
     /\ state = "crc" => n = 1 + d.crc_read /\ EndsWith(d.crc, B, 1, d.crc_read)
     /\ state \notin {"version", "crc"} => EndsWith(d.crc, B, 1, 4)
     /\ state = "dst_len" => n = 5
     /\ state \in {"version", "crc", "dst_len"} => d.dst = <<>>
     /\ state \in {"dst", "data_len", "data", "trailing", "overrun"} =>
          d.dst_len = B[6] /\ Holds(d.dst, B, 6)
     /\ state = "dst" => n = 6 + L /\ L < Taken(d.dst_len)
     /\ state \in {"data_len", "data", "trailing"} => L = Taken(d.dst_len)
     /\ state = "data_len" => /\ n = 6 + L + d.data_len_read
                              /\ EndsWith(d.data_len, B, 6 + L, d.data_len_read)
     /\ state \in {"data", "trailing"} => EndsWith(d.data_len, B, 6 + L, 4) /\ Holds(d.data, B, 10 + L)
     /\ state = "data" => n = 10 + L + Len(d.data) /\ Len(d.data) < Taken(size)
     /\ state = "trailing" => /\ n >= 10 + L + Len(d.data) /\ Len(d.data) \in 1..Taken(size)
                             /\ DataComplete(d)
     /\ state = "overrun" => L = AddressSize /\ n > 6 + L /\ L < Taken(d.dst_len)

LEMMA ShiftEnds ==
  ASSUME NEW u \in Quad, NEW B, NEW m \in Nat, NEW k \in 0..3, NEW val \in Byte,
         EndsWith(u, B, m, k), val = B[m+k+1]
  PROVE  Shift(u, val) \in Quad /\ EndsWith(Shift(u, val), B, m, k+1)
<1> DEFINE t == Shift(u, val)
           v == Tail(u)
<1>1. u \in Seq(Byte) /\ Len(u) = 4 /\ u # <<>>
  <2>1. u \in Seq(Byte) /\ Len(u) = 4
    BY DEF Quad
  <2>2. Len(u) # 0
    BY <2>1
  <2>3. u # <<>>
    BY <2>2, EmptySeq, Zenon
  <2> QED BY <2>1, <2>3
<1>2. v \in Seq(Byte) /\ Len(v) = 3 /\ \A i \in 1..3 : v[i] = u[i+1]
  <2>1. /\ Tail(u) \in Seq(Byte) /\ Len(Tail(u)) = Len(u) - 1
        /\ \A i \in 1..Len(Tail(u)) : Tail(u)[i] = u[i+1]
    BY <1>1, HeadTailProperties
  <2>2. Len(Tail(u)) = 3
    BY <1>1, <2>1
  <2> QED BY <2>1, <2>2
<1>3. t = Append(v, val)
  BY DEF Shift
<1> HIDE DEF t, v
<1>4. t \in Seq(Byte) /\ Len(t) = 4 /\ t[4] = val /\ \A i \in 1..3 : t[i] = v[i]
  <2>1. /\ Append(v, val) \in Seq(Byte) /\ Len(Append(v, val)) = Len(v) + 1
        /\ Append(v, val)[Len(v)+1] = val
        /\ \A i \in 1..Len(v) : Append(v, val)[i] = v[i]
    <3>1. v \in Seq(Byte) /\ val \in Byte
      BY <1>2
    <3> QED BY <3>1, AppendProperties, Z3T(60)
  <2> QED BY <1>2, <1>3, <2>1
<1>5. ASSUME NEW j \in 1..k+1 PROVE t[4-(k+1)+j] = B[m+j]
  <2>1. CASE j = k + 1
    <3>1. 4-(k+1)+j = 4 /\ m+j = m+k+1
      BY <2>1
    <3> QED BY <1>4, <3>1
  <2>2. CASE j \in 1..k
    <3>1. 4-(k+1)+j \in 1..3 /\ 4-(k+1)+j+1 = 4-k+j
      BY <2>2
    <3>2. t[4-(k+1)+j] = u[4-k+j]
      BY <1>2, <1>4, <3>1
    <3> QED BY <2>2, <3>2 DEF EndsWith
  <2> QED BY <2>1, <2>2
<1> QED BY <1>4, <1>5 DEF Quad, EndsWith, t

LEMMA AppendHolds ==
  ASSUME NEW s \in Seq(Byte), NEW B, NEW m \in Nat, NEW val \in Byte, Holds(s, B, m), val = B[m+Len(s)+1]
  PROVE  /\ Append(s, val) \in Seq(Byte) /\ Len(Append(s, val)) = Len(s) + 1
         /\ Holds(Append(s, val), B, m)
<1> DEFINE t == Append(s, val)
<1>1. t \in Seq(Byte) /\ Len(t) = Len(s) + 1 /\ t[Len(s)+1] = val /\ Len(s) \in Nat
      /\ \A j \in 1..Len(s) : t[j] = s[j]
  BY AppendProperties
<1> HIDE DEF t
<1>2. ASSUME NEW j \in 1..Len(t) PROVE t[j] = B[m+j]
  <2>1. CASE j = Len(s) + 1
    <3>1. m + j = m + Len(s) + 1
      BY <1>1, <2>1
    <3> QED BY <1>1, <2>1, <3>1
  <2>2. CASE j \in 1..Len(s)
    BY <1>1, <2>2 DEF Holds
  <2> QED BY <1>1, <2>1, <2>2
<1> QED BY <1>1, <1>2 DEF Holds, t

ThreeDigits(a, b, c) == (a * 256 + b) * 256 + c

LEMMA ThreeDigitsType ==
  /\ \A a, b, c \in Nat : ThreeDigits(a, b, c) \in Nat
  /\ 256*256*256 \in Nat
BY DEF ThreeDigits

LEMMA ValueType ==
  ASSUME NEW u \in Quad
  PROVE  Value(u) \in Nat
<1>1. u \in Seq(Byte) /\ Len(u) = 4
  BY DEF Quad
<1>2. \A i \in 1..4 : u[i] \in Byte
  BY <1>1, ElementOfSeq
<1>3. \A i \in {2, 3, 4} : u[i] \in Nat
  BY <1>2, SMTT(60) DEF Byte
<1>4. ThreeDigits(u[2], u[3], u[4]) \in Nat
  BY <1>3, ThreeDigitsType, Zenon
<1>5. Value(u) \in {256*256*256, ThreeDigits(u[2], u[3], u[4])}
  BY Zenon DEF Value, ThreeDigits
<1> QED BY <1>4, <1>5, ThreeDigitsType, Zenon

LEMMA TakenType ==
  ASSUME NEW n \in Nat
  PROVE  Taken(n) \in Nat \ {0} /\ Taken(n) >= n /\ (n > 0 => Taken(n) = n)
BY DEF Taken

LEMMA OneMore ==
  ASSUME NEW n \in Nat, NEW m \in Nat, NEW l \in Nat, NEW k \in Nat
  PROVE  /\ n >= m => n + 1 >= m
         /\ n = m + l => n + 1 = m + (l + 1)
         /\ l + 1 \in Nat \ {0} /\ (l < k => l + 1 \in 1..k)
OBVIOUS

LEMMA ParseByte ==
  ASSUME NEW d, Shaped(d), NEW n \in Nat, NEW B, B[n+1] \in Byte, Parsed(d, B, n)
  PROVE  Parsed(input_byte(d, B[n+1]), B, n+1)
<1> PICK val \in Byte : val = B[n+1]
  OBVIOUS
<1> DEFINE e == input_byte(d, val)
<1>1. d \in Reader
  BY DEF Shaped
<1>2. /\ d.crc \in Quad /\ d.data_len \in Quad /\ d.dst \in Seq(Byte) /\ d.data \in Seq(Byte)
      /\ d.crc_read \in Nat /\ d.data_len_read \in Nat /\ d.dst_len \in Byte
      /\ d.reader_state \in ReaderState
      /\ Len(d.dst) \in Nat /\ Len(d.data) \in Nat
  BY <1>1 DEF Reader, ReaderState
<1>3. /\ d.dst_len \in Nat
      /\ 10 + Len(d.dst) \in Nat /\ 10 + Len(d.dst) + Len(d.data) \in Nat
  <2>1. \A l, m \in Nat : 10 + l \in Nat /\ 10 + l + m \in Nat
    OBVIOUS
  <2>2. \A b \in Byte : b \in Nat
    BY DEF Byte
  <2> QED BY <1>2, <2>1, <2>2, Zenon
<1> SUFFICES Parsed(e, B, n+1)
  OBVIOUS
<1> HIDE DEF e
<1>5. CASE d.reader_state = "version"
  <2>1. e = [d EXCEPT !.version = val, !.reader_state = "crc"]
    BY <1>5 DEF e, input_byte
  <2>2. /\ e.reader_state = "crc" /\ e.version = val /\ e.crc_read = d.crc_read
        /\ e.crc = d.crc /\ e.dst = d.dst
    BY <1>1, <2>1 DEF Reader
  <2>3. n = 0 /\ d.crc_read = 0 /\ d.dst = <<>>
    BY <1>5 DEF Parsed, Shaped
  <2>4. EndsWith(e.crc, B, 1, 0)
    BY DEF EndsWith
  <2> QED BY <2>2, <2>3, <2>4 DEF Parsed
<1>6. CASE d.reader_state = "crc"
  <2> DEFINE t == Shift(d.crc, val)
             f == [d EXCEPT !.crc = t, !.crc_read = d.crc_read + 1]
  <2>1. e = Goto(f, "dst_len", f.crc_read >= 4)
    BY <1>6 DEF e, input_byte
  <2>2. n = 1 + d.crc_read /\ EndsWith(d.crc, B, 1, d.crc_read) /\ d.crc_read < 4 /\ d.dst = <<>>
        /\ d.version = B[1]
    BY <1>6 DEF Parsed, Shaped
  <2>3. t \in Quad /\ EndsWith(t, B, 1, d.crc_read + 1)
    <3>1. d.crc_read \in 0..3 /\ val = B[1 + d.crc_read + 1]
      BY <1>2, <2>2
    <3> QED BY <1>2, <2>2, <3>1, ShiftEnds
  <2> HIDE DEF t
  <2>4. /\ f.reader_state = "crc" /\ f.crc_read = d.crc_read + 1 /\ f.crc = t
        /\ f.dst = d.dst /\ f.version = d.version /\ f \in Reader
    <3>1. d.crc_read + 1 \in Nat
      BY <1>2
    <3> QED BY <1>1, <1>6, <2>3, <3>1 DEF Reader
  <2> HIDE DEF f
  <2>5. /\ e.reader_state = IF f.crc_read >= 4 THEN "dst_len" ELSE "crc"
        /\ e.crc_read = d.crc_read + 1 /\ e.crc = t /\ e.dst = d.dst /\ e.version = d.version
    BY <2>1, <2>4 DEF Goto, Reader
  <2>6. CASE f.crc_read >= 4
    <3>1. d.crc_read + 1 = 4 /\ n + 1 = 5
      BY <1>2, <2>2, <2>4, <2>6
    <3> QED BY <2>2, <2>3, <2>5, <2>6, <3>1 DEF Parsed
  <2>7. CASE ~(f.crc_read >= 4)
    <3>1. n + 1 = 1 + (d.crc_read + 1)
      BY <1>2, <2>2
    <3> QED BY <2>2, <2>3, <2>5, <2>7, <3>1 DEF Parsed
  <2> QED BY <2>6, <2>7
<1>7. CASE d.reader_state = "dst_len"
  <2>1. e = [d EXCEPT !.dst_len = val, !.reader_state = "dst"]
    BY <1>7 DEF e, input_byte
  <2>2. /\ e.reader_state = "dst" /\ e.dst_len = val /\ e.crc = d.crc /\ e.dst = d.dst
        /\ e.version = d.version
    BY <1>1, <2>1 DEF Reader
  <2>3. n = 5 /\ d.dst = <<>> /\ EndsWith(d.crc, B, 1, 4) /\ d.version = B[1]
    BY <1>7 DEF Parsed
  <2>4. Len(<<>>) = 0 /\ 0 < Taken(val)
    <3>1. val \in Nat
      BY DEF Byte
    <3>2. Taken(val) \in Nat \ {0}
      BY <3>1, TakenType
    <3> QED BY <3>2, EmptySeq
  <2>5. Holds(<<>>, B, 6)
    BY <2>4 DEF Holds
  <2> QED BY <2>2, <2>3, <2>4, <2>5 DEF Parsed
<1>8. CASE d.reader_state = "dst" /\ Len(d.dst) < AddressSize
  <2> DEFINE t == Append(d.dst, val)
             f == [d EXCEPT !.dst = t]
  <2>1. e = Goto(f, "data_len", DstComplete(f))
    <3>1. ~(Len(d.dst) >= AddressSize)
      BY <1>2, <1>8, DatagramAssumption
    <3> QED BY <1>8, <3>1 DEF e, input_byte
  <2>2. /\ n = 6 + Len(d.dst) /\ Len(d.dst) < Taken(d.dst_len) /\ EndsWith(d.crc, B, 1, 4)
        /\ d.version = B[1] /\ d.dst_len = B[6] /\ Holds(d.dst, B, 6) /\ d.data_len_read = 0
    BY <1>8 DEF Parsed, Shaped
  <2>3. t \in Seq(Byte) /\ Len(t) = Len(d.dst) + 1 /\ Holds(t, B, 6)
    <3>1. val = B[6 + Len(d.dst) + 1]
      BY <2>2
    <3> QED BY <1>2, <2>2, <3>1, AppendHolds
  <2> HIDE DEF t
  <2>4. /\ f.reader_state = "dst" /\ f.dst = t /\ f.dst_len = d.dst_len /\ f.crc = d.crc
        /\ f.version = d.version /\ f.data_len_read = d.data_len_read /\ f.data_len = d.data_len
        /\ f \in Reader
    BY <1>1, <1>8, <2>3 DEF Reader
  <2> HIDE DEF f
  <2>5. /\ e.reader_state = (IF DstComplete(f) THEN "data_len" ELSE "dst")
        /\ e.dst = t /\ e.dst_len = d.dst_len /\ e.crc = d.crc
        /\ e.version = d.version /\ e.data_len_read = 0 /\ e.data_len = d.data_len
    BY <2>1, <2>2, <2>4 DEF Goto, Reader
  <2>6. DstComplete(f) <=> Len(t) >= d.dst_len
    BY <2>4 DEF DstComplete
  <2>7. d.dst_len \in Nat /\ Len(t) \in Nat \ {0} /\ n + 1 = 6 + Len(t)
    <3>1. PICK l \in Nat : l = Len(d.dst)
      BY <1>2
    <3>2. Len(t) = l + 1 /\ n = 6 + l
      BY <2>2, <2>3, <3>1
    <3>3. l + 1 \in Nat \ {0} /\ n + 1 = 6 + (l + 1)
      BY <3>2, OneMore
    <3> QED BY <1>3, <3>2, <3>3
  <2>8. CASE DstComplete(f)
    <3>1. Len(t) = Taken(d.dst_len)
      BY <1>2, <2>2, <2>3, <2>6, <2>7, <2>8 DEF Taken
    <3>2. EndsWith(e.data_len, B, 6 + Len(t), 0)
      BY DEF EndsWith
    <3>3. n + 1 = 6 + Len(t) + 0
      BY <2>7
    <3> QED BY <2>2, <2>3, <2>5, <2>8, <3>1, <3>2, <3>3 DEF Parsed
  <2>9. CASE ~DstComplete(f)
    <3>1. Len(t) < Taken(d.dst_len)
      BY <2>6, <2>7, <2>9 DEF Taken
    <3> QED BY <2>2, <2>3, <2>5, <2>7, <2>9, <3>1 DEF Parsed
  <2> QED BY <2>8, <2>9
<1>12. CASE d.reader_state = "dst" /\ Len(d.dst) >= AddressSize
  <2>0. d.reader_state = "dst" /\ Len(d.dst) >= AddressSize
    BY <1>12
  <2>1. e = [d EXCEPT !.reader_state = "overrun"]
    <3>1. ~(Len(d.dst) < AddressSize)
      BY <1>2, <1>12, DatagramAssumption
    <3> QED BY <2>0, <3>1 DEF e, input_byte
  <2>2. /\ e.reader_state = "overrun" /\ e.dst = d.dst /\ e.dst_len = d.dst_len
        /\ e.crc = d.crc /\ e.version = d.version
    BY <1>1, <2>1 DEF Reader
  <2>3. /\ n = 6 + Len(d.dst) /\ Len(d.dst) < Taken(d.dst_len) /\ EndsWith(d.crc, B, 1, 4)
        /\ d.version = B[1] /\ d.dst_len = B[6] /\ Holds(d.dst, B, 6)
        /\ Len(d.dst) <= AddressSize
    BY <2>0 DEF Parsed, Shaped
  <2>4. Len(d.dst) = AddressSize
    BY <1>2, <2>0, <2>3, DatagramAssumption
  <2>5. n + 1 > 6 + Len(d.dst)
    BY <1>2, <2>3
  <2> QED BY <2>2, <2>3, <2>4, <2>5 DEF Parsed
<1>9. CASE d.reader_state = "data_len"
  <2> DEFINE t == Shift(d.data_len, val)
             f == [d EXCEPT !.data_len = t, !.data_len_read = d.data_len_read + 1]
  <2> PICK L \in Nat : L = Len(d.dst)
    BY <1>2
  <2>1. e = Goto(f, "data", f.data_len_read >= 4)
    BY <1>9 DEF e, input_byte
  <2>2. /\ n = 6 + L + d.data_len_read /\ EndsWith(d.data_len, B, 6 + L, d.data_len_read)
        /\ d.data_len_read < 4 /\ EndsWith(d.crc, B, 1, 4) /\ d.version = B[1] /\ d.dst_len = B[6]
        /\ Holds(d.dst, B, 6) /\ L = Taken(d.dst_len) /\ d.data = <<>>
    BY <1>9 DEF Parsed, Shaped
  <2>3. t \in Quad /\ EndsWith(t, B, 6 + L, d.data_len_read + 1)
    <3>1. d.data_len_read \in 0..3 /\ val = B[6 + L + d.data_len_read + 1] /\ 6 + L \in Nat
      BY <1>2, <2>2, SMTT(60)
    <3> QED BY <1>2, <2>2, <3>1, ShiftEnds
  <2> HIDE DEF t
  <2>4. /\ f.reader_state = "data_len" /\ f.data_len_read = d.data_len_read + 1 /\ f.data_len = t
        /\ f.dst = d.dst /\ f.dst_len = d.dst_len /\ f.crc = d.crc /\ f.version = d.version
        /\ f.data = d.data /\ f \in Reader
    <3>1. d.data_len_read + 1 \in Nat
      BY <1>2
    <3> QED BY <1>1, <1>9, <2>3, <3>1 DEF Reader
  <2> HIDE DEF f
  <2>5. /\ e.reader_state = (IF f.data_len_read >= 4 THEN "data" ELSE "data_len")
        /\ e.data_len_read = d.data_len_read + 1 /\ e.data_len = t
        /\ e.dst = d.dst /\ e.dst_len = d.dst_len /\ e.crc = d.crc /\ e.version = d.version
        /\ e.data = <<>>
    BY <2>1, <2>2, <2>4 DEF Goto, Reader
  <2>6. CASE f.data_len_read >= 4
    <3>1. d.data_len_read + 1 = 4 /\ n + 1 = 10 + L + 0
      BY <1>2, <2>2, <2>4, <2>6
    <3>2. Len(<<>>) = 0 /\ 0 < Taken(Value(t))
      <4>1. Taken(Value(t)) \in Nat \ {0}
        BY <2>3, ValueType, TakenType
      <4> QED BY <4>1, EmptySeq
    <3>3. Holds(<<>>, B, 10 + L)
      BY <3>2 DEF Holds
    <3> QED BY <2>2, <2>3, <2>5, <2>6, <3>1, <3>2, <3>3 DEF Parsed
  <2>7. CASE ~(f.data_len_read >= 4)
    <3>1. n + 1 = 6 + L + (d.data_len_read + 1)
      BY <1>2, <2>2
    <3> QED BY <2>2, <2>3, <2>5, <2>7, <3>1 DEF Parsed
  <2> QED BY <2>6, <2>7
<1>10. CASE d.reader_state = "data"
  <2> DEFINE t == Append(d.data, val)
             f == [d EXCEPT !.data = t]
  <2> PICK L \in Nat, size \in Nat : L = Len(d.dst) /\ size = Value(d.data_len)
    BY <1>2, ValueType
  <2>1. e = Goto(f, "trailing", DataComplete(f))
    BY <1>10 DEF e, input_byte
  <2>2. /\ n = 10 + L + Len(d.data) /\ Len(d.data) < Taken(size)
        /\ EndsWith(d.data_len, B, 6 + L, 4) /\ Holds(d.data, B, 10 + L)
        /\ EndsWith(d.crc, B, 1, 4) /\ d.version = B[1] /\ d.dst_len = B[6]
        /\ Holds(d.dst, B, 6) /\ L = Taken(d.dst_len)
    BY <1>10 DEF Parsed
  <2>3. t \in Seq(Byte) /\ Len(t) = Len(d.data) + 1 /\ Holds(t, B, 10 + L)
    <3>1. val = B[10 + L + Len(d.data) + 1] /\ 10 + L \in Nat
      BY <2>2
    <3> QED BY <1>2, <2>2, <3>1, AppendHolds
  <2> HIDE DEF t
  <2>4. /\ f.reader_state = "data" /\ f.data = t /\ f.data_len = d.data_len
        /\ f.dst = d.dst /\ f.dst_len = d.dst_len /\ f.crc = d.crc /\ f.version = d.version
        /\ f \in Reader
    BY <1>1, <1>10, <2>3 DEF Reader
  <2> HIDE DEF f
  <2>5. /\ e.reader_state = (IF DataComplete(f) THEN "trailing" ELSE "data")
        /\ e.data = t /\ e.data_len = d.data_len
        /\ e.dst = d.dst /\ e.dst_len = d.dst_len /\ e.crc = d.crc /\ e.version = d.version
    BY <2>1, <2>4 DEF Goto, Reader
  <2>6. /\ Len(t) \in Nat \ {0} /\ n + 1 = 10 + L + Len(t) /\ Taken(size) \in Nat
        /\ Len(t) <= Taken(size)
    <3>1. PICK l \in Nat : l = Len(d.data)
      BY <1>2
    <3>2. Len(t) = l + 1 /\ n = 10 + L + l /\ l < Taken(size)
      BY <2>2, <2>3, <3>1
    <3>3. PICK k \in Nat, m \in Nat : k = Taken(size) /\ m = 10 + L
      BY TakenType
    <3>4. n = m + l /\ l < k /\ Len(t) = l + 1
      BY <3>2, <3>3
    <3>5. l + 1 \in Nat \ {0} /\ n + 1 = m + (l + 1) /\ l + 1 \in 1..k
      BY <3>4, OneMore
    <3>6. l + 1 <= k
      BY <3>5
    <3> QED BY <3>3, <3>4, <3>5, <3>6
  <2>7. ~DataComplete(f) => Len(t) < size
    BY <2>4, <2>6 DEF DataComplete
  <2>8. Len(t) \in 1..Taken(size) /\ n + 1 >= 10 + L + Len(t)
    BY <2>6
  <2>10. DataComplete(f) => DataComplete(e)
    BY <2>4, <2>5 DEF DataComplete
  <2>9. Len(t) < size => Len(t) < Taken(size)
    BY <2>6 DEF Taken
  <2> QED BY <2>2, <2>3, <2>5, <2>6, <2>7, <2>8, <2>9, <2>10 DEF Parsed
<1>11. CASE d.reader_state = "trailing"
  <2>1. e = d
    BY <1>11 DEF e, input_byte
  <2>2. \A m \in Nat : n >= m => n + 1 >= m
    BY OneMore
  <2>3. n >= 10 + Len(d.dst) + Len(d.data) => n + 1 >= 10 + Len(d.dst) + Len(d.data)
    BY <1>3, <2>2, Zenon
  <2> QED BY <1>11, <2>1, <2>3 DEF Parsed
<1>13. CASE d.reader_state = "overrun"
  <2>1. e = d
    BY <1>13 DEF e, input_byte
  <2>2. n > 6 + Len(d.dst) => n + 1 > 6 + Len(d.dst)
    BY <1>2
  <2> QED BY <1>13, <2>1, <2>2 DEF Parsed
<1>14. Len(d.dst) >= AddressSize \/ Len(d.dst) < AddressSize
  BY <1>2, DatagramAssumption
<1> QED BY <1>2, <1>5, <1>6, <1>7, <1>8, <1>9, <1>10, <1>11, <1>12, <1>13, <1>14 DEF ReaderState

\* A frame takes the reader eight bytes further, or as many as it has.
LEMMA ParseOn ==
  ASSUME NEW d, Shaped(d), NEW n \in Nat, NEW B, Parsed(d, B, n),
         NEW bytes \in Seq(Byte), Len(bytes) \in 0..FrameBytes,
         \A i \in 1..Len(bytes) : bytes[i] = B[n+i]
  PROVE  \A e \in Input(d, bytes) : Shaped(e) /\ Parsed(e, B, n + Len(bytes))
<1> DEFINE a == Readings(d, bytes)
           len == Len(bytes)
           P(i) == \A e \in a[i] : Shaped(e) /\ Parsed(e, B, n + i)
<1>1. a[0] = {d} /\ \A i \in 1..len : a[i] = {input_byte(x, bytes[i]) : x \in a[i-1]}
  <2>1. Len(bytes) \in 0..FrameBytes
    OBVIOUS
  <2> QED BY <2>1, ReadingsStep
<1>2. len \in 0..8
  BY DEF FrameBytes
<1>3. \A i \in 1..len : bytes[i] \in Byte
  BY ElementOfSeq
<1>4. Input(d, bytes) = a[len]
  BY DEF Input
<1> HIDE DEF a, len
<1>5. P(0)
  <2>1. n + 0 = n
    OBVIOUS
  <2> QED BY <1>1, <2>1
<1>6. ASSUME NEW i \in 0..7, i < len, P(i) PROVE P(i+1)
  <2>1. i + 1 \in 1..len /\ i + 1 - 1 = i /\ n + i \in Nat /\ n + i + 1 = n + (i + 1)
    BY <1>2, <1>6
  <2>2. bytes[i+1] = B[n+i+1] /\ bytes[i+1] \in Byte
    BY <1>3, <2>1 DEF len
  <2>3. SUFFICES ASSUME NEW e \in a[i+1] PROVE Shaped(e) /\ Parsed(e, B, n+i+1)
    BY <2>1
  <2>4. PICK x \in a[i] : e = input_byte(x, bytes[i+1])
    <3>1. a[i+1] = {input_byte(x, bytes[i+1]) : x \in a[i+1-1]}
      BY <1>1, <2>1
    <3>2. a[i+1] = {input_byte(x, bytes[i+1]) : x \in a[i]}
      BY <2>1, <3>1
    <3> QED BY <2>3, <3>2
  <2>5. Shaped(x) /\ Parsed(x, B, n+i)
    BY <1>6, <2>4
  <2>6. Parsed(input_byte(x, B[n+i+1]), B, n+i+1)
    BY <2>1, <2>2, <2>5, ParseByte
  <2>7. Shaped(input_byte(x, bytes[i+1]))
    BY <2>2, <2>5, ByteShaped
  <2> QED BY <2>2, <2>4, <2>6, <2>7
<1> HIDE DEF P
<1>7. 1 <= len => P(1)
  BY <1>2, <1>6, <1>5
<1>8. 2 <= len => P(2)
  BY <1>2, <1>6, <1>7
<1>9. 3 <= len => P(3)
  BY <1>2, <1>6, <1>8
<1>10. 4 <= len => P(4)
  BY <1>2, <1>6, <1>9
<1>11. 5 <= len => P(5)
  BY <1>2, <1>6, <1>10
<1>12. 6 <= len => P(6)
  BY <1>2, <1>6, <1>11
<1>13. 7 <= len => P(7)
  BY <1>2, <1>6, <1>12
<1>14. 8 <= len => P(8)
  BY <1>2, <1>6, <1>13
<1>15. P(len)
  BY <1>2, <1>5, <1>7, <1>8, <1>9, <1>10, <1>11, <1>12, <1>13, <1>14
<1> QED BY <1>4, <1>15 DEF P, len

\* A reader that was started has read nothing of anything.
LEMMA ParsedFresh ==
  ASSUME NEW d, d.reader_state = "version", d.dst = <<>>, NEW B
  PROVE  Parsed(d, B, 0)
BY DEF Parsed

\* How many bytes it has read, when it has l of dst, m of data, c of the CRC and q of
\* the length of data.
At(state, n, l, m, c, q) ==
  /\ {n, l, m, c, q} \subseteq Nat
  /\ state \in ReaderState
  /\ state = "crc" => n = 1 + c
  /\ state = "dst_len" => n = 5
  /\ state = "dst" => n = 6 + l
  /\ state = "data_len" => n = 6 + l + q
  /\ state = "data" => n = 10 + l + m
  /\ state = "trailing" => n >= 10 + l + m
  /\ state = "overrun" => n > 6 + l

LEMMA HowFar ==
  ASSUME NEW state, NEW n, NEW l, NEW m, NEW c, NEW q, At(state, n, l, m, c, q)
  PROVE  /\ state # "version" => n >= 1
         /\ state \notin {"version", "crc"} => n >= 5
         /\ state \in {"dst", "data_len", "data", "trailing", "overrun"} => n >= 6 /\ n >= 6 + l
         /\ state \in {"data", "trailing"} => n >= 10 + l + m /\ n >= 6 + l + 4
         /\ 6 + l \in Nat /\ 10 + l \in Nat
<1>1. n \in Nat /\ l \in Nat /\ m \in Nat /\ c \in Nat /\ q \in Nat
  BY DEF At
<1> QED BY <1>1 DEF At, ReaderState

\* The reader knows of the bytes it has read and of no others.
LEMMA ParsedAgree ==
  ASSUME NEW d, Shaped(d), NEW n \in Nat, NEW B, NEW C, Parsed(d, B, n),
         \A i \in 1..n : B[i] = C[i]
  PROVE  Parsed(d, C, n)
<1>1. d \in Reader /\ d.crc_read \in Nat /\ d.data_len_read \in Nat
      /\ Len(d.dst) \in Nat /\ Len(d.data) \in Nat
      /\ d.reader_state \in ReaderState
  BY DEF Shaped, Reader
<1> PICK l \in Nat, m \in Nat, c \in Nat, q \in Nat,
         state \in ReaderState :
      /\ l = Len(d.dst) /\ m = Len(d.data) /\ c = d.crc_read /\ q = d.data_len_read
      /\ state = d.reader_state
  BY <1>1
<1>2. At(state, n, l, m, c, q)
  <2>1. {n, l, m, c, q} \subseteq Nat
    OBVIOUS
  <2> QED BY <1>1, <2>1, Zenon DEF Parsed, At
<1>3. /\ state # "version" => n >= 1
      /\ state \notin {"version", "crc"} => n >= 5
      /\ state \in {"dst", "data_len", "data", "trailing", "overrun"} =>
           n >= 6 /\ n >= 6 + l
      /\ state \in {"data", "trailing"} => n >= 10 + l + m /\ n >= 6 + l + 4
      /\ 6 + l \in Nat /\ 10 + l \in Nat
  BY <1>2, HowFar, Zenon
<1>4. ASSUME NEW u, NEW i \in Nat, NEW k \in Nat, n >= i + k, EndsWith(u, B, i, k)
      PROVE  EndsWith(u, C, i, k)
  BY <1>4 DEF EndsWith
<1>5. ASSUME NEW t, NEW i \in Nat, Len(t) \in Nat, n >= i + Len(t), Holds(t, B, i)
      PROVE  Holds(t, C, i)
  BY <1>5 DEF Holds
<1>6. state # "version" => d.version = C[1]
  <2>1. n >= 1 => B[1] = C[1]
    OBVIOUS
  <2>2. state # "version" => d.version = B[1]
    BY DEF Parsed
  <2> QED BY <1>3, <2>1, <2>2
<1>7. state = "crc" => EndsWith(d.crc, C, 1, c)
  <2>1. state = "crc" => EndsWith(d.crc, B, 1, c) /\ n >= 1 + c
    <3>1. state = "crc" => EndsWith(d.crc, B, 1, c)
      BY DEF Parsed
    <3> QED BY <1>2, <3>1 DEF At
  <2> QED BY <1>4, <2>1
<1>8. state \notin {"version", "crc"} => EndsWith(d.crc, C, 1, 4)
  <2>1. state \notin {"version", "crc"} => EndsWith(d.crc, B, 1, 4)
    BY DEF Parsed
  <2> QED BY <1>3, <1>4, <2>1
<1>9. state \in {"dst", "data_len", "data", "trailing", "overrun"} =>
       d.dst_len = C[6] /\ Holds(d.dst, C, 6)
  <2>1. state \in {"dst", "data_len", "data", "trailing", "overrun"} =>
         d.dst_len = B[6] /\ Holds(d.dst, B, 6)
    BY DEF Parsed
  <2>2. n >= 6 => B[6] = C[6]
    OBVIOUS
  <2> QED BY <1>3, <1>5, <2>1, <2>2
<1>10. state = "data_len" => EndsWith(d.data_len, C, 6 + l, q)
  <2>1. state = "data_len" => EndsWith(d.data_len, B, 6 + l, q)
    BY DEF Parsed
  <2>2. state = "data_len" => n >= 6 + l + q
    BY <1>2 DEF At
  <2> QED BY <1>4, <2>1, <2>2
<1>11. state \in {"data", "trailing"} => EndsWith(d.data_len, C, 6 + l, 4) /\ Holds(d.data, C, 10 + l)
  <2>1. state \in {"data", "trailing"} => EndsWith(d.data_len, B, 6 + l, 4) /\ Holds(d.data, B, 10 + l)
    BY DEF Parsed
  <2> QED BY <1>3, <1>4, <1>5, <2>1
<1> QED BY <1>6, <1>7, <1>8, <1>9, <1>10, <1>11 DEF Parsed

LEMMA PrefixOf ==
  ASSUME NEW s \in Seq(Byte), NEW k \in Nat, k <= Len(s)
  PROVE  /\ Prefix(s, k) \in Seq(Byte) /\ Len(Prefix(s, k)) = k
         /\ \A j \in 1..k : Prefix(s, k)[j] = s[j]
<1>1. Len(s) \in Nat
  OBVIOUS
<1>2. \A i \in 1..k : s[i] \in Byte
  <2>1. \A i \in 1..k : i \in 1..Len(s)
    BY <1>1
  <2> QED BY <2>1, ElementOfSeq
<1>3. /\ SubSeq(s, 1, k) \in Seq(Byte) /\ Len(SubSeq(s, 1, k)) = k - 1 + 1
      /\ \A j \in 1..k-1+1 : SubSeq(s, 1, k)[j] = s[1+j-1]
  <2>1. 1 <= k + 1
    OBVIOUS
  <2> QED BY <1>2, <2>1, SubSeqProperties
<1>4. k - 1 + 1 = k /\ \A j \in 1..k : 1 + j - 1 = j
  OBVIOUS
<1> QED BY <1>3, <1>4 DEF Prefix

\* A list that holds what B says is a part of B, and so is its beginning.
HeldIn(s, B, m) ==
  /\ B \in Seq(Byte) /\ s \in Seq(Byte) /\ m \in Nat
  /\ Holds(s, B, m) /\ m + Len(s) <= Len(B)

LEMMA HeldPart ==
  ASSUME NEW s, NEW B, NEW m, HeldIn(s, B, m), NEW k \in Nat, k <= Len(s)
  PROVE  SubSeq(B, m + 1, m + k) = Prefix(s, k)
<1> DEFINE t == Prefix(s, k)
<1>0. /\ B \in Seq(Byte) /\ s \in Seq(Byte) /\ m \in Nat
      /\ Holds(s, B, m) /\ m + Len(s) <= Len(B)
  BY DEF HeldIn
<1>1. t \in Seq(Byte) /\ Len(t) = k /\ \A j \in 1..k : t[j] = s[j]
  BY <1>0, PrefixOf
<1> HIDE DEF t
<1>2. Len(s) \in Nat /\ Len(B) \in Nat
  BY <1>0
<1>3. \A j \in 1..Len(t) : B[(m + 1) + j - 1] = t[j]
  <2>1. \A j \in 1..k : (m + 1) + j - 1 = m + j /\ j \in 1..Len(s)
    BY <1>0, <1>2
  <2> QED BY <1>0, <1>1, <2>1 DEF Holds
<1>4. m + 1 \in Nat \ {0} /\ m + k \in Nat /\ m + k = (m + 1) + Len(t) - 1 /\ m + k <= Len(B)
  BY <1>0, <1>1, <1>2
<1>5. SubSeq(B, m + 1, m + k) = t
  BY <1>0, <1>1, <1>3, <1>4, PartOf
<1> QED BY <1>5 DEF t

LEMMA EndsPart ==
  ASSUME NEW B \in Seq(Byte), NEW u \in Quad, NEW m \in Nat, EndsWith(u, B, m, 4), m + 4 <= Len(B)
  PROVE  SubSeq(B, m + 1, m + 4) = u
<1>1. u \in Seq(Byte) /\ Len(u) = 4
  BY DEF Quad
<1>2. \A j \in 1..Len(u) : B[(m + 1) + j - 1] = u[j]
  <2>1. \A j \in 1..4 : (m + 1) + j - 1 = m + j /\ 4 - 4 + j = j
    OBVIOUS
  <2> QED BY <1>1, <2>1 DEF EndsWith
<1>3. m + 1 \in Nat \ {0} /\ m + 4 \in Nat /\ m + 4 = (m + 1) + Len(u) - 1
  BY <1>1
<1> QED BY <1>1, <1>2, <1>3, PartOf

LEMMA ByteIsNat == \A b \in Byte : b \in Nat
BY DEF Byte

LEMMA Offsets ==
  ASSUME NEW l \in Nat, NEW m \in Nat, NEW N \in Nat, N >= 10 + l + m
  PROVE  /\ 6 + l \in Nat /\ N >= (6 + l) + 4 + m /\ N >= 5 /\ N >= 6 + l /\ N >= (6 + l) + 4
         /\ (6 + l) + 4 \in Nat /\ (6 + l) + 4 = 10 + l /\ N >= ((6 + l) + 4) + m
         /\ \A k \in Nat : ((6 + l) + 4) + 1 = (6 + l) + 5
OBVIOUS

\* The parts of B, of which n bytes come before the length of the data, are those of d.
PartsAre(B, d, n) ==
  /\ d.version = B[1] /\ d.dst_len = B[6] /\ Len(d.dst) = Taken(d.dst_len)
  /\ n \in Nat /\ Len(B) \in Nat /\ Len(B) >= n + 4 + Len(d.data)
  /\ SubSeq(B, 2, 5) = d.crc
  /\ SubSeq(B, 7, 6 + d.dst_len) = Prefix(d.dst, d.dst_len)
  /\ SubSeq(B, n + 1, n + 4) = d.data_len
  /\ \A k \in Nat : k <= Len(d.data) => SubSeq(B, n + 5, n + 4 + k) = Prefix(d.data, k)

\* At the end of its datagram the reader holds the parts of B that Accepts names.
LEMMA PartsHeld ==
  ASSUME NEW B \in Seq(Byte), NEW d, Shaped(d), Parsed(d, B, Len(B)), is_complete(d),
         NEW n, n = 6 + Taken(d.dst_len)
  PROVE  PartsAre(B, d, n)
<1>1. /\ d.crc \in Quad /\ d.data_len \in Quad /\ d.dst \in Seq(Byte) /\ d.data \in Seq(Byte)
      /\ d.dst_len \in Byte /\ d.reader_state = "trailing"
      /\ Len(d.dst) \in Nat /\ Len(d.data) \in Nat /\ Len(B) \in Nat
  BY DEF Shaped, Reader, is_complete
<1>2. /\ d.version = B[1] /\ d.dst_len = B[6] /\ Len(d.dst) = Taken(d.dst_len)
      /\ EndsWith(d.crc, B, 1, 4) /\ Holds(d.dst, B, 6)
      /\ EndsWith(d.data_len, B, 6 + Len(d.dst), 4) /\ Holds(d.data, B, 10 + Len(d.dst))
      /\ Len(B) >= 10 + Len(d.dst) + Len(d.data)
  BY <1>1, Zenon DEF Parsed
<1>3. d.dst_len \in Nat /\ d.dst_len <= Len(d.dst)
  <2>1. d.dst_len \in Nat
    BY <1>1, ByteIsNat, Zenon
  <2> QED BY <1>2, <2>1, TakenType
<1>4. n = 6 + Len(d.dst)
  BY <1>2
<1>5. /\ n \in Nat /\ Len(B) >= n + 4 + Len(d.data) /\ Len(B) >= 5 /\ Len(B) >= 6 + Len(d.dst)
      /\ Len(B) >= n + 4 /\ n + 4 \in Nat
      /\ n + 4 = 10 + Len(d.dst) /\ Len(B) >= (n + 4) + Len(d.data) /\ n + 5 = (n + 4) + 1
  <2> PICK l \in Nat, m \in Nat, N \in Nat : l = Len(d.dst) /\ m = Len(d.data) /\ N = Len(B)
    BY <1>1
  <2>1. n = 6 + l /\ N >= 10 + l + m
    BY <1>2, <1>4
  <2> QED BY <2>1, Offsets, ZenonT(60)
<1>6. SubSeq(B, 2, 5) = d.crc
  <2>1. 1 + 4 <= Len(B) /\ 1 \in Nat
    BY <1>5
  <2>2. SubSeq(B, 1 + 1, 1 + 4) = d.crc
    BY <1>1, <1>2, <2>1, EndsPart
  <2> QED BY <2>2
<1>7. SubSeq(B, 7, 6 + d.dst_len) = Prefix(d.dst, d.dst_len)
  <2>1. 6 + Len(d.dst) <= Len(B) /\ 6 \in Nat
    BY <1>5
  <2>2. HeldIn(d.dst, B, 6)
    BY <1>1, <1>2, <2>1 DEF HeldIn
  <2>3. SubSeq(B, 6 + 1, 6 + d.dst_len) = Prefix(d.dst, d.dst_len)
    BY <1>3, <2>2, HeldPart, Zenon
  <2>4. 6 + 1 = 7
    OBVIOUS
  <2> QED BY <2>3, <2>4, Zenon
<1>8. SubSeq(B, n + 1, n + 4) = d.data_len
  <2>1. n + 4 <= Len(B) /\ EndsWith(d.data_len, B, n, 4)
    BY <1>2, <1>4, <1>5
  <2> QED BY <1>1, <1>5, <2>1, EndsPart
<1>9. ASSUME NEW k \in Nat, k <= Len(d.data)
      PROVE  SubSeq(B, n + 5, n + 4 + k) = Prefix(d.data, k)
  <2>1. HeldIn(d.data, B, n + 4)
    BY <1>1, <1>2, <1>5 DEF HeldIn
  <2>2. SubSeq(B, (n + 4) + 1, (n + 4) + k) = Prefix(d.data, k)
    BY <1>9, <2>1, HeldPart, Zenon
  <2> QED BY <1>5, <2>2, Zenon
<1> QED BY <1>1, <1>2, <1>5, <1>6, <1>7, <1>8, <1>9 DEF PartsAre

LEMMA TooShort ==
  ASSUME NEW l \in Nat, NEW m \in Nat, NEW N \in Nat, NEW t \in Nat
  PROVE  /\ ~(N = 10 + l + m /\ m < t /\ N >= 6 + l + 4 + t)
         /\ ~(N >= 6 /\ (N = 0 \/ (t < 4 /\ N = 1 + t) \/ N = 5))
OBVIOUS

LEMMA LongEnough ==
  ASSUME NEW l \in Nat, NEW m \in Nat, NEW N \in Nat, N >= l + 4 + m, l >= 7
  PROVE  N >= 6 /\ N >= l + 4
OBVIOUS

\* All the bytes of a datagram, or of as much of it as there is room for.
EndsAt(B) ==
  LET n == 6 + Taken(B[6])
  IN /\ Len(B) >= 6 /\ Taken(B[6]) <= AddressSize /\ Len(B) >= n + 4
     /\ \/ Len(B) >= n + 4 + Taken(Value(SubSeq(B, n + 1, n + 4)))
        \/ Len(B) >= n + 4 + InputSize

\* Before the end of the datagram there are fewer bytes.
LEMMA EndsEarly ==
  ASSUME NEW B \in Seq(Byte), NEW d, Shaped(d), Parsed(d, B, Len(B)), EndsAt(B)
  PROVE  is_complete(d)
<1> DEFINE n == 6 + Taken(B[6])
           size == Value(SubSeq(B, n + 1, n + 4))
<1>1. /\ d.reader_state \in ReaderState
      /\ d.data_len \in Quad /\ d.crc_read \in Nat /\ d.data_len_read \in Nat
      /\ Len(d.dst) \in Nat /\ Len(d.data) \in Nat /\ Len(B) \in Nat
      /\ InputSize \in Nat /\ AddressSize \in Nat
  BY DatagramAssumption DEF Shaped, Reader
<1>2. /\ Len(B) >= 6 /\ Taken(B[6]) <= AddressSize /\ Len(B) >= n + 4
      /\ Len(B) >= n + 4 + Taken(size) \/ Len(B) >= n + 4 + InputSize
  BY DEF EndsAt
<1>3. n \in Nat /\ n >= 7 /\ Taken(B[6]) \in Nat
  <2>1. B[6] \in Byte
    BY <1>1, <1>2, ElementOfSeq
  <2>2. Taken(B[6]) \in Nat \ {0}
    BY <2>1, ByteIsNat, TakenType
  <2> QED BY <2>2
<1>4. SUFFICES ASSUME d.reader_state # "trailing" PROVE FALSE
  BY DEF is_complete
<1>5. CASE d.reader_state \in {"version", "crc", "dst_len"}
  <2>1. \/ Len(B) = 0
        \/ d.crc_read < 4 /\ Len(B) = 1 + d.crc_read
        \/ Len(B) = 5
    BY <1>5 DEF Parsed, Shaped
  <2>2. Len(B) >= 6
    BY <1>2
  <2> PICK N \in Nat, c \in Nat : N = Len(B) /\ c = d.crc_read
    BY <1>1
  <2>3. N >= 6 /\ (N = 0 \/ (c < 4 /\ N = 1 + c) \/ N = 5)
    BY <2>1, <2>2
  <2> QED BY <2>3, TooShort
<1>6. CASE d.reader_state = "dst"
  <2>1. Len(B) = 6 + Len(d.dst) /\ Len(d.dst) < Taken(B[6])
    BY <1>6 DEF Parsed
  <2> PICK t \in Nat, l \in Nat, N \in Nat : t = Taken(B[6]) /\ l = Len(d.dst) /\ N = Len(B)
    BY <1>1, <1>3
  <2>2. N >= 6 + t + 4 /\ N = 6 + l /\ l < t
    BY <1>2, <2>1
  <2> QED BY <2>2
<1>9. CASE d.reader_state = "overrun"
  <2>1. AddressSize < Taken(B[6])
    BY <1>9 DEF Parsed
  <2> QED BY <1>1, <1>2, <1>3, <2>1
<1>7. CASE d.reader_state = "data_len"
  <2>1. Len(B) = 6 + Len(d.dst) + d.data_len_read /\ d.data_len_read < 4
        /\ Len(d.dst) = Taken(B[6])
    BY <1>7 DEF Parsed, Shaped
  <2> PICK l \in Nat, N \in Nat, q \in Nat : l = Len(d.dst) /\ N = Len(B) /\ q = d.data_len_read
    BY <1>1
  <2>2. N >= 6 + l + 4 /\ N = 6 + l + q /\ q < 4
    BY <1>2, <2>1
  <2> QED BY <2>2
<1>8. CASE d.reader_state = "data"
  <2>1. /\ Len(B) = 10 + Len(d.dst) + Len(d.data) /\ Len(d.data) < Taken(Value(d.data_len))
        /\ Len(d.dst) = Taken(B[6]) /\ EndsWith(d.data_len, B, 6 + Len(d.dst), 4)
        /\ Len(d.data) < InputSize
    BY <1>8 DEF Parsed, Shaped
  <2>2. n = 6 + Len(d.dst)
    BY <2>1
  <2>3. SubSeq(B, n + 1, n + 4) = d.data_len
    <3> HIDE DEF n
    <3> QED BY <1>1, <1>2, <1>3, <2>1, <2>2, EndsPart
  <2>4. size = Value(d.data_len)
    BY <2>3
  <2> PICK l \in Nat, m \in Nat, N \in Nat, t \in Nat :
        l = Len(d.dst) /\ m = Len(d.data) /\ N = Len(B) /\ t = Taken(Value(d.data_len))
    <3>1. Taken(Value(d.data_len)) \in Nat
      BY <1>1, ValueType, TakenType
    <3> QED BY <1>1, <3>1
  <2>5. N = 10 + l + m /\ m < t /\ m < InputSize
        /\ (N >= 6 + l + 4 + t \/ N >= 6 + l + 4 + InputSize)
    <3> HIDE DEF size, n
    <3> QED BY <1>2, <2>1, <2>2, <2>4
  <2> QED BY <1>1, <2>5, TooShort
<1> QED BY <1>1, <1>4, <1>5, <1>6, <1>7, <1>8, <1>9 DEF ReaderState

\* Whatever bytes reach it since its start, the board's reader takes them for a valid
\* datagram when Accepts says so of all of them at once, and not otherwise: the
\* counters of input_byte() and the two lists that are tested for their end after a
\* byte was stored come to no other result (can_datagram.c:24-110).  This is said of the
\* bytes the reader has room for.  The others are those of which Overruns, or OverReads,
\* says so: there the code writes past the buffer of the destinations, or has the CRC
\* computed past the end of the data, and is not said to refuse them.
THEOREM ReaderAccepts ==
  ASSUME NEW B \in Seq(Byte), NEW d, Shaped(d), Parsed(d, B, Len(B))
  PROVE  /\ Overrun(d) <=> Overruns(B)
         /\ OverRead(d) <=> OverReads(B)
         /\ ~Overrun(d) /\ ~OverRead(d) => (is_valid(d) <=> Accepts(B))
         /\ Overruns(B) \/ OverReads(B) => ~Accepts(B)
<1>t. /\ d.data_len \in Quad /\ d.dst \in Seq(Byte) /\ d.data \in Seq(Byte) /\ d.dst_len \in Byte
      /\ Len(d.dst) \in Nat /\ Len(d.data) \in Nat /\ Len(B) \in Nat
      /\ Len(d.data) <= InputSize /\ Len(d.dst) <= AddressSize
      /\ InputSize \in Nat \ {0} /\ AddressSize \in Nat \ {0}
      /\ d.reader_state \in ReaderState
  BY DatagramAssumption DEF Shaped, Reader
<1>o. Overrun(d) => Overruns(B)
  <2>1. SUFFICES ASSUME d.reader_state = "overrun" PROVE Overruns(B)
    BY DEF Overrun
  <2>2. /\ d.dst_len = B[6] /\ Len(d.dst) = AddressSize /\ Len(B) > 6 + Len(d.dst)
        /\ Len(d.dst) < Taken(d.dst_len)
    BY <2>1 DEF Parsed
  <2>3. Taken(B[6]) \in Nat
    BY <1>t, <2>2, ByteIsNat, TakenType
  <2> QED BY <1>t, <2>2, <2>3 DEF Overruns
<1>p. ASSUME Overruns(B) PROVE Overrun(d) /\ ~Accepts(B) /\ ~OverReads(B)
  <2>0. Len(B) > 6 + AddressSize /\ Taken(B[6]) > AddressSize
    BY <1>p DEF Overruns
  <2>1. B[6] \in Byte
    <3>1. 6 \in 1..Len(B)
      BY <1>t, <2>0
    <3> QED BY <3>1, ElementOfSeq
  <2>2. PICK a \in Nat : a = Taken(B[6])
    BY <2>1, ByteIsNat, TakenType
  <2>3. a > AddressSize /\ ~(a <= AddressSize)
    BY <1>t, <2>0, <2>2
  <2>4. ~Accepts(B) /\ ~OverReads(B)
    BY <2>2, <2>3 DEF Accepts, OverReads
  <2>5. d.reader_state \notin {"data_len", "data", "trailing"}
    <3>1. d.reader_state \in {"data_len", "data", "trailing"} => Len(d.dst) = Taken(B[6])
      BY DEF Parsed
    <3> QED BY <1>t, <2>2, <2>3, <3>1
  <2>6. d.reader_state # "dst"
    <3>1. d.reader_state = "dst" => Len(B) = 6 + Len(d.dst)
      BY DEF Parsed
    <3> QED BY <1>t, <2>0, <3>1
  <2>7. d.reader_state \notin {"version", "crc", "dst_len"}
    <3>1. d.reader_state \in {"version", "crc", "dst_len"} =>
            Len(B) = 0 \/ (d.crc_read < 4 /\ Len(B) = 1 + d.crc_read) \/ Len(B) = 5
      BY DEF Parsed, Shaped
    <3>2. d.crc_read \in Nat
      BY DEF Shaped, Reader
    <3>3. Len(B) >= 6
      BY <1>t, <2>0
    <3> PICK N \in Nat, c \in Nat : N = Len(B) /\ c = d.crc_read
      BY <1>t, <3>2
    <3> QED BY <3>1, <3>3
  <2> QED BY <1>t, <2>4, <2>5, <2>6, <2>7 DEF ReaderState, Overrun
<1>q. Accepts(B) => EndsAt(B)
  BY DEF Accepts, EndsAt
<1>r. ASSUME OverReads(B) PROVE EndsAt(B)
  <2> DEFINE n == 6 + Taken(B[6])
  <2>1. Len(B) >= 6 /\ Taken(B[6]) <= AddressSize /\ Len(B) >= n + 4 + InputSize
    BY <1>r DEF OverReads
  <2>2. B[6] \in Byte
    <3>1. 6 \in 1..Len(B)
      BY <1>t, <2>1
    <3> QED BY <3>1, ElementOfSeq
  <2>3. Taken(B[6]) \in Nat
    BY <2>2, ByteIsNat, TakenType
  <2>4. Len(B) >= n + 4
    BY <1>t, <2>1, <2>3
  <2> QED BY <2>1, <2>4 DEF EndsAt
<1>1. CASE ~is_complete(d)
  BY <1>1, <1>o, <1>p, <1>q, <1>r, EndsEarly DEF is_valid, OverRead
<1>2. CASE is_complete(d)
  <2> PICK n : n = 6 + Taken(d.dst_len)
    OBVIOUS
  <2>1. PartsAre(B, d, n)
    BY <1>2, PartsHeld
  <2>2. /\ d.version = B[1] /\ d.dst_len = B[6] /\ Len(d.dst) = Taken(d.dst_len)
        /\ n \in Nat /\ Len(B) \in Nat /\ Len(B) >= n + 4 + Len(d.data)
        /\ SubSeq(B, 2, 5) = d.crc
        /\ SubSeq(B, 7, 6 + d.dst_len) = Prefix(d.dst, d.dst_len)
        /\ SubSeq(B, n + 1, n + 4) = d.data_len
        /\ \A k \in Nat : k <= Len(d.data) => SubSeq(B, n + 5, n + 4 + k) = Prefix(d.data, k)
    BY <2>1 DEF PartsAre
  <2> PICK size : size = Value(d.data_len)
    OBVIOUS
  <2>3. size \in Nat /\ Taken(size) \in Nat \ {0} /\ Taken(size) >= size
    <3>1. size \in Nat
      BY <1>t, ValueType
    <3> QED BY <3>1, TakenType
  <2>4. Len(d.data) \in 1..Taken(size) /\ (Len(d.data) >= size \/ Len(d.data) >= InputSize)
    BY <1>2 DEF is_complete, Parsed, DataComplete
  <2>5. n >= 7
    <3>1. Taken(d.dst_len) \in Nat \ {0}
      BY <1>t, ByteIsNat, TakenType
    <3> QED BY <3>1
  <2> DEFINE Enough == Len(d.data) >= size
             Matches == d.crc = Crc(<<d.dst_len>> \o Prefix(d.dst, d.dst_len)
                                      \o d.data_len \o Prefix(d.data, size))
  <2>6. is_valid(d) <=> Matches /\ B[1] = CAN_DATAGRAM_VERSION
    BY <1>2, <2>2 DEF is_valid, CrcMatches
  <2>7. Enough <=> size <= InputSize
    BY <1>t, <2>3, <2>4 DEF Taken
  <2>8. Enough => Len(d.data) = Taken(size)
    BY <1>t, <2>3, <2>4 DEF Taken
  <2>9. Enough => SubSeq(B, n + 5, n + 4 + size) = Prefix(d.data, size)
    BY <1>t, <2>2, <2>3
  <2>10. Accepts(B) <=>
           /\ Len(B) >= 6 /\ Len(B) >= n + 4
           /\ size <= InputSize /\ Len(B) >= n + 4 + Taken(size)
           /\ B[1] = CAN_DATAGRAM_VERSION
           /\ d.crc = Crc(<<d.dst_len>> \o Prefix(d.dst, d.dst_len)
                           \o d.data_len \o SubSeq(B, n + 5, n + 4 + size))
    <3>1. Taken(B[6]) <= AddressSize
      BY <1>t, <2>2
    <3> QED BY <2>2, <3>1 DEF Accepts
  <2>11. Len(B) >= 6 /\ Len(B) >= n + 4 /\ (Enough => Len(B) >= n + 4 + Taken(size))
    <3> PICK N \in Nat, m \in Nat : N = Len(B) /\ m = Len(d.data)
      BY <1>t
    <3>1. N >= n + 4 + m
      BY <2>2
    <3>2. N >= 6 /\ N >= n + 4
      BY <2>2, <2>5, <3>1, LongEnough
    <3> QED BY <2>8, <3>1, <3>2, Zenon
  <2>12. OverRead(d) <=> ~Enough
    BY <1>t, <1>2, <2>3 DEF OverRead
  <2>13. ~OverRead(d) => (is_valid(d) <=> Accepts(B))
    BY <2>6, <2>7, <2>9, <2>10, <2>11, <2>12
  <2>14. OverRead(d) => ~Accepts(B)
    BY <2>7, <2>10, <2>12
  <2>15. OverRead(d) <=> OverReads(B)
    <3>1. OverReads(B) <=>
            /\ Len(B) >= 6 /\ Taken(B[6]) <= AddressSize
            /\ Len(B) >= n + 4 + InputSize /\ size > InputSize
      BY <2>2 DEF OverReads
    <3>2. Taken(B[6]) <= AddressSize
      BY <1>t, <2>2
    <3>3. ~Enough => Len(d.data) = InputSize /\ size > InputSize
      BY <1>t, <2>3, <2>4
    <3>4. Enough => ~(size > InputSize)
      BY <1>t, <2>3, <2>7
    <3> QED BY <2>2, <2>11, <2>12, <3>1, <3>2, <3>3, <3>4
  <2>16. ~Overruns(B)
    BY <1>p, <1>2 DEF Overrun, is_complete
  <2> QED BY <1>o, <1>p, <2>13, <2>14, <2>15
<1> QED BY <1>1, <1>2

---------------------------------------------------------------------------
(* The writer of the board, byte by byte *)

Writer ==
  [writer_state : {"version", "crc", "dst_len", "dst", "data_len", "data", "trailing"},
   dst : Seq(Byte), data : Seq(Byte), crc : Quad, written : Nat, buffer : Seq(Byte)]

\* The writer of the datagram of r has written n bytes.
Wrote(w, r, n) ==
  /\ w \in Writer /\ w.dst = r.dst /\ w.data = r.data /\ w.crc = Checksum(r.data, r.dst)
  /\ w.writer_state = "version" => w.written = 0 /\ n = 0
  /\ w.writer_state = "crc" => w.written < 4 /\ n = 1 + w.written
  /\ w.writer_state = "dst_len" => w.written = 0 /\ n = 5
  /\ w.writer_state = "dst" => w.written < Len(r.dst) /\ n = 6 + w.written
  /\ w.writer_state = "data_len" => w.written < 4 /\ n = 6 + Len(r.dst) + w.written
  /\ w.writer_state = "data" => w.written <= Len(r.data) /\ n = 10 + Len(r.dst) + w.written
  /\ w.writer_state = "trailing" => n = 10 + Len(r.dst) + Len(r.data)

\* One byte of a field of n has been put by w, which gives v.
HasPut(v, w, byte, n, next) ==
  /\ v \in Writer /\ v.dst = w.dst /\ v.data = w.data /\ v.crc = w.crc
  /\ v.buffer = Append(w.buffer, byte)
  /\ w.written + 1 >= n => v.written = 0 /\ v.writer_state = next
  /\ w.written + 1 < n => v.written = w.written + 1 /\ v.writer_state = w.writer_state

LEMMA PutByte ==
  ASSUME NEW w \in Writer, NEW byte \in Byte, NEW n \in Nat,
         NEW next \in {"version", "crc", "dst_len", "dst", "data_len", "data", "trailing"}
  PROVE  HasPut(Put(w, byte, n, next), w, byte, n, next)
<1>1. /\ w.buffer \in Seq(Byte) /\ w.written \in Nat
      /\ w.writer_state \in {"version", "crc", "dst_len", "dst", "data_len", "data", "trailing"}
  BY DEF Writer
<1>2. PICK b \in Seq(Byte) : b = Append(w.buffer, byte)
  BY <1>1, AppendProperties
<1>3. PICK k \in Nat : k = IF w.written + 1 >= n THEN 0 ELSE w.written + 1
  BY <1>1
<1>4. PICK s \in {"version", "crc", "dst_len", "dst", "data_len", "data", "trailing"} :
        s = IF w.written + 1 >= n THEN next ELSE w.writer_state
  BY <1>1
<1>5. Put(w, byte, n, next) = [w EXCEPT !.buffer = b, !.written = k, !.writer_state = s]
  BY <1>2, <1>3, <1>4 DEF Put
<1>6. /\ Put(w, byte, n, next) \in Writer
      /\ Put(w, byte, n, next).dst = w.dst /\ Put(w, byte, n, next).data = w.data
      /\ Put(w, byte, n, next).crc = w.crc /\ Put(w, byte, n, next).buffer = b
      /\ Put(w, byte, n, next).written = k /\ Put(w, byte, n, next).writer_state = s
  BY <1>5 DEF Writer
<1> QED BY <1>1, <1>2, <1>3, <1>4, <1>6 DEF HasPut

LEMMA OutputByte ==
  ASSUME NEW r, Fits(r), r.dst # <<>>, NEW n \in Nat, NEW w, Wrote(w, r, n)
  PROVE  /\ n < Len(Written(r)) =>
              /\ Wrote(output_byte(w), r, n + 1)
              /\ output_byte(w).buffer = Append(w.buffer, Written(r)[n + 1])
         /\ n = Len(Written(r)) =>
              Wrote(output_byte(w), r, n) /\ output_byte(w).buffer = w.buffer
<1> DEFINE W == Written(r)
           v == output_byte(w)
           C == Checksum(r.data, r.dst)
           state == w.writer_state
<1>0. PICK L \in Nat, M \in Nat : L = Len(r.dst) /\ M = Len(r.data)
  BY DEF Fits
<1>b. PICK B : B = Bytes(M)
  OBVIOUS
<1>1. /\ r.dst \in Seq(Byte) /\ r.data \in Seq(Byte) /\ C \in Seq(Byte) /\ Len(C) = 4
      /\ L \in Byte
  BY <1>0, <1>b DEF Fits, Quad
<1>2. B \in Seq(Byte) /\ Len(B) = 4
  <2>1. M < 256*256*256
    BY <1>0, <1>b DEF Fits
  <2> QED BY <1>0, <1>b, <2>1, BytesOfLength DEF Quad
<1>3. PICK N \in Nat : N = Len(W) /\ N = 10 + L + M
  <2>1. Len(W) = 10 + L + M
    BY <1>0, <1>b, DatagramLayout
  <2> HIDE DEF W
  <2>2. 10 + L + M \in Nat
    OBVIOUS
  <2> QED BY <2>1, <2>2
<1>c. N = 10 + L + M
  BY <1>3
<1>4. /\ W \in Seq(Byte)
      /\ W[1] = CAN_DATAGRAM_VERSION /\ W[6] = L
      /\ \A j \in 1..4 : W[1+j] = C[j]
      /\ \A j \in 1..L : W[6+j] = r.dst[j]
      /\ \A j \in 1..4 : W[6+L+j] = B[j]
      /\ \A j \in 1..M : W[10+L+j] = r.data[j]
  BY <1>0, <1>b, DatagramLayout
<1>5. L > 0
  BY <1>0, <1>b, <1>1, EmptySeq
<1>6. /\ w \in Writer /\ w.dst = r.dst /\ w.data = r.data /\ w.crc = C
      /\ state = "version" => w.written = 0 /\ n = 0
      /\ state = "crc" => w.written < 4 /\ n = 1 + w.written
      /\ state = "dst_len" => w.written = 0 /\ n = 5
      /\ state = "dst" => w.written < L /\ n = 6 + w.written
      /\ state = "data_len" => w.written < 4 /\ n = 6 + L + w.written
      /\ state = "data" => w.written <= M /\ n = 10 + L + w.written
      /\ state = "trailing" => n = N
  BY <1>0, <1>b, <1>3 DEF Wrote
<1>7. /\ w.written \in Nat
      /\ state \in {"version", "crc", "dst_len", "dst", "data_len", "data", "trailing"}
  BY <1>6 DEF Writer
<1>8. SUFFICES /\ n < N => /\ Wrote(v, r, n + 1)
                           /\ v.buffer = Append(w.buffer, W[n + 1])
               /\ n = N => Wrote(v, r, n) /\ v.buffer = w.buffer
  BY <1>3
<1> HIDE DEF W, C
<1>9. CASE state = "version"
  <2>1. v = Put(w, CAN_DATAGRAM_VERSION, 1, "crc") /\ CAN_DATAGRAM_VERSION \in Byte
    BY <1>9 DEF output_byte, CAN_DATAGRAM_VERSION, Byte
  <2>2. n = 0 /\ w.written = 0 /\ n < N /\ n # N /\ w.written + 1 >= 1
    BY <1>c, <1>6, <1>9
  <2>3. /\ v \in Writer /\ v.dst = w.dst /\ v.data = w.data /\ v.crc = w.crc
        /\ v.buffer = Append(w.buffer, CAN_DATAGRAM_VERSION)
        /\ v.written = 0 /\ v.writer_state = "crc"
    <3>1. HasPut(v, w, CAN_DATAGRAM_VERSION, 1, "crc")
      BY <1>1, <1>6, <2>1, PutByte
    <3> HIDE DEF v
    <3> QED BY <2>2, <3>1 DEF HasPut
  <2> HIDE DEF v
  <2> QED BY <1>4, <1>6, <2>2, <2>3, SMTT(60) DEF Wrote, C
<1>10. CASE state = "crc"
  <2>1. w.written + 1 \in 1..4 /\ n < N /\ n # N /\ n + 1 = 1 + (w.written + 1)
    BY <1>c, <1>6, <1>7, <1>10, SMTT(60)
  <2>2. v = Put(w, C[w.written + 1], 4, "dst_len")
    BY <1>6, <1>10 DEF output_byte
  <2>3. C[w.written + 1] \in Byte /\ W[n + 1] = C[w.written + 1]
    BY <1>1, <1>4, <2>1, ElementOfSeq, ZenonT(60)
  <2>4. PICK byte \in Byte : byte = C[w.written + 1]
    BY <2>3
  <2>5. /\ v \in Writer /\ v.dst = w.dst /\ v.data = w.data /\ v.crc = w.crc
        /\ v.buffer = Append(w.buffer, byte)
        /\ w.written + 1 >= 4 => v.written = 0 /\ v.writer_state = "dst_len"
        /\ w.written + 1 < 4 => v.written = w.written + 1 /\ v.writer_state = state
    <3>1. v = Put(w, byte, 4, "dst_len")
      BY <2>2, <2>4
    <3> HIDE DEF v
    <3>2. HasPut(v, w, byte, 4, "dst_len")
      BY <1>6, <3>1, PutByte
    <3> QED BY <3>2 DEF HasPut
  <2> HIDE DEF v
  <2>6. CASE w.written + 1 >= 4
    <3>1. n + 1 = 5
      BY <1>6, <1>7, <1>10, <2>1, <2>6
    <3> QED BY <1>6, <2>1, <2>3, <2>4, <2>5, <2>6, <3>1 DEF Wrote, C
  <2>7. CASE w.written + 1 < 4
    <3>1. n + 1 = 1 + v.written
      BY <2>1, <2>5, <2>7
    <3> QED BY <1>6, <1>10, <2>1, <2>3, <2>4, <2>5, <2>7, <3>1 DEF Wrote, C
  <2> QED BY <1>7, <2>6, <2>7
<1>11. CASE state = "dst_len"
  <2>1. v = Put(w, L, 1, "dst")
    BY <1>0, <1>b, <1>6, <1>11 DEF output_byte
  <2>2. n = 5 /\ w.written = 0 /\ n < N /\ n # N /\ w.written + 1 >= 1
    BY <1>c, <1>6, <1>11
  <2>3. /\ v \in Writer /\ v.dst = w.dst /\ v.data = w.data /\ v.crc = w.crc
        /\ v.buffer = Append(w.buffer, L)
        /\ v.written = 0 /\ v.writer_state = "dst"
    <3>1. HasPut(v, w, L, 1, "dst")
      BY <1>1, <1>6, <2>1, PutByte
    <3> HIDE DEF v
    <3> QED BY <2>2, <3>1 DEF HasPut
  <2> HIDE DEF v
  <2>4. W[n + 1] = L /\ n + 1 = 6 + v.written /\ v.written < Len(r.dst)
    BY <1>0, <1>b, <1>4, <1>5, <2>2, <2>3
  <2> QED BY <1>6, <2>2, <2>3, <2>4 DEF Wrote, C
<1>12. CASE state = "dst"
  <2>1. w.written + 1 \in 1..L /\ n < N /\ n # N /\ n + 1 = 6 + (w.written + 1)
    BY <1>c, <1>6, <1>7, <1>12
  <2>2. v = Put(w, r.dst[w.written + 1], L, "data_len")
    BY <1>0, <1>b, <1>6, <1>12 DEF output_byte
  <2>3. r.dst[w.written + 1] \in Byte /\ W[n + 1] = r.dst[w.written + 1]
    BY <1>0, <1>b, <1>1, <1>4, <2>1, ElementOfSeq, ZenonT(60)
  <2>4. PICK byte \in Byte : byte = r.dst[w.written + 1]
    BY <2>3
  <2>5. /\ v \in Writer /\ v.dst = w.dst /\ v.data = w.data /\ v.crc = w.crc
        /\ v.buffer = Append(w.buffer, byte)
        /\ w.written + 1 >= L => v.written = 0 /\ v.writer_state = "data_len"
        /\ w.written + 1 < L => v.written = w.written + 1 /\ v.writer_state = state
    <3>1. v = Put(w, byte, L, "data_len")
      BY <2>2, <2>4
    <3> HIDE DEF v
    <3>2. HasPut(v, w, byte, L, "data_len")
      BY <1>6, <3>1, PutByte
    <3> QED BY <3>2 DEF HasPut
  <2> HIDE DEF v
  <2>6. CASE w.written + 1 >= L
    <3>1. n + 1 = 6 + L + v.written
      BY <1>6, <1>7, <1>12, <2>1, <2>5, <2>6, SMTT(60)
    <3>2. n + 1 = 6 + Len(r.dst) + v.written /\ v.written < 4
      BY <1>0, <1>b, <2>5, <2>6, <3>1
    <3> QED BY <1>6, <2>1, <2>3, <2>4, <2>5, <2>6, <3>2 DEF Wrote, C
  <2>7. CASE w.written + 1 < L
    <3>1. n + 1 = 6 + v.written /\ v.written < Len(r.dst)
      BY <1>0, <1>b, <2>1, <2>5, <2>7
    <3> QED BY <1>6, <1>12, <2>1, <2>3, <2>4, <2>5, <2>7, <3>1 DEF Wrote, C
  <2> QED BY <1>7, <2>6, <2>7
<1>13. CASE state = "data_len"
  <2>1. w.written + 1 \in 1..4 /\ n < N /\ n # N /\ n + 1 = 6 + L + (w.written + 1)
    <3>1. PICK c \in Nat : c = w.written /\ c < 4 /\ n = 6 + L + c
      BY <1>6, <1>7, <1>13
    <3>2. n = 6 + L + c /\ c < 4
      BY <3>1
    <3>3. c + 1 \in 1..4 /\ n < N /\ n # N /\ n + 1 = 6 + L + (c + 1)
      BY <1>c, <3>2, Z3T(60)
    <3> QED BY <3>1, <3>3
  <2>2. v = Put(w, B[w.written + 1], 4, "data")
    BY <1>0, <1>b, <1>6, <1>13 DEF output_byte
  <2>3. B[w.written + 1] \in Byte /\ W[n + 1] = B[w.written + 1]
    BY <1>2, <1>4, <2>1, ElementOfSeq, ZenonT(60)
  <2>4. PICK byte \in Byte : byte = B[w.written + 1]
    BY <2>3
  <2>5. /\ v \in Writer /\ v.dst = w.dst /\ v.data = w.data /\ v.crc = w.crc
        /\ v.buffer = Append(w.buffer, byte)
        /\ w.written + 1 >= 4 => v.written = 0 /\ v.writer_state = "data"
        /\ w.written + 1 < 4 => v.written = w.written + 1 /\ v.writer_state = state
    <3>1. v = Put(w, byte, 4, "data")
      BY <2>2, <2>4
    <3> HIDE DEF v
    <3>2. HasPut(v, w, byte, 4, "data")
      BY <1>6, <3>1, PutByte
    <3> QED BY <3>2 DEF HasPut
  <2> HIDE DEF v
  <2>6. CASE w.written + 1 >= 4
    <3>1. n + 1 = 10 + Len(r.dst) + v.written /\ v.written <= Len(r.data)
      <4>1. n + 1 = 10 + L + v.written /\ v.written <= M
        BY <1>6, <1>7, <1>13, <2>1, <2>5, <2>6
      <4> QED BY <1>0, <1>b, <4>1
    <3> QED BY <1>6, <2>1, <2>3, <2>4, <2>5, <2>6, <3>1 DEF Wrote, C
  <2>7. CASE w.written + 1 < 4
    <3>1. n + 1 = 6 + Len(r.dst) + v.written
      BY <1>0, <1>b, <2>1, <2>5, <2>7
    <3> QED BY <1>6, <1>13, <2>1, <2>3, <2>4, <2>5, <2>7, <3>1 DEF Wrote, C
  <2> QED BY <1>7, <2>6, <2>7
<1>14. CASE state = "data" /\ w.written < M
  <2>1. w.written + 1 \in 1..M /\ n < N /\ n # N /\ n + 1 = 10 + L + (w.written + 1)
    BY <1>c, <1>6, <1>7, <1>14, SMTT(60)
  <2>2. ~(w.written >= M)
    BY <1>7, <1>14
  <2>3. r.data[w.written + 1] \in Byte /\ W[n + 1] = r.data[w.written + 1]
    BY <1>0, <1>b, <1>1, <1>4, <2>1, ElementOfSeq, ZenonT(60)
  <2>4. PICK byte \in Byte : byte = r.data[w.written + 1]
    BY <2>3
  <2>5. PICK b, k : b = Append(w.buffer, byte) /\ k = w.written + 1
    OBVIOUS
  <2>6. b \in Seq(Byte) /\ k \in Nat
    <3>1. w.buffer \in Seq(Byte)
      BY <1>6 DEF Writer
    <3> QED BY <1>7, <2>5, <3>1, AppendProperties
  <2>7. v = [w EXCEPT !.buffer = b, !.written = k]
    BY <1>0, <1>b, <1>6, <1>14, <2>2, <2>4, <2>5 DEF output_byte
  <2>8. /\ v \in Writer /\ v.dst = w.dst /\ v.data = w.data /\ v.crc = w.crc
        /\ v.buffer = b /\ v.written = k /\ v.writer_state = state
    <3> HIDE DEF v
    <3> QED BY <1>6, <2>6, <2>7 DEF Writer
  <2> HIDE DEF v
  <2>9. n + 1 = 10 + Len(r.dst) + v.written /\ v.written <= Len(r.data)
    <3>1. n + 1 = 10 + L + k /\ k <= M
      BY <2>1, <2>5
    <3> QED BY <1>0, <1>b, <2>8, <3>1
  <2> QED BY <1>6, <1>14, <2>1, <2>3, <2>4, <2>5, <2>8, <2>9 DEF Wrote, C
<1>15. CASE state = "data" /\ ~(w.written < M)
  <2>1. w.written >= M /\ n = N /\ ~(n < N)
    BY <1>c, <1>6, <1>7, <1>15
  <2>2. v = [w EXCEPT !.writer_state = "trailing"]
    BY <1>0, <1>b, <1>6, <1>15, <2>1 DEF output_byte
  <2>3. /\ v \in Writer /\ v.dst = w.dst /\ v.data = w.data /\ v.crc = w.crc
        /\ v.buffer = w.buffer /\ v.writer_state = "trailing"
    <3> HIDE DEF v
    <3> QED BY <1>6, <2>2 DEF Writer
  <2> HIDE DEF v
  <2>4. n = 10 + Len(r.dst) + Len(r.data)
    BY <1>0, <1>b, <1>3, <2>1
  <2> QED BY <1>6, <2>1, <2>3, <2>4 DEF Wrote, C
<1>16. CASE state = "trailing"
  <2>1. n = N /\ ~(n < N)
    BY <1>6, <1>16
  <2>2. v = w
    BY <1>16 DEF output_byte
  <2> QED BY <2>1, <2>2
<1> QED BY <1>7, <1>9, <1>10, <1>11, <1>12, <1>13, <1>14, <1>15, <1>16

---------------------------------------------------------------------------
(* The writer of the board, frame by frame *)

\* Writings is a recursive function: it exists, because a frame has eight bytes.
LEMMA WritingsStep ==
  ASSUME NEW w
  PROVE  /\ Writings(w)[0] = {[w EXCEPT !.buffer = <<>>]}
         /\ \A i \in 1..8 : Writings(w)[i] = {output_byte(x) : x \in Writings(w)[i-1]}
<1> DEFINE x0 == {[w EXCEPT !.buffer = <<>>]}
           x1 == {output_byte(x) : x \in x0}
           x2 == {output_byte(x) : x \in x1}
           x3 == {output_byte(x) : x \in x2}
           x4 == {output_byte(x) : x \in x3}
           x5 == {output_byte(x) : x \in x4}
           x6 == {output_byte(x) : x \in x5}
           x7 == {output_byte(x) : x \in x6}
           x8 == {output_byte(x) : x \in x7}
           g == [i \in 0..8 |->
                 IF i = 0 THEN x0 ELSE IF i = 1 THEN x1 ELSE IF i = 2 THEN x2
                 ELSE IF i = 3 THEN x3 ELSE IF i = 4 THEN x4
                 ELSE IF i = 5 THEN x5 ELSE IF i = 6 THEN x6
                 ELSE IF i = 7 THEN x7 ELSE x8]
           After(f, i) == IF i = 0 THEN x0 ELSE {output_byte(x) : x \in f[i-1]}
           Is(f) == f = [i \in 0..8 |-> After(f, i)]
<1>1. Is(g)
  <2>1. ASSUME NEW i \in 0..8 PROVE g[i] = After(g, i)
    <3>1. CASE i = 0
      BY <3>1
    <3>2. CASE i = 1
      <4>1. g[1] = x1 /\ g[0] = x0
        OBVIOUS
      <4>2. x1 = {output_byte(x) : x \in x0}
        OBVIOUS
      <4> HIDE DEF g, x0, x1, x2, x3, x4, x5, x6, x7, x8
      <4>3. i - 1 = 0 /\ i # 0
        BY <3>2
      <4>4. After(g, i) = {output_byte(x) : x \in g[0]}
        BY <4>3
      <4> QED BY <3>2, <4>1, <4>2, <4>4
    <3>3. CASE i = 2
      <4>1. g[2] = x2 /\ g[1] = x1
        OBVIOUS
      <4>2. x2 = {output_byte(x) : x \in x1}
        OBVIOUS
      <4> HIDE DEF g, x0, x1, x2, x3, x4, x5, x6, x7, x8
      <4>3. i - 1 = 1 /\ i # 0
        BY <3>3
      <4>4. After(g, i) = {output_byte(x) : x \in g[1]}
        BY <4>3
      <4> QED BY <3>3, <4>1, <4>2, <4>4
    <3>4. CASE i = 3
      <4>1. g[3] = x3 /\ g[2] = x2
        OBVIOUS
      <4>2. x3 = {output_byte(x) : x \in x2}
        OBVIOUS
      <4> HIDE DEF g, x0, x1, x2, x3, x4, x5, x6, x7, x8
      <4>3. i - 1 = 2 /\ i # 0
        BY <3>4
      <4>4. After(g, i) = {output_byte(x) : x \in g[2]}
        BY <4>3
      <4> QED BY <3>4, <4>1, <4>2, <4>4
    <3>5. CASE i = 4
      <4>1. g[4] = x4 /\ g[3] = x3
        OBVIOUS
      <4>2. x4 = {output_byte(x) : x \in x3}
        OBVIOUS
      <4> HIDE DEF g, x0, x1, x2, x3, x4, x5, x6, x7, x8
      <4>3. i - 1 = 3 /\ i # 0
        BY <3>5
      <4>4. After(g, i) = {output_byte(x) : x \in g[3]}
        BY <4>3
      <4> QED BY <3>5, <4>1, <4>2, <4>4
    <3>6. CASE i = 5
      <4>1. g[5] = x5 /\ g[4] = x4
        OBVIOUS
      <4>2. x5 = {output_byte(x) : x \in x4}
        OBVIOUS
      <4> HIDE DEF g, x0, x1, x2, x3, x4, x5, x6, x7, x8
      <4>3. i - 1 = 4 /\ i # 0
        BY <3>6
      <4>4. After(g, i) = {output_byte(x) : x \in g[4]}
        BY <4>3
      <4> QED BY <3>6, <4>1, <4>2, <4>4
    <3>7. CASE i = 6
      <4>1. g[6] = x6 /\ g[5] = x5
        OBVIOUS
      <4>2. x6 = {output_byte(x) : x \in x5}
        OBVIOUS
      <4> HIDE DEF g, x0, x1, x2, x3, x4, x5, x6, x7, x8
      <4>3. i - 1 = 5 /\ i # 0
        BY <3>7
      <4>4. After(g, i) = {output_byte(x) : x \in g[5]}
        BY <4>3
      <4> QED BY <3>7, <4>1, <4>2, <4>4
    <3>8. CASE i = 7
      <4>1. g[7] = x7 /\ g[6] = x6
        OBVIOUS
      <4>2. x7 = {output_byte(x) : x \in x6}
        OBVIOUS
      <4> HIDE DEF g, x0, x1, x2, x3, x4, x5, x6, x7, x8
      <4>3. i - 1 = 6 /\ i # 0
        BY <3>8
      <4>4. After(g, i) = {output_byte(x) : x \in g[6]}
        BY <4>3
      <4> QED BY <3>8, <4>1, <4>2, <4>4
    <3>9. CASE i = 8
      <4>1. g[8] = x8 /\ g[7] = x7
        OBVIOUS
      <4>2. x8 = {output_byte(x) : x \in x7}
        OBVIOUS
      <4> HIDE DEF g, x0, x1, x2, x3, x4, x5, x6, x7, x8
      <4>3. i - 1 = 7 /\ i # 0
        BY <3>9
      <4>4. After(g, i) = {output_byte(x) : x \in g[7]}
        BY <4>3
      <4> QED BY <3>9, <4>1, <4>2, <4>4
    <3> HIDE DEF g, After
    <3> QED BY <3>1, <3>2, <3>3, <3>4, <3>5, <3>6, <3>7, <3>8, <3>9
  <2> HIDE DEF After
  <2> QED BY <2>1, ZenonT(60)
<1> HIDE DEF g
<1>2. Is(CHOOSE f : Is(f))
  <2> HIDE DEF Is
  <2> QED BY <1>1
<1>3. Writings(w) = CHOOSE f : Is(f)
  BY SMTT(60) DEF Writings, FrameBytes
<1> DEFINE a == Writings(w)
<1>4. a = [i \in 0..8 |-> After(a, i)]
  BY <1>2, <1>3
<1> HIDE DEF a, After
<1>5. \A i \in 0..8 : a[i] = After(a, i)
  BY <1>4
<1>6. a[0] = x0 /\ \A i \in 1..8 : a[i] = {output_byte(x) : x \in a[i-1]}
  BY <1>5 DEF After
<1> QED BY <1>6 DEF a

\* The buffer of v has the k bytes of the datagram of r after the first n.
Filled(v, r, n, k) ==
  /\ Wrote(v, r, n + k) /\ v.buffer \in Seq(Byte) /\ Len(v.buffer) = k
  /\ \A j \in 1..k : v.buffer[j] = Written(r)[n+j]

\* How many of eight bytes there are after the first n of N.
UpTo(i, n, N) == IF n + i <= N THEN i ELSE N - n

\* can_datagram_output_bytes() fills its buffer with the next bytes of the datagram,
\* wherever the last buffer ended.
LEMMA OutputBytes ==
  ASSUME NEW r, Fits(r), r.dst # <<>>, NEW w,
         NEW n \in Nat, n <= Len(Written(r)), Wrote(w, r, n)
  PROVE  \A v \in output_bytes(w) : Filled(v, r, n, UpTo(8, n, Len(Written(r))))
<1> DEFINE a == Writings(w)
           W == Written(r)
           P(i, N) == \A v \in a[i] : Filled(v, r, n, UpTo(i, n, N))
<1>1. a[0] = {[w EXCEPT !.buffer = <<>>]} /\ \A i \in 1..8 : a[i] = {output_byte(x) : x \in a[i-1]}
  BY WritingsStep
<1>2. output_bytes(w) = a[8]
  BY DEF output_bytes, FrameBytes
<1>3. PICK N \in Nat : N = Len(W) /\ n <= N
  <2>1. W \in Seq(Byte)
    BY DatagramLayout
  <2> QED BY <2>1
<1>4. W \in Seq(Byte)
  BY DatagramLayout
<1> HIDE DEF a, W
<1>5. P(0, N)
  <2> DEFINE v == [w EXCEPT !.buffer = <<>>]
  <2>1. w \in Writer /\ <<>> \in Seq(Byte) /\ Len(<<>>) = 0
    BY EmptySeq DEF Wrote
  <2>2. /\ v \in Writer /\ v.dst = w.dst /\ v.data = w.data /\ v.crc = w.crc
        /\ v.writer_state = w.writer_state /\ v.written = w.written /\ v.buffer = <<>>
    BY <2>1 DEF Writer
  <2> HIDE DEF v
  <2>3. Wrote(v, r, n)
    BY <2>2 DEF Wrote
  <2>4. UpTo(0, n, N) = 0 /\ n + 0 = n
    BY <1>3 DEF UpTo
  <2>5. Filled(v, r, n, 0)
    BY <2>1, <2>2, <2>3, <2>4 DEF Filled
  <2> QED BY <1>1, <2>4, <2>5 DEF v
<1>6. ASSUME NEW i \in 0..7, P(i, N) PROVE P(i+1, N)
  <2>1. i + 1 \in 1..8 /\ i + 1 - 1 = i
    OBVIOUS
  <2>2. SUFFICES ASSUME NEW v \in a[i+1] PROVE Filled(v, r, n, UpTo(i+1, n, N))
    OBVIOUS
  <2>3. PICK x \in a[i] : v = output_byte(x)
    <3>1. a[i+1] = {output_byte(x) : x \in a[i+1-1]}
      BY <1>1, <2>1, SMTT(60)
    <3>2. a[i+1] = {output_byte(x) : x \in a[i]}
      BY <2>1, <3>1
    <3> QED BY <2>2, <3>2
  <2>4. PICK k \in Nat : k = UpTo(i, n, N)
    <3>1. CASE n + i <= N
      BY <3>1 DEF UpTo
    <3>2. CASE ~(n + i <= N)
      <4>1. N - n \in Nat
        BY <1>3
      <4> QED BY <3>2, <4>1 DEF UpTo
    <3> QED BY <3>1, <3>2
  <2>5. Filled(x, r, n, k)
    BY <1>6, <2>3, <2>4
  <2>6. /\ Wrote(x, r, n + k) /\ x.buffer \in Seq(Byte) /\ Len(x.buffer) = k
        /\ \A j \in 1..k : x.buffer[j] = W[n+j]
    BY <2>5 DEF Filled, W
  <2>7. CASE n + i < N
    <3>1. k = i /\ n + k < N /\ UpTo(i+1, n, N) = k + 1 /\ n + k \in Nat /\ n + k + 1 \in 1..N
      BY <1>3, <2>4, <2>7 DEF UpTo
    <3>2. Wrote(v, r, n + k + 1) /\ v.buffer = Append(x.buffer, W[n + k + 1])
      BY <1>3, <2>3, <2>6, <3>1, OutputByte, SMTT(60) DEF W
    <3>3. W[n + k + 1] \in Byte
      BY <1>3, <1>4, <3>1, ElementOfSeq
    <3>4. /\ v.buffer \in Seq(Byte) /\ Len(v.buffer) = k + 1 /\ v.buffer[k + 1] = W[n + k + 1]
          /\ \A j \in 1..k : v.buffer[j] = W[n+j]
      BY <2>6, <3>2, <3>3, AppendProperties, SMTT(60)
    <3>5. ASSUME NEW j \in 1..k+1 PROVE v.buffer[j] = W[n+j]
      <4>1. CASE j = k + 1
        <5>1. n + k + 1 = n + j
          BY <4>1
        <5> QED BY <3>4, <4>1, <5>1
      <4>2. CASE j \in 1..k
        BY <3>4, <4>2
      <4> QED BY <4>1, <4>2
    <3>6. n + k + 1 = n + (k + 1)
      OBVIOUS
    <3>7. Filled(v, r, n, k + 1)
      BY <3>2, <3>4, <3>5, <3>6 DEF Filled, W
    <3> QED BY <3>1, <3>7
  <2>8. CASE ~(n + i < N)
    <3>1. k = N - n /\ n + k = N /\ UpTo(i+1, n, N) = k
      BY <1>3, <2>4, <2>8 DEF UpTo
    <3>2. Wrote(v, r, n + k) /\ v.buffer = x.buffer
      BY <1>3, <2>3, <2>6, <3>1, OutputByte DEF W
    <3>3. Filled(v, r, n, k)
      BY <2>6, <3>2 DEF Filled, W
    <3> QED BY <3>1, <3>3
  <2> QED BY <2>7, <2>8
<1> HIDE DEF P
<1>7. P(1, N)
  BY <1>6, <1>5
<1>8. P(2, N)
  BY <1>6, <1>7
<1>9. P(3, N)
  BY <1>6, <1>8
<1>10. P(4, N)
  BY <1>6, <1>9
<1>11. P(5, N)
  BY <1>6, <1>10
<1>12. P(6, N)
  BY <1>6, <1>11
<1>13. P(7, N)
  BY <1>6, <1>12
<1>14. P(8, N)
  BY <1>6, <1>13
<1> QED BY <1>2, <1>3, <1>14 DEF P, W

LEMMA WriterStarted ==
  ASSUME NEW r, Fits(r)
  PROVE  Wrote(NewWriter(r.dst, r.data), r, 0)
<1> DEFINE w == NewWriter(r.dst, r.data)
<1>1. /\ r.dst \in Seq(Byte) /\ r.data \in Seq(Byte) /\ Checksum(r.data, r.dst) \in Quad
      /\ <<>> \in Seq(Byte)
  BY EmptySeq DEF Fits
<1>2. /\ w.writer_state = "version" /\ w.dst = r.dst /\ w.data = r.data
      /\ w.crc = Checksum(r.data, r.dst) /\ w.written = 0 /\ w \in Writer
  BY <1>1 DEF NewWriter, Writer
<1> HIDE DEF w
<1>3. Wrote(w, r, 0)
  BY <1>1, <1>2 DEF Wrote
<1> QED BY <1>3 DEF w

\* How much of a datagram of N bytes k frames hold.
Held(k, N) == IF 8 * k <= N THEN 8 * k ELSE N

\* The next buffer of the writer is the next frame of the client.
LEMMA NextFrame ==
  ASSUME NEW r, Fits(r), r.dst # <<>>,
         NEW k \in Nat, NEW w, Wrote(w, r, Held(k, Len(Written(r)))),
         NEW v \in output_bytes(w)
  PROVE  /\ v.buffer # <<>> =>
              /\ k + 1 \in 1..Len(datagram_to_frames(Written(r)))
              /\ [start |-> k = 0, data |-> v.buffer] = datagram_to_frames(Written(r))[k+1]
              /\ Wrote(v, r, Held(k + 1, Len(Written(r))))
         /\ v.buffer = <<>> => k >= Len(datagram_to_frames(Written(r)))
<1> PICK W : W = Written(r)
  OBVIOUS
<1> DEFINE S == datagram_to_frames(W)
           F == Len(S)
<1>1. W \in Seq(Byte) /\ W # <<>> /\ Len(W) \in Nat \ {0}
  BY WrittenBytes
<1>2. PICK N \in Nat \ {0} : N = Len(W)
  BY <1>1
<1>3. /\ S \in Seq(Frame) /\ Len(S) = F /\ F \in Nat \ {0} /\ N <= 8 * F /\ 8 * F < N + 8
      /\ \A i \in 1..F :
           /\ S[i].start <=> i = 1
           /\ Len(S[i].data) = IF i < F THEN 8 ELSE N - 8 * (i - 1)
           /\ \A j \in 1..Len(S[i].data) : S[i].data[j] = W[8 * (i - 1) + j]
  <2>1. CutInto(S, W)
    BY <1>1, FramesOfBytes
  <2> HIDE DEF S
  <2> QED BY <1>2, <2>1 DEF CutInto
<1>4. Wrote(w, r, Held(k, N))
  BY <1>2
<1> HIDE DEF S, F
<1>5. PICK n \in Nat : n = Held(k, N) /\ n <= N
  <2>1. Held(k, N) \in Nat /\ Held(k, N) <= N
    BY DEF Held
  <2> QED BY <2>1
<1>6. Filled(v, r, n, UpTo(8, n, N))
  <2>1. n <= Len(W) /\ Wrote(w, r, n)
    BY <1>2, <1>4, <1>5
  <2> QED BY <1>1, <1>2, <2>1, OutputBytes
<1>7. PICK l \in Nat : l = UpTo(8, n, N)
  <2>1. CASE n + 8 <= N
    BY <2>1 DEF UpTo
  <2>2. CASE ~(n + 8 <= N)
    BY <1>5, <2>2 DEF UpTo
  <2> QED BY <2>1, <2>2
<1>8. /\ Wrote(v, r, n + l) /\ v.buffer \in Seq(Byte) /\ Len(v.buffer) = l
      /\ \A j \in 1..l : v.buffer[j] = W[n+j]
  BY <1>6, <1>7 DEF Filled
<1>9. CASE v.buffer = <<>>
  <2>1. l = 0
    BY <1>8, <1>9, EmptySeq
  <2>2. n = N
    BY <1>5, <1>7, <2>1 DEF UpTo
  <2>3. 8 * k >= N
    BY <1>5, <2>2 DEF Held
  <2>4. k >= F
    BY <1>3, <2>3
  <2>5. F = Len(S)
    BY <1>3
  <2> QED BY <1>9, <2>4, <2>5 DEF S
<1>10. CASE v.buffer # <<>>
  <2>1. l # 0
    BY <1>8, <1>10, EmptySeq
  <2>2. n # N /\ n < N
    BY <1>5, <1>7, <2>1 DEF UpTo
  <2>3. n = 8 * k
    BY <1>5, <2>2 DEF Held
  <2>4. k + 1 \in 1..F
    BY <1>3, <2>2, <2>3
  <2>5. l = (IF k + 1 < F THEN 8 ELSE N - 8 * k)
    <3>1. CASE 8 * k + 8 <= N
      BY <1>3, <1>7, <2>3, <2>4, <3>1 DEF UpTo
    <3>2. CASE ~(8 * k + 8 <= N)
      BY <1>3, <1>7, <2>3, <2>4, <3>2 DEF UpTo
    <3> QED BY <3>1, <3>2
  <2>6. n + l = Held(k + 1, N)
    <3>1. CASE 8 * k + 8 <= N
      BY <1>7, <2>3, <3>1 DEF UpTo, Held
    <3>2. CASE ~(8 * k + 8 <= N)
      BY <1>7, <2>3, <3>2 DEF UpTo, Held
    <3> QED BY <3>1, <3>2
  <2>7. PICK i : i = k + 1 /\ i \in 1..F /\ 8 * (i - 1) = 8 * k
    BY <2>4
  <2>8. /\ S[i] \in Frame /\ S[i].start = (k = 0) /\ Len(S[i].data) = l
        /\ \A j \in 1..l : S[i].data[j] = W[8 * k + j]
    <3>1. /\ S[i].start <=> i = 1
          /\ Len(S[i].data) = IF i < F THEN 8 ELSE N - 8 * (i - 1)
          /\ \A j \in 1..Len(S[i].data) : S[i].data[j] = W[8 * (i - 1) + j]
      BY <1>3, <2>7
    <3>2. S[i] \in Frame
      BY <1>3, <2>7, ElementOfSeq
    <3>3. i = 1 <=> k = 0
      BY <2>7
    <3>4. Len(S[i].data) = l
      BY <2>5, <2>7, <3>1
    <3>5. S[i].start \in BOOLEAN
      BY <3>2 DEF Frame
    <3>6. S[i].start = (k = 0)
      BY <3>1, <3>3, <3>5
    <3> QED BY <2>7, <3>1, <3>2, <3>4, <3>6
  <2>9. v.buffer = S[i].data
    <3>1. S[i].data \in Seq(Byte)
      BY <2>8 DEF Frame
    <3>2. \A j \in 1..l : v.buffer[j] = S[i].data[j]
      BY <1>8, <2>3, <2>8
    <3> QED BY <1>8, <2>8, <3>1, <3>2, SeqEqual
  <2>10. [start |-> k = 0, data |-> v.buffer] = S[k+1]
    BY <2>7, <2>8, <2>9 DEF Frame
  <2>11. Wrote(v, r, Held(k + 1, N)) /\ F = Len(S)
    BY <1>3, <1>8, <2>6
  <2> QED BY <1>2, <1>10, <2>4, <2>10, <2>11 DEF S
<1> QED BY <1>9, <1>10
=============================================================================
