----------------------------- MODULE MCExchange -----------------------------
(* A checksum of four bytes in the place of CRC-32: two polynomials modulo  *)
(* primes.  What the bus makes of the few datagrams below has no collision. *)
EXTENDS Exchange, SequencesExt

Polynomial(bytes, factor, seed, prime) ==
  FoldLeft(LAMBDA acc, b : (acc * factor + b + 1) % prime, seed, bytes)

MCCrc(bytes) ==
  LET high == Polynomial(bytes, 257, 7, 65521)
      low == Polynomial(bytes, 131, 11, 65537) % 65536
  IN <<high \div 256, high % 256, low \div 256, low % 256>>

\* Requests to the other board alone, in two frames; to both boards, in two full
\* frames, with data that just fits the buffer; with data that does not fit; and
\* without a destination (bootloader_run_application without an argument sends that);
\* and with one destination too many.
MCRequests == {[dst |-> <<2>>, data |-> <<3, 5, 144>>],
               [dst |-> <<2, 1>>, data |-> <<3, 9, 145, 7>>],
               [dst |-> <<1>>, data |-> <<3, 9, 145, 7, 8>>],
               [dst |-> <<>>, data |-> <<3, 1, 144>>],
               [dst |-> <<2, 3, 1>>, data |-> <<3>>]}

\* A reply in three frames; those that complain are in two.
MCReply(data) == <<130, 1, 2, 3, 4, 5>>
MCOtherReply == <<1>>

MCNoPayload == [start |-> FALSE, data |-> <<>>]

\* The checksum above has no collision among the splices of these requests.
ASSUME MCNoCollision == NoCollision
=============================================================================
