--------------------------- MODULE CanFifoProofs ---------------------------
(***************************************************************************)
(* Proofs about CanFifo, for every size of the ring buffer and of the      *)
(* controller's FIFO and any number of frames.                             *)
(***************************************************************************)
EXTENDS CanFifo, Integers, SequenceTheorems, TLAPS

---------------------------------------------------------------------------
(* Remainders with a divisor that is not a literal: the indices of a ring buffer of any
   size *)

\* A number is its quotient times the divisor plus its remainder.
LEMMA Division ==
  ASSUME NEW K \in Nat, K > 0, NEW n \in Nat
  PROVE  n = K * (n \div K) + (n % K) /\ n \div K \in Nat /\ n % K \in 0..K-1
  BY Z3

\* Quotient and remainder are unique.
LEMMA DivisionUnique ==
  ASSUME NEW K \in Nat, K > 0, NEW q \in Int, NEW p \in Int,
         NEW r \in 0..K-1, NEW s \in 0..K-1, K * q + r = K * p + s
  PROVE  q = p /\ r = s
  <1>1. K * (q - p) = s - r
    BY Z3
  <1>2. \A d \in Int : (d >= 1 => K * d >= K) /\ (d <= -1 => K * d <= -K)
    BY Z3
  <1>3. ~(q - p >= 1) /\ ~(q - p <= -1)
    BY <1>1, <1>2
  <1> QED
    BY <1>1, <1>3

LEMMA RemainderOf ==
  ASSUME NEW K \in Nat, K > 0, NEW q \in Nat, NEW r \in 0..K-1
  PROVE  (K * q + r) % K = r
  <1>1. K * q + r \in Nat
    BY Z3
  <1> QED
    BY <1>1, Division, DivisionUnique

\* A number below the divisor is its own remainder.
LEMMA RemainderSmall ==
  ASSUME NEW K \in Nat, K > 0, NEW r \in 0..K-1
  PROVE  r % K = r
  <1>1. r = K * 0 + r
    OBVIOUS
  <1> QED
    BY <1>1, RemainderOf

\* Counting on and wrapping can be done in either order.
LEMMA RemainderSuccessor ==
  ASSUME NEW K \in Nat, K > 1, NEW n \in Nat
  PROVE  (n + 1) % K = ((n % K) + 1) % K
  <1> DEFINE q == n \div K
             r == n % K
  <1>1. n = K * q + r /\ q \in Nat /\ r \in 0..K-1
    BY Division
  <1>2. CASE r + 1 < K
    <2>1. n + 1 = K * q + (r + 1) /\ r + 1 \in 0..K-1
      BY <1>1, <1>2
    <2>2. (K * q + (r + 1)) % K = r + 1
      BY <1>1, <2>1, RemainderOf
    <2>3. (r + 1) % K = r + 1
      BY <2>1, RemainderSmall
    <2> QED
      BY <2>1, <2>2, <2>3
  <1>3. CASE r + 1 = K
    <2>1. n + 1 = K * (q + 1) + 0
      BY <1>1, <1>3, Z3
    <2>2. (K * (q + 1) + 0) % K = 0
      <3>1. q + 1 \in Nat /\ 0 \in 0..K-1
        BY <1>1
      <3> QED
        BY <3>1, RemainderOf
    <2>3. (K * 1 + 0) % K = 0
      <3>1. 1 \in Nat /\ 0 \in 0..K-1
        OBVIOUS
      <3> QED
        BY <3>1, RemainderOf
    <2>4. r + 1 = K * 1 + 0
      BY <1>1, <1>3
    <2> QED
      BY <2>1, <2>2, <2>3, <2>4
  <1> QED
    BY <1>1, <1>2, <1>3

\* ... by any number of places.
LEMMA RemainderShift ==
  ASSUME NEW K \in Nat, K > 0, NEW n \in Nat, NEW j \in Nat
  PROVE  ((n % K) + j) % K = (n + j) % K
  <1> DEFINE q == n \div K
             r == n % K
             p == (r + j) \div K
             s == (r + j) % K
  <1>1. n = K * q + r /\ q \in Nat /\ r \in 0..K-1
    BY Division
  <1>2. r + j = K * p + s /\ p \in Nat /\ s \in 0..K-1
    <2>1. r + j \in Nat
      BY <1>1
    <2> QED
      BY <2>1, Division
  <1> HIDE DEF q, p, s
  <1>3. n + j = K * (q + p) + s
    BY <1>1, <1>2, Z3
  <1>4. (K * (q + p) + s) % K = s
    <2>1. q + p \in Nat
      BY <1>1, <1>2
    <2> QED
      BY <1>2, <2>1, RemainderOf
  <1> QED
    BY <1>3, <1>4 DEF s

\* Fewer than K steps apart means different remainders.
LEMMA RemainderDistinct ==
  ASSUME NEW K \in Nat, K > 1, NEW a \in Nat, NEW b \in Nat, a < b, b < a + K
  PROVE  a % K # b % K
  <1> SUFFICES ASSUME a % K = b % K PROVE FALSE
    OBVIOUS
  <1> DEFINE d == b \div K - a \div K
  <1>1. /\ a = K * (a \div K) + (a % K) /\ a \div K \in Nat /\ a % K \in 0..K-1
        /\ b = K * (b \div K) + (b % K) /\ b \div K \in Nat /\ b % K \in 0..K-1
    BY Division
  <1>2. d \in Int
    BY <1>1
  <1>3. K * d = b - a
    BY <1>1, Z3
  <1>4. \A e \in Int : (e >= 1 => K * e >= K) /\ (e <= 0 => K * e <= 0)
    BY Z3
  <1> HIDE DEF d
  <1>5. d >= 1 \/ d <= 0
    BY <1>2
  <1> QED
    BY <1>2, <1>3, <1>4, <1>5

---------------------------------------------------------------------------
(* The constants *)

LEMMA Sizes == /\ N \in Nat /\ N > 1 /\ N > 0
               /\ HwDepth \in Nat /\ HwDepth > 0
               /\ MaxFrames \in Nat /\ 0 \in Number
  BY SizesAssumption DEF Number

LEMMA WholeType == \A n \in Number : Whole(n) \in Frame
  BY DEF Whole, Frame

LEMMA FollowingType == \A i \in 0..N-1 : Following(i) \in 0..N-1
  BY Sizes, Division DEF Following

---------------------------------------------------------------------------
(* Type correctness *)

LEMMA TypeInit == Init => TypeOK
  BY Sizes, WholeType DEF Init, TypeOK

LEMMA TypeStep == TypeOK /\ [Next]_vars => TypeOK'
  <1> SUFFICES ASSUME TypeOK, [Next]_vars PROVE TypeOK'
    OBVIOUS
  <1> USE Sizes DEF TypeOK
  <1>1. CASE Arrive
    <2>1. seen' \in Number
      BY <1>1 DEF Arrive, Number
    <2> QED
      BY <1>1, <2>1 DEF Arrive
  <1>2. CASE Isr
    <2>1. hw # <<>> /\ Head(hw) \in Number /\ Tail(hw) \in Seq(Number)
          /\ Len(Tail(hw)) <= HwDepth
      BY <1>2 DEF Isr, can_frame_received
    <2>2. buffer' \in [0..N-1 -> Frame]
      <3>1. Whole(Head(hw)) \in Frame
        BY <2>1, WholeType
      <3> QED
        BY <1>2, <3>1 DEF Isr
    <2>3. log' \in Seq(Number)
      BY <1>2, <2>1 DEF Isr
    <2>4. push_index' \in 0..N-1
      BY <1>2, FollowingType DEF Isr
    <2> QED
      BY <1>2, <2>1, <2>2, <2>3, <2>4 DEF Isr, Taken
  <1>3. CASE Poll
    BY <1>3 DEF Poll
  <1>4. ASSUME NEW f \in {"id", "dlc", "data"}, NEW n \in {"dlc", "data", "drop"},
               CopyField(f, n)
        PROVE  TypeOK'
    BY <1>4 DEF CopyField, Frame
  <1>5. CASE CopyId \/ CopyDlc \/ CopyData
    BY <1>4, <1>5 DEF CopyId, CopyDlc, CopyData
  <1>6. CASE Drop
    BY <1>6, FollowingType DEF Drop
  <1>7. CASE UNCHANGED vars
    BY <1>7 DEF vars
  <1> QED
    BY <1>1, <1>2, <1>3, <1>5, <1>6, <1>7 DEF Next, Main

\* The indices stay inside the buffer and every stored number in its range.
THEOREM TypeCorrect == Spec => []TypeOK
  <1> QED
    BY TypeInit, TypeStep, PTL DEF Spec

---------------------------------------------------------------------------
(* The inductive invariant: the indices are the numbers of frames stored   *)
(* and returned, wrapped; a frame stored and not returned lies untouched   *)
(* in its slot; the main loop reads the oldest of them.                    *)

Slot(k) == (k - 1) % N          \* where the k-th stored frame goes

Indices ==
  /\ Len(got) <= Len(log) /\ Len(log) - Len(got) <= N - 1
  /\ push_index = Len(log) % N
  /\ pop_index = Len(got) % N

Stored == \A k \in Len(got)+1..Len(log) : buffer[Slot(k)] = Whole(log[k])

Reading ==
  pc # "poll" =>
    /\ index = pop_index
    /\ Len(got) < Len(log)
    /\ pc \in {"dlc", "data", "drop"} => out.id = log[Len(got) + 1]
    /\ pc \in {"data", "drop"} => out.dlc = log[Len(got) + 1]
    /\ pc = "drop" => out.data = log[Len(got) + 1]

Returned == \A k \in 1..Len(got) : got[k] = Whole(log[k])

CInv == TypeOK /\ Indices /\ Stored /\ Reading /\ Returned

LEMMA CInvInit == Init => CInv
  <1> SUFFICES ASSUME Init PROVE CInv
    OBVIOUS
  <1>1. 0 % N = 0
    BY Sizes, RemainderSmall
  <1> QED
    BY <1>1, TypeInit, Sizes DEF Init, CInv, Indices, Stored, Reading, Returned

LEMMA CInvStep == CInv /\ [Next]_vars => CInv'
  <1> SUFFICES ASSUME CInv, [Next]_vars PROVE CInv'
    OBVIOUS
  <1>t. TypeOK /\ TypeOK'
    BY TypeStep DEF CInv
  <1>l. Len(log) \in Nat /\ Len(got) \in Nat
    BY <1>t DEF TypeOK
  <1>1. CASE Arrive
    BY <1>1, <1>t DEF Arrive, CInv, Indices, Stored, Reading, Returned
  <1>2. CASE Isr
    <2> DEFINE n == Len(log)
               f == Head(hw)
    <2>1. /\ UNCHANGED <<pop_index, pc, index, out, got>>
          /\ buffer' = [buffer EXCEPT ![push_index] = Whole(f)]
          /\ push_index' = Following(push_index)
          /\ log' = Append(log, f)
          /\ ~fifo_is_full
      BY <1>2 DEF Isr
    <2>2. /\ Len(log') = n + 1 /\ log'[n + 1] = f
          /\ \A k \in 1..n : log'[k] = log[k]
      BY <2>1, <1>t DEF TypeOK
    <2>3. n - Len(got) < N - 1
      <3>1. SUFFICES ASSUME n - Len(got) = N - 1 PROVE FALSE
        BY <1>l, Sizes DEF CInv, Indices
      <3>2. (n + 1) % N # Len(got) % N
        BY <2>1, <1>l, Sizes, RemainderSuccessor DEF fifo_is_full, Following, CInv, Indices
      <3>3. n + 1 = N * 1 + Len(got)
        BY <3>1, <1>l, Sizes
      <3>4. (N + Len(got)) % N = Len(got) % N
        <4>1. N % N = 0
          <5>1. N = N * 1 + 0 /\ 0 \in 0..N-1
            BY Sizes
          <5> QED
            BY <5>1, Sizes, RemainderOf
        <4>2. ((N % N) + Len(got)) % N = (N + Len(got)) % N
          BY <1>l, Sizes, RemainderShift
        <4> QED
          BY <4>1, <4>2, <1>l
      <3> QED
        BY <3>2, <3>3, <3>4, <1>l, Sizes
    <2>4. Indices'
      <3>1. push_index' = (n + 1) % N
        BY <2>1, <1>l, Sizes, RemainderSuccessor DEF Following, CInv, Indices
      <3> QED
        BY <2>1, <2>2, <2>3, <3>1, <1>l, Sizes DEF CInv, Indices
    <2>5. Stored'
      <3>1. SUFFICES ASSUME NEW k \in Len(got)+1..n+1
                     PROVE  buffer'[Slot(k)] = Whole(log'[k])
        BY <2>1, <2>2 DEF Stored
      <3>2. CASE k = n + 1
        <4>1. Slot(k) = push_index /\ push_index \in 0..N-1
          BY <3>2, <1>l, <1>t DEF Slot, CInv, Indices, TypeOK
        <4> QED
          BY <4>1, <3>2, <2>1, <2>2, <1>t DEF TypeOK
      <3>3. CASE k \in Len(got)+1..n
        <4>1. k - 1 \in Nat /\ k - 1 < n /\ n < (k - 1) + N
          BY <3>3, <2>3, <1>l, Sizes
        <4>2. Slot(k) # push_index
          BY <4>1, <1>l, Sizes, RemainderDistinct DEF Slot, CInv, Indices
        <4>3. Slot(k) \in 0..N-1
          BY <4>1, Sizes, Division DEF Slot
        <4>4. buffer'[Slot(k)] = buffer[Slot(k)]
          BY <4>2, <4>3, <2>1, <1>t DEF TypeOK
        <4>5. k \in 1..n
          BY <3>3, <1>l
        <4> QED
          BY <3>3, <4>4, <4>5, <2>2 DEF CInv, Stored
      <3> QED
        BY <3>2, <3>3, <1>l
    <2>6. Reading'
      <3>1. pc # "poll" => Len(got) + 1 \in 1..n
        BY <1>l DEF CInv, Reading
      <3> QED
        BY <3>1, <2>1, <2>2, <1>l DEF CInv, Reading
    <2>7. Returned'
      <3>1. \A k \in 1..Len(got) : k \in 1..n
        BY <1>l DEF CInv, Indices
      <3> QED
        BY <3>1, <2>1, <2>2 DEF CInv, Returned
    <2> QED
      BY <1>t, <2>4, <2>5, <2>6, <2>7 DEF CInv
  <1>3. CASE Poll
    <2>1. Len(got) < Len(log)
      BY <1>3, <1>l, <1>t DEF Poll, FrameReady, fifo_is_empty, CInv, Indices
    <2> QED
      BY <1>3, <1>t, <2>1 DEF Poll, CInv, Indices, Stored, Reading, Returned
  <1>4. CASE CopyId \/ CopyDlc \/ CopyData
    <2>1. /\ pc \in {"id", "dlc", "data"}
          /\ UNCHANGED <<buffer, push_index, pop_index, index, log, got>>
      BY <1>4 DEF CopyId, CopyDlc, CopyData, CopyField
    <2>2. buffer[index] = Whole(log[Len(got) + 1])
      <3>1. Len(got) + 1 \in Len(got)+1..Len(log)
        BY <2>1, <1>l DEF CInv, Reading
      <3>2. index = Slot(Len(got) + 1)
        BY <2>1, <1>l DEF Slot, CInv, Indices, Reading
      <3> QED
        BY <3>1, <3>2 DEF CInv, Stored
    <2>3. Reading'
      BY <1>4, <1>t, <2>1, <2>2
         DEF CopyId, CopyDlc, CopyData, CopyField, CInv, Reading, Whole, TypeOK, Frame
    <2> QED
      BY <1>t, <2>1, <2>3 DEF CInv, Indices, Stored, Returned
  <1>5. CASE Drop
    <2> DEFINE m == Len(got)
    <2>1. /\ pc' = "poll" /\ m < Len(log)
          /\ out = Whole(log[m + 1])
          /\ pop_index' = Following(pop_index)
          /\ got' = Append(got, out)
          /\ UNCHANGED <<buffer, push_index, log>>
      BY <1>5, <1>t DEF Drop, CInv, Reading, TypeOK, Frame, Whole
    <2>2. /\ Len(got') = m + 1 /\ got'[m + 1] = out
          /\ \A k \in 1..m : got'[k] = got[k]
      BY <2>1, <1>t DEF TypeOK
    <2>3. Indices'
      <3>1. pop_index' = (m + 1) % N
        BY <2>1, <1>l, Sizes, RemainderSuccessor DEF Following, CInv, Indices
      <3> QED
        BY <2>1, <2>2, <3>1, <1>l, Sizes DEF CInv, Indices
    <2>4. Stored'
      BY <2>1, <2>2, <1>l DEF CInv, Stored, Slot
    <2>5. Returned'
      BY <2>1, <2>2, <1>l DEF CInv, Returned
    <2> QED
      BY <1>t, <2>1, <2>3, <2>4, <2>5 DEF CInv, Reading
  <1>6. CASE UNCHANGED vars
    BY <1>6, <1>t DEF vars, CInv, Indices, Stored, Reading, Returned, Slot
  <1> QED
    BY <1>1, <1>2, <1>3, <1>4, <1>5, <1>6 DEF Next, Main

\* The frames in the ring buffer, the one being read and the returned ones are what the
\* handler stored, in its order (can_interface.c, can_fifo.c).
THEOREM CInvCorrect == Spec => []CInv
  <1> QED
    BY CInvInit, CInvStep, PTL DEF Spec

---------------------------------------------------------------------------
(* The properties *)

\* Every returned frame is whole and they come in order, none left out.
THEOREM InOrder == Spec => []DeliveredInOrder
  <1>1. CInv => DeliveredInOrder
    BY DEF CInv, Indices, Returned, DeliveredInOrder
  <1> QED
    BY <1>1, CInvCorrect, PTL

\* No frame is overwritten between the handler and the main loop.
THEOREM NotOverwritten == Spec => []NothingOverwritten
  <1>1. CInv => NothingOverwritten
    <2> SUFFICES ASSUME CInv PROVE NothingOverwritten
      OBVIOUS
    <2>l. Len(log) \in Nat /\ Len(got) \in Nat
      BY DEF CInv, TypeOK
    <2>1. ASSUME NEW k \in Len(got)+1..Len(log)
          PROVE  buffer[(pop_index + (k - Len(got) - 1)) % N] = Whole(log[k])
      <3>1. k - Len(got) - 1 \in Nat
        BY <2>l
      <3>2. ((Len(got) % N) + (k - Len(got) - 1)) % N
              = (Len(got) + (k - Len(got) - 1)) % N
        BY <3>1, <2>l, Sizes, RemainderShift
      <3>3. Len(got) + (k - Len(got) - 1) = k - 1
        BY <2>l
      <3> QED
        BY <3>2, <3>3 DEF CInv, Indices, Stored, Slot
    <2> QED
      BY <2>1 DEF CInv, Indices, NothingOverwritten
  <1> QED
    BY <1>1, CInvCorrect, PTL

---------------------------------------------------------------------------
(* The order of the bus: what the controller holds is in order, newer than *)
(* what the handler stored, and not newer than the last frame seen.        *)

InOrderInHw ==
  /\ \A j, k \in 1..Len(hw) : j < k => hw[j] < hw[k]
  /\ \A j \in 1..Len(log) : \A k \in 1..Len(hw) : log[j] < hw[k]
  /\ \A j \in 1..Len(hw) : hw[j] <= seen
  /\ \A j \in 1..Len(log) : log[j] <= seen

OInv == TypeOK /\ InOrderInHw /\ BusOrderKept

LEMMA OInvStep == OInv /\ [Next]_vars => OInv'
  <1> SUFFICES ASSUME OInv, [Next]_vars PROVE OInv'
    OBVIOUS
  <1>t. TypeOK /\ TypeOK'
    BY TypeStep DEF OInv
  <1>l. /\ Len(log) \in Nat /\ Len(hw) \in Nat /\ seen \in Nat
        /\ \A j \in 1..Len(log) : log[j] \in Nat
        /\ \A j \in 1..Len(hw) : hw[j] \in Nat
    <2>1. log \in Seq(Number) /\ hw \in Seq(Number) /\ seen \in Number
      BY <1>t DEF TypeOK
    <2>2. \A n \in Number : n \in Nat
      BY Sizes DEF Number
    <2> HIDE DEF Number
    <2>3. \A j \in 1..Len(log) : log[j] \in Number
      BY <2>1
    <2>4. \A j \in 1..Len(hw) : hw[j] \in Number
      BY <2>1
    <2>5. Len(log) \in Nat /\ Len(hw) \in Nat
      BY <2>1
    <2> QED
      BY <2>1, <2>2, <2>3, <2>4, <2>5
  <1>1. CASE Arrive
    <2>1. log' = log /\ seen' = seen + 1
      BY <1>1 DEF Arrive
    <2>2. \A j \in 1..Len(hw') :
            \/ j \in 1..Len(hw) /\ hw'[j] = hw[j]
            \/ j = Len(hw') /\ hw'[j] = seen + 1
      <3>1. CASE Len(hw) < HwDepth
        <4>1. hw' = Append(hw, seen + 1) /\ hw \in Seq(Number)
          BY <1>1, <1>t, <3>1 DEF Arrive, TypeOK
        <4> QED
          BY <1>l, <4>1
      <3>2. CASE ~(Len(hw) < HwDepth)
        <4>1. hw' = [hw EXCEPT ![HwDepth] = seen + 1] /\ Len(hw) = HwDepth
          BY <1>1, <1>t, <1>l, <3>2, Sizes DEF Arrive, TypeOK
        <4>2. Len(hw') = Len(hw) /\ DOMAIN hw' = 1..Len(hw)
          BY <1>t, <4>1 DEF TypeOK
        <4> QED
          BY <1>t, <4>1, <4>2 DEF TypeOK
      <3> QED
        BY <3>1, <3>2
    <2>3. Len(hw') \in Nat
      BY <1>t DEF TypeOK
    <2>4. InOrderInHw'
      <3>1. \A j, k \in 1..Len(hw') : j < k => hw'[j] < hw'[k]
        <4>1. SUFFICES ASSUME NEW j \in 1..Len(hw'), NEW k \in 1..Len(hw'), j < k
                       PROVE  hw'[j] < hw'[k]
          OBVIOUS
        <4>2. j # Len(hw')
          BY <2>3, <4>1
        <4>3. j \in 1..Len(hw) /\ hw'[j] = hw[j] /\ hw[j] <= seen
          BY <2>2, <4>2 DEF OInv, InOrderInHw
        <4> QED
          BY <1>l, <2>2, <4>1, <4>3 DEF OInv, InOrderInHw
      <3>2. \A j \in 1..Len(log) : \A k \in 1..Len(hw') : log[j] < hw'[k]
        BY <1>l, <2>2 DEF OInv, InOrderInHw
      <3>3. \A j \in 1..Len(hw') : hw'[j] <= seen + 1
        BY <1>l, <2>2 DEF OInv, InOrderInHw
      <3>4. \A j \in 1..Len(log) : log[j] <= seen + 1
        BY <1>l DEF OInv, InOrderInHw
      <3> QED
        BY <2>1, <3>1, <3>2, <3>3, <3>4 DEF InOrderInHw
    <2> QED
      BY <1>t, <2>1, <2>4 DEF OInv, BusOrderKept
  <1>2. CASE Isr
    <2>1. hw # <<>> /\ hw' = Tail(hw) /\ log' = Append(log, hw[1]) /\ seen' = seen
      BY <1>2 DEF Isr, can_frame_received, Taken
    <2>2. /\ 1 \in 1..Len(hw) /\ Len(hw') \in Nat
          /\ \A j \in 1..Len(hw') : j + 1 \in 1..Len(hw) /\ hw'[j] = hw[j + 1]
      <3>1. hw \in Seq(Number)
        BY <1>t DEF TypeOK
      <3> HIDE DEF Number
      <3> QED
        BY <2>1, <3>1
    <2>3. /\ Len(log') = Len(log) + 1
          /\ \A j \in 1..Len(log') :
               \/ j \in 1..Len(log) /\ log'[j] = log[j]
               \/ j = Len(log) + 1 /\ log'[j] = hw[1]
      <3>1. log \in Seq(Number)
        BY <1>t DEF TypeOK
      <3> HIDE DEF Number
      <3> QED
        BY <2>1, <3>1
    <2>4. InOrderInHw'
      <3>1. \A j, k \in 1..Len(hw') : j < k => hw'[j] < hw'[k]
        <4> SUFFICES ASSUME NEW j \in 1..Len(hw'), NEW k \in 1..Len(hw'), j < k
                     PROVE  hw'[j] < hw'[k]
          OBVIOUS
        <4>1. /\ j + 1 \in 1..Len(hw) /\ hw'[j] = hw[j + 1]
              /\ k + 1 \in 1..Len(hw) /\ hw'[k] = hw[k + 1] /\ j + 1 < k + 1
          BY <1>l, <2>2
        <4> QED
          BY <4>1 DEF OInv, InOrderInHw
      <3>2. \A k \in 1..Len(hw') : hw[1] < hw'[k]
        BY <1>l, <2>2 DEF OInv, InOrderInHw
      <3>3. \A j \in 1..Len(log') : \A k \in 1..Len(hw') : log'[j] < hw'[k]
        <4>1. \A j \in 1..Len(log) : \A k \in 1..Len(hw') : log[j] < hw'[k]
          BY <2>2 DEF OInv, InOrderInHw
        <4> SUFFICES ASSUME NEW j \in 1..Len(log'), NEW k \in 1..Len(hw')
                     PROVE  log'[j] < hw'[k]
          OBVIOUS
        <4>2. \/ j \in 1..Len(log) /\ log'[j] = log[j]
              \/ log'[j] = hw[1]
          BY <2>3
        <4> QED
          BY <3>2, <4>1, <4>2
      <3>4. /\ \A j \in 1..Len(hw') : hw'[j] <= seen'
            /\ \A j \in 1..Len(log') : log'[j] <= seen'
        BY <1>l, <2>1, <2>2, <2>3 DEF OInv, InOrderInHw
      <3> QED
        BY <3>1, <3>3, <3>4 DEF InOrderInHw
    <2>5. BusOrderKept'
      <3> SUFFICES ASSUME NEW j \in 1..Len(log'), NEW k \in 1..Len(log'), j < k
                   PROVE  log'[j] < log'[k]
        BY DEF BusOrderKept
      <3>1. j \in 1..Len(log) /\ log'[j] = log[j] /\ log[j] < hw[1]
        BY <1>l, <2>2, <2>3 DEF OInv, InOrderInHw
      <3>2. CASE k \in 1..Len(log) /\ log'[k] = log[k]
        BY <3>1, <3>2 DEF OInv, BusOrderKept
      <3>3. CASE log'[k] = hw[1]
        BY <3>1, <3>3
      <3> QED
        BY <2>3, <3>2, <3>3
    <2> QED
      BY <1>t, <2>4, <2>5 DEF OInv
  <1>3. CASE Main \/ UNCHANGED vars
    <2>1. UNCHANGED <<seen, hw, log>>
      BY <1>3 DEF Main, Poll, CopyId, CopyDlc, CopyData, CopyField, Drop, vars
    <2> QED
      BY <1>t, <2>1 DEF OInv, InOrderInHw, BusOrderKept
  <1> QED
    BY <1>1, <1>2, <1>3 DEF Next

\* The bus order survives the controller's overruns (can_interface.c, can_fifo.c),
\* for every depth of its FIFO.
THEOREM OrderKept == Spec => []BusOrderKept
  <1>1. Init => OInv
    BY TypeInit DEF Init, OInv, InOrderInHw, BusOrderKept
  <1>2. OInv => BusOrderKept
    BY DEF OInv
  <1> QED
    BY <1>1, <1>2, OInvStep, PTL DEF Spec

---------------------------------------------------------------------------
(* The refinement: the slots from pop_index up to push_index hold, in this *)
(* order, the frames stored and not returned, so that storing one puts it  *)
(* into the queue and returning one takes it out.                          *)

Held == [i \in 1..Len(log) - Len(got) |-> Whole(log[Len(got) + i])]

\* The distance of the wrapped indices is the number of frames held.
LEMMA BufferedFrames == CInv => Buffered = Len(log) - Len(got)
  <1> SUFFICES ASSUME CInv PROVE Buffered = Len(log) - Len(got)
    OBVIOUS
  <1> DEFINE m == Len(got)
             d == Len(log) - m
             p == m % N
  <1>1. m \in Nat /\ d \in Nat /\ d \in 0..N-1 /\ m + d = Len(log)
    BY Sizes DEF CInv, TypeOK, Indices
  <1>2. p \in 0..N-1
    BY <1>1, Sizes, Division
  <1>3. push_index = (p + d) % N /\ pop_index = p
    <2>1. ((m % N) + d) % N = (m + d) % N
      BY <1>1, Sizes, RemainderShift
    <2> QED
      BY <1>1, <2>1 DEF CInv, Indices
  <1>4. CASE p + d < N
    <2>1. p + d \in 0..N-1
      BY <1>1, <1>2, <1>4, Sizes
    <2>2. push_index = p + d
      BY <1>3, <2>1, Sizes, RemainderSmall
    <2>3. push_index + N - pop_index = N * 1 + d
      BY <1>1, <1>2, <1>3, <2>2, Sizes
    <2>4. (N * 1 + d) % N = d
      BY <1>1, Sizes, RemainderOf
    <2> QED
      BY <2>3, <2>4 DEF Buffered
  <1>5. CASE p + d >= N
    <2>1. p + d - N \in 0..N-1 /\ p + d = N * 1 + (p + d - N)
      BY <1>1, <1>2, <1>5, Sizes
    <2>2. push_index = p + d - N
      BY <1>3, <2>1, Sizes, RemainderOf
    <2>3. push_index + N - pop_index = d
      BY <1>1, <1>2, <1>3, <2>2, Sizes
    <2>4. d % N = d
      BY <1>1, Sizes, RemainderSmall
    <2> QED
      BY <2>3, <2>4 DEF Buffered
  <1> QED
    BY <1>1, <1>2, <1>4, <1>5, Sizes

LEMMA RingHolds == CInv => Ring = Held
  <1> SUFFICES ASSUME CInv PROVE Ring = Held
    OBVIOUS
  <1> DEFINE m == Len(got)
             d == Len(log) - m
  <1>1. m \in Nat /\ Len(log) \in Nat /\ Buffered = d
    BY BufferedFrames DEF CInv, TypeOK
  <1>2. ASSUME NEW i \in 1..d
        PROVE  buffer[(pop_index + i - 1) % N] = Whole(log[m + i])
    <2>1. i - 1 \in Nat /\ i \in Nat
      BY <1>1
    <2>2. ((m % N) + (i - 1)) % N = (m + (i - 1)) % N
      BY <1>1, <2>1, Sizes, RemainderShift
    <2>3. pop_index \in Nat /\ pop_index = m % N
      BY Sizes DEF CInv, TypeOK, Indices
    <2>4. pop_index + i - 1 = (m % N) + (i - 1) /\ m + (i - 1) = (m + i) - 1
      BY <1>1, <2>1, <2>3
    <2>5. (pop_index + i - 1) % N = Slot(m + i)
      BY <2>2, <2>4 DEF Slot
    <2>6. m + i \in m+1..Len(log)
      BY <1>1
    <2> QED
      BY <2>5, <2>6 DEF CInv, Stored
  <1> QED
    BY <1>1, <1>2 DEF Ring, Held

\* The frames held are at most as many as the queue may have.
RingIsQueue ==
  /\ Ring = Held /\ Held \in Seq(Frame)
  /\ Len(Held) = Len(log) - Len(got) /\ Len(Held) <= N - 1

LEMMA RingInvariant == CInv => RingIsQueue
  <1> SUFFICES ASSUME CInv PROVE RingIsQueue
    OBVIOUS
  <1> DEFINE m == Len(got)
             d == Len(log) - m
  <1>1. m \in Nat /\ Len(log) \in Nat /\ d \in Nat /\ d <= N - 1
    BY DEF CInv, TypeOK, Indices
  <1>2. ASSUME NEW i \in 1..d PROVE Whole(log[m + i]) \in Frame
    <2>1. m + i \in 1..Len(log)
      BY <1>1
    <2> QED
      BY <2>1, WholeType DEF CInv, TypeOK
  <1>3. Held \in [1..d -> Frame]
    BY <1>2 DEF Held
  <1>4. Held \in Seq(Frame)
    BY <1>1, <1>3, SeqDef
  <1>5. DOMAIN Held = 1..d
    BY <1>3
  <1>6. Len(Held) = d
    BY <1>1, <1>4, <1>5, LenProperties
  <1> QED
    BY <1>1, <1>4, <1>6, RingHolds DEF RingIsQueue

LEMMA QueueStep ==
    CInv /\ RingIsQueue /\ RingIsQueue' /\ [Next]_vars => [Q!QNext]_(Q!qvars)
  <1> SUFFICES ASSUME CInv, RingIsQueue, RingIsQueue', [Next]_vars
               PROVE  [Q!QNext]_(Q!qvars)
    OBVIOUS
  <1> DEFINE m == Len(got)
             n == Len(log)
  <1>t. TypeOK
    BY DEF CInv
  <1>l. m \in Nat /\ n \in Nat /\ m <= n
    BY <1>t DEF CInv, Indices, TypeOK
  <1>r. Ring = Held /\ Ring' = Held'
    BY DEF RingIsQueue
  <1>h. /\ Held \in Seq(Frame) /\ Len(Held) = n - m /\ Len(Held) <= N - 1
        /\ Held' \in Seq(Frame) /\ Len(Held') = Len(log') - Len(got')
        /\ Len(Held') <= N - 1
    BY DEF RingIsQueue
  <1>e. /\ \A i \in 1..n-m : Held[i] = Whole(log[m + i])
        /\ \A i \in 1..Len(log')-Len(got') :
             Held'[i] = Whole(log'[Len(got') + i])
    BY DEF Held, Whole
  <1>1. CASE Isr
    <2> DEFINE f == Whole(Head(hw))
    <2>1. /\ hw # <<>> /\ got' = got /\ log' = Append(log, Head(hw))
      BY <1>1 DEF Isr, can_frame_received
    <2>2. Head(hw) \in Number /\ f \in Frame
      BY <2>1, <1>t, WholeType DEF TypeOK
    <2>3. /\ Len(log') = n + 1 /\ log'[n + 1] = Head(hw)
          /\ \A k \in 1..n : log'[k] = log[k]
      BY <2>1, <2>2, <1>t DEF TypeOK
    <2>4. Len(Held) < N - 1
      BY <2>1, <2>3, <1>h, <1>l, Sizes
    <2>5. /\ Append(Held, f) \in Seq(Frame) /\ Len(Append(Held, f)) = n - m + 1
          /\ \A i \in 1..n-m : Append(Held, f)[i] = Held[i]
          /\ Append(Held, f)[n - m + 1] = f
      BY <2>2, <1>h, AppendProperties
    <2>6. ASSUME NEW i \in 1..Len(Held') PROVE Held'[i] = Append(Held, f)[i]
      <3>0. Len(Held') = n - m + 1 /\ Len(log') - Len(got') = n - m + 1
        BY <2>1, <2>3, <1>h, <1>l
      <3>1. i \in 1..n-m+1
        BY <3>0
      <3>4. Held'[i] = Whole(log'[m + i])
        BY <3>0, <3>1, <2>1, <1>e
      <3>2. CASE i = n - m + 1
        <4>1. m + i = n + 1
          BY <3>2, <1>l
        <4> QED
          BY <4>1, <3>4, <3>2, <2>3, <2>5
      <3>3. CASE i \in 1..n-m
        <4>1. m + i \in 1..n
          BY <3>3, <1>l
        <4> QED
          BY <4>1, <3>4, <3>3, <2>3, <2>5, <1>e
      <3>5. i = n - m + 1 \/ i \in 1..n-m
        BY <3>1, <1>l
      <3> QED
        BY <3>2, <3>3, <3>5
    <2>7. Held' = Append(Held, f)
      <3>1. Len(Held') = Len(Append(Held, f))
        BY <2>1, <2>3, <2>5, <1>h, <1>l
      <3> QED
        BY <3>1, <2>5, <2>6, <1>h, SeqEqual
    <2> QED
      BY <2>1, <2>2, <2>4, <2>7, <1>r DEF Q!QNext, Q!Put
  <1>2. CASE Drop
    <2>1. /\ log' = log /\ got' = Append(got, out) /\ m < n
          /\ out = Whole(log[m + 1])
      BY <1>2, <1>t DEF Drop, CInv, Reading, TypeOK, Frame, Whole
    <2>2. Len(got') = m + 1
      BY <2>1, <1>t DEF TypeOK
    <2>3. Held # <<>> /\ Head(Held) = out
      <3>1. Len(Held) > 0 /\ 1 \in 1..n-m
        BY <2>1, <1>h, <1>l
      <3>2. Held # <<>>
        BY <3>1, EmptySeq
      <3>3. Head(Held) = Held[1]
        BY <3>2, <1>h
      <3> QED
        BY <3>1, <3>2, <3>3, <2>1, <1>e
    <2>4. /\ Tail(Held) \in Seq(Frame) /\ Len(Tail(Held)) = n - m - 1
          /\ \A i \in 1..Len(Tail(Held)) : Tail(Held)[i] = Held[i + 1]
      BY <2>3, <1>h, HeadTailProperties
    <2>5. Held' = Tail(Held)
      <3>1. Len(Held') = Len(Tail(Held))
        BY <2>1, <2>2, <2>4, <1>h, <1>l
      <3>2. ASSUME NEW i \in 1..Len(Held') PROVE Held'[i] = Tail(Held)[i]
        <4>1. i + 1 \in 1..n-m /\ m + (i + 1) = (m + 1) + i
          BY <3>1, <2>4, <1>l
        <4>2. Held'[i] = Whole(log[(m + 1) + i])
          BY <2>1, <2>2, <1>e, <1>h
        <4>3. Tail(Held)[i] = Whole(log[m + (i + 1)])
          BY <4>1, <3>1, <2>4, <1>e
        <4> QED
          BY <4>1, <4>2, <4>3
      <3> QED
        BY <3>1, <3>2, <2>4, <1>h, SeqEqual
    <2> QED
      BY <2>1, <2>3, <2>5, <1>r DEF Q!QNext, Q!Take
  <1>3. CASE Arrive \/ Poll \/ CopyId \/ CopyDlc \/ CopyData \/ UNCHANGED vars
    <2>1. UNCHANGED <<log, got>>
      BY <1>3 DEF Arrive, Poll, CopyId, CopyDlc, CopyData, CopyField, vars
    <2>2. Held' = Held
      BY <2>1 DEF Held, Whole
    <2> QED
      BY <2>1, <2>2, <1>r DEF Q!qvars
  <1> QED
    BY <1>1, <1>2, <1>3 DEF Next, Main

\* The interrupt handler and the main loop together, preempting each other at
\* any field, are a bounded queue of whole frames (can_interface.c,
\* can_fifo.c), for every size of the ring buffer.
THEOREM Refinement == Spec => ImplementsQueue
  <1>1. Init => Q!QInit
    <2> SUFFICES ASSUME Init PROVE Q!QInit
      OBVIOUS
    <2>1. CInv
      BY CInvInit
    <2>2. Len(Held) = 0 /\ Held \in Seq(Frame)
      <3>1. Len(log) - Len(got) = 0
        BY DEF Init
      <3> QED
        BY <2>1, <3>1, RingInvariant DEF RingIsQueue
    <2>3. Held = <<>>
      BY <2>2, EmptySeq
    <2> QED
      BY <2>1, <2>3, RingHolds DEF Init, Q!QInit
  <1> QED
    BY <1>1, QueueStep, RingInvariant, CInvCorrect, PTL DEF Spec, ImplementsQueue, Q!QSpec
=============================================================================
