--------------------------- MODULE FlashToolProofs ---------------------------
(***************************************************************************)
(* Proved for any number of boards and pages, and whatever is lost,        *)
(* damaged, late or broken: FlashTool is type correct; when                *)
(* bootloader_flash reports success all boards hold the image; and what    *)
(* the tools may conclude of the configuration of the boards, although     *)
(* they count answers without looking at what they are answers to.         *)
(***************************************************************************)
EXTENDS FlashTool, FiniteSetTheorems, TLAPS

\* Nothing that waits in the board would change its flash memory.
Settled(b) ==
  /\ Holds(b)
  /\ \A i \in 1..Len(inbox[b]) : inbox[b][i].op \notin {"erase", "write"}

\* A board deals with its datagrams in order, and the verification comes last.
VerifyLast ==
  \A b \in Boards : \A i, j \in 1..Len(inbox[b]) :
    (i < j /\ inbox[b][i].op = "verify") => inbox[b][j].op \notin {"erase", "write"}

\* Before the verification begins there is nothing of it on the bus.
NotYetVerified ==
  stage \notin {"verify", "run", "over"} =>
    /\ \A b \in Boards : \A i \in 1..Len(inbox[b]) : inbox[b][i].op # "verify"
    /\ \A i \in 1..Len(rx) : rx[i].answer.code # "crc_image"
    /\ valid_nodes = {}

\* The checksum of the image was sent by a board that holds it and will keep it.
ChecksumTrue ==
  job.tool = "flash" =>
    /\ \A i \in 1..Len(rx) :
         rx[i].answer.code = "crc_image" => rx[i].src \in Boards /\ Settled(rx[i].src)
    /\ \A s \in valid_nodes : s \in Boards /\ Settled(s)
    /\ (stage = "run" \/ outcome = "done") => \A b \in Targets : Settled(b)

IInv == TypeOK /\ VerifyLast /\ NotYetVerified /\ ChecksumTrue

\* TypeOK in three parts.
ClientOK ==
  /\ job \in Jobs /\ stage \in Stages /\ page \in 0..Pages
  /\ stage \in {"erase", "write"} <=> page > 0
  /\ waiting \in BOOLEAN
  /\ DOMAIN answers \subseteq Boards \cup {NewId}
  /\ \A s \in DOMAIN answers : answers[s] \in Answer
  /\ retry_count \in Nat /\ boards_checked \in Nat
  /\ valid_nodes \subseteq Boards \cup {NewId}
  /\ outcome \in {"none", "done", "aborted", "offline", "not_verified", "crashed"}
  /\ stage = "over" <=> outcome # "none"
  /\ unheeded \in BOOLEAN

BusOK ==
  /\ rx \in Seq(Reply)
  /\ inbox \in [Boards -> Seq(Command)]
  /\ faults \in 0..MaxFaults

MemoryOK ==
  /\ class \in [Boards -> BOOLEAN]
  /\ flash \in [Boards -> [PageNumbers -> {"old", "blank", "image", "bad"}]]
  /\ ram \in [Boards -> {"old", "new"}] /\ saved \in [Boards -> {"old", "new"}]
  /\ running \in [Boards -> BOOLEAN]
  /\ lapsed \subseteq Boards

LEMMA TypeParts == TypeOK <=> ClientOK /\ BusOK /\ MemoryOK
BY DEF TypeOK, ClientOK, BusOK, MemoryOK

LEMMA TypePartsNext == ClientOK' /\ BusOK' /\ MemoryOK' => TypeOK'
BY DEF TypeOK, ClientOK, BusOK, MemoryOK

LEMMA MemoryKept == ASSUME MemoryOK, UNCHANGED memory PROVE MemoryOK'
BY DEF MemoryOK, memory

---------------------------------------------------------------------------
(* Sending *)

LEMMA Costs ==
  ASSUME faults \in 0..MaxFaults, NEW n \in Nat, Cost(n)
  PROVE  faults' \in 0..MaxFaults
BY FlashToolAssumption DEF Cost

LEMMA LateNat == Late \in Nat
BY DEF Late

LEMMA LossesNat == ASSUME NEW S PROVE Cardinality(Boards \ S) \in Nat
BY FlashToolAssumption, FS_Difference, FS_CardinalityType

LEMMA TargetsAreIds ==
  ASSUME TypeOK
  PROVE  /\ Targets \subseteq Boards
         /\ ToSet(destinations) \subseteq Boards \cup {NewId}
<1>1. job.ids \in Seq(Boards)
  BY FlashToolAssumption DEF TypeOK
<1> QED BY <1>1 DEF Targets, destinations, ToSet

\* What a datagram that is sent adds to what waits in the boards.
Sent(b, to) ==
  \/ inbox'[b] = inbox[b]
  \/ \E c \in Command :
       c.op \in {stage, "damaged"} /\ c.to \subseteq to /\ inbox'[b] = Append(inbox[b], c)

LEMMA Delivery ==
  ASSUME TypeOK, stage # "over", NEW to \in SUBSET (Boards \cup {NewId}), write_command(to)
  PROVE  /\ inbox' \in [Boards -> Seq(Command)]
         /\ faults' \in 0..MaxFaults
         /\ \A b \in Boards : Sent(b, to)
<1> DEFINE command == [op |-> stage, page |-> page, to |-> to]
           damaged == [op |-> "damaged", page |-> 0, to |-> {}]
<1>1. command \in Command /\ damaged \in Command
  BY FlashToolAssumption DEF TypeOK, Command, Stages, CommandStages
<1>2. PICK arrives \in SUBSET Boards, garbled \in SUBSET Boards :
        /\ inbox' = [b \in Boards |->
                       CASE b \in arrives -> Append(inbox[b], command)
                         [] b \in garbled -> Append(inbox[b], damaged)
                         [] OTHER -> inbox[b]]
        /\ Cost(Late + Cardinality(Boards \ arrives))
  BY DEF write_command
<1>3. ASSUME NEW b \in Boards PROVE inbox'[b] \in Seq(Command) /\ Sent(b, to)
  <2> DEFINE mine == CASE b \in arrives -> Append(inbox[b], command)
                       [] b \in garbled -> Append(inbox[b], damaged)
                       [] OTHER -> inbox[b]
  <2>1. inbox'[b] = mine /\ inbox[b] \in Seq(Command)
    BY <1>2 DEF TypeOK
  <2>2. \/ mine = inbox[b]
        \/ mine = Append(inbox[b], command)
        \/ mine = Append(inbox[b], damaged)
    OBVIOUS
  <2>3. /\ command.op = stage /\ command.to \subseteq to
        /\ damaged.op = "damaged" /\ damaged.to \subseteq to
    OBVIOUS
  <2> HIDE DEF command, damaged, mine
  <2>4. ASSUME NEW c \in {command, damaged}, inbox'[b] = Append(inbox[b], c)
        PROVE  inbox'[b] \in Seq(Command) /\ Sent(b, to)
    <3>1. c \in Command /\ c.op \in {stage, "damaged"} /\ c.to \subseteq to
      BY <1>1, <2>3
    <3> QED BY <2>1, <2>4, <3>1 DEF Sent
  <2>5. CASE inbox'[b] = inbox[b]
    BY <2>1, <2>5 DEF Sent
  <2> QED BY <2>1, <2>2, <2>4, <2>5
<1>4. inbox' = [b \in Boards |-> inbox'[b]]
  BY <1>2
<1>5. inbox' \in [Boards -> Seq(Command)]
  BY <1>3, <1>4
<1>6. faults' \in 0..MaxFaults
  <2>1. faults \in 0..MaxFaults
    BY DEF TypeOK
  <2>2. Late + Cardinality(Boards \ arrives) \in Nat
    <3>1. Cardinality(Boards \ arrives) \in Nat
      BY LossesNat
    <3> QED BY <3>1, LateNat
  <2> QED BY <1>2, <2>1, <2>2, Costs
<1> QED BY <1>3, <1>5, <1>6

\* The waiting datagrams stay in order, and what is settled stays so, unless the
\* stage is one that changes the flash memory.
LEMMA DeliveryOrder ==
  ASSUME IInv, stage # "over", NEW to \in SUBSET (Boards \cup {NewId}), write_command(to),
         flash' = flash
  PROVE  /\ VerifyLast'
         /\ stage \notin {"verify", "run"} =>
              \A b \in Boards : \A i \in 1..Len(inbox'[b]) : inbox'[b][i].op # "verify"
         /\ stage \in {"verify", "run"} => \A b \in Boards : Settled(b) => Settled(b)'
<1>1. \A b \in Boards : Sent(b, to) /\ inbox[b] \in Seq(Command)
  BY Delivery DEF IInv, TypeOK
<1>2. VerifyLast'
  <2> SUFFICES ASSUME NEW b \in Boards, NEW i \in 1..Len(inbox'[b]),
                      NEW j \in 1..Len(inbox'[b]), i < j, inbox'[b][i].op = "verify"
               PROVE  inbox'[b][j].op \notin {"erase", "write"}
    BY DEF VerifyLast
  <2>1. CASE inbox'[b] = inbox[b]
    BY <2>1 DEF IInv, VerifyLast
  <2>2. ASSUME NEW c \in Command, c.op \in {stage, "damaged"}, inbox'[b] = Append(inbox[b], c)
        PROVE  inbox'[b][j].op \notin {"erase", "write"}
    <3>1. i \in 1..Len(inbox[b]) /\ inbox[b][i].op = "verify"
      BY <1>1, <2>2
    <3>2. stage \in {"verify", "run"}
      BY <3>1 DEF IInv, NotYetVerified
    <3>3. CASE j \in 1..Len(inbox[b])
      BY <1>1, <2>2, <3>1, <3>3 DEF IInv, VerifyLast
    <3>4. CASE j = Len(inbox[b]) + 1
      BY <1>1, <2>2, <3>2, <3>4
    <3> QED BY <1>1, <2>2, <3>3, <3>4
  <2> QED BY <1>1, <2>1, <2>2 DEF Sent
<1>3. ASSUME stage \notin {"verify", "run"}, NEW b \in Boards, NEW i \in 1..Len(inbox'[b])
      PROVE  inbox'[b][i].op # "verify"
  <2>1. \A k \in 1..Len(inbox[b]) : inbox[b][k].op # "verify"
    BY <1>3 DEF IInv, NotYetVerified
  <2>2. CASE inbox'[b] = inbox[b]
    BY <2>1, <2>2
  <2>3. ASSUME NEW c \in Command, c.op \in {stage, "damaged"}, inbox'[b] = Append(inbox[b], c)
        PROVE  inbox'[b][i].op # "verify"
    BY <1>1, <1>3, <2>1, <2>3
  <2> QED BY <1>1, <2>2, <2>3 DEF Sent
<1>4. ASSUME stage \in {"verify", "run"}, NEW b \in Boards, Settled(b)
      PROVE  Settled(b)'
  <2>1. Holds(b)'
    BY <1>4 DEF Settled, Holds
  <2>2. \A k \in 1..Len(inbox[b]) : inbox[b][k].op \notin {"erase", "write"}
    BY <1>4 DEF Settled
  <2>3. ASSUME NEW i \in 1..Len(inbox'[b]) PROVE inbox'[b][i].op \notin {"erase", "write"}
    <3>1. CASE inbox'[b] = inbox[b]
      BY <2>2, <3>1
    <3>2. ASSUME NEW c \in Command, c.op \in {stage, "damaged"}, inbox'[b] = Append(inbox[b], c)
          PROVE  inbox'[b][i].op \notin {"erase", "write"}
      BY <1>1, <1>4, <2>2, <3>2
    <3> QED BY <1>1, <3>1, <3>2 DEF Sent
  <2> QED BY <2>1, <2>3 DEF Settled
<1> QED BY <1>2, <1>3, <1>4

---------------------------------------------------------------------------
(* The tool goes on to another command, or ends *)

LEMMA NoAnswersOK == DOMAIN NoAnswers = {}
BY DEF NoAnswers

LEMMA EndOK ==
  ASSUME ClientOK, UNCHANGED job, unheeded' \in BOOLEAN, End(outcome'), outcome' # "none",
         outcome' \in {"none", "done", "aborted", "offline", "not_verified", "crashed"}
  PROVE  ClientOK'
<1>1. /\ DOMAIN answers' \subseteq Boards \cup {NewId}
      /\ \A s \in DOMAIN answers' : answers'[s] \in Answer
  BY NoAnswersOK DEF End
<1>2. /\ stage' \in Stages /\ page' \in 0..Pages
      /\ (stage' \in {"erase", "write"} <=> page' > 0)
      /\ (stage' = "over" <=> outcome' # "none")
  BY FlashToolAssumption DEF End, Stages
<1> QED BY <1>1, <1>2 DEF ClientOK, End

LEMMA BeginOK ==
  ASSUME ClientOK, stage # "over", NEW s \in Stages \ {"over"}, NEW p \in 0..Pages,
         s \in {"erase", "write"} <=> p > 0, Begin(s, p), UNCHANGED job, unheeded' \in BOOLEAN
  PROVE  ClientOK'
<1>1. /\ DOMAIN answers' \subseteq Boards \cup {NewId}
      /\ \A a \in DOMAIN answers' : answers'[a] \in Answer
  BY NoAnswersOK DEF Begin
<1>2. /\ stage' \in Stages /\ page' \in 0..Pages
      /\ (stage' \in {"erase", "write"} <=> page' > 0)
      /\ (stage' = "over" <=> outcome' # "none")
  BY DEF Begin, ClientOK
<1> QED BY <1>1, <1>2 DEF ClientOK, Begin

\* What a step of the tool has to respect that neither sends nor invents a reply.
LEMMA ToolKeeps ==
  ASSUME IInv, UNCHANGED <<job, inbox, flash>>,
         \A i \in 1..Len(rx') : \E j \in 1..Len(rx) : rx'[i] = rx[j],
         stage' \notin {"verify", "run", "over"} =>
           stage \notin {"verify", "run", "over"} /\ valid_nodes' = {},
         job.tool = "flash" =>
           /\ \A s \in valid_nodes' : s \in Boards /\ Settled(s)
           /\ (stage' = "run" \/ outcome' = "done") => \A b \in Targets : Settled(b)
  PROVE  VerifyLast' /\ NotYetVerified' /\ ChecksumTrue'
<1>1. VerifyLast'
  BY DEF IInv, VerifyLast
<1>2. NotYetVerified'
  BY DEF IInv, NotYetVerified
<1>3. \A b : Settled(b)' <=> Settled(b)
  BY DEF Settled, Holds
<1>4. ChecksumTrue'
  <2> SUFFICES ASSUME job.tool = "flash" PROVE ChecksumTrue'
    BY DEF ChecksumTrue
  <2>1. \A i \in 1..Len(rx') :
          rx'[i].answer.code = "crc_image" => rx'[i].src \in Boards /\ Settled(rx'[i].src)
    BY DEF IInv, ChecksumTrue
  <2>2. Targets' = Targets
    BY DEF Targets
  <2> QED BY <1>3, <2>1, <2>2 DEF ChecksumTrue
<1> QED BY <1>1, <1>2, <1>4

LEMMA Dequeued ==
  ASSUME rx \in Seq(Reply), rx # <<>>, rx' = Tail(rx)
  PROVE  /\ rx' \in Seq(Reply) /\ Head(rx) \in Reply /\ Head(rx) = rx[1] /\ 1 \in 1..Len(rx)
         /\ \A i \in 1..Len(rx') : \E j \in 1..Len(rx) : rx'[i] = rx[j]
<1>1. \A i \in 1..Len(rx') : i + 1 \in 1..Len(rx) /\ rx'[i] = rx[i + 1]
  OBVIOUS
<1> QED BY <1>1

LEMMA PingStep ==
  ASSUME IInv, Ping
  PROVE  IInv'
<1> Targets \in SUBSET (Boards \cup {NewId})
  BY TargetsAreIds DEF IInv, timedout_boards
<1>1. stage # "over" /\ write_command(Targets) /\ flash' = flash /\ job' = job
  BY DEF Ping, memory, CommandStages
<1>2. BusOK'
  <2>1. rx' \in Seq(Reply)
    BY DEF Ping, Cleared, IInv, TypeOK
  <2> QED BY <1>1, <2>1, Delivery DEF BusOK, IInv
<1>3. ClientOK'
  BY TypeParts DEF Ping, IInv, ClientOK
<1>4. MemoryOK'
  BY MemoryKept, TypeParts DEF Ping, IInv
<1>5. \A i \in 1..Len(rx') : i \in 1..Len(rx) /\ rx'[i] = rx[i]
  BY DEF Ping, Cleared, IInv, TypeOK
<1>6. NotYetVerified'
  BY <1>1, <1>5, DeliveryOrder DEF Ping, IInv, NotYetVerified, CommandStages, End
<1>7. ChecksumTrue'
  <2> SUFFICES ASSUME job.tool = "flash" PROVE ChecksumTrue'
    BY <1>1 DEF ChecksumTrue
  <2>1. stage' # "run" /\ outcome' # "done" /\ valid_nodes' = {}
    BY DEF Ping, IInv, TypeOK, NotYetVerified, CommandStages
  <2>2. \A i \in 1..Len(rx') : rx'[i].answer.code # "crc_image"
    BY <1>5 DEF Ping, IInv, NotYetVerified, CommandStages
  <2> QED BY <2>1, <2>2 DEF ChecksumTrue
<1> QED BY <1>1, <1>2, <1>3, <1>4, <1>6, <1>7, TypePartsNext, DeliveryOrder DEF IInv

LEMMA SendStep ==
  ASSUME IInv, Send
  PROVE  IInv'
<1> ToSet(destinations) \in SUBSET (Boards \cup {NewId})
  BY TargetsAreIds DEF IInv, timedout_boards
<1>1. stage # "over" /\ write_command(ToSet(destinations)) /\ flash' = flash /\ job' = job
  BY DEF Send, memory, CommandStages
<1>2. BusOK'
  <2>1. rx' \in Seq(Reply)
    BY DEF Send, Cleared, IInv, TypeOK
  <2> QED BY <1>1, <2>1, Delivery DEF BusOK, IInv
<1>3. ClientOK'
  BY TypeParts DEF Send, IInv, ClientOK
<1>4. MemoryOK'
  BY MemoryKept, TypeParts DEF Send, IInv
<1>5. \A i \in 1..Len(rx') : i \in 1..Len(rx) /\ rx'[i] = rx[i]
  BY DEF Send, Cleared, IInv, TypeOK
<1>6. NotYetVerified'
  BY <1>1, <1>5, DeliveryOrder DEF Send, IInv, NotYetVerified, CommandStages, End
<1>7. ChecksumTrue'
  <2> SUFFICES ASSUME job.tool = "flash" PROVE ChecksumTrue'
    BY <1>1 DEF ChecksumTrue
  <2>1. stage' # "run" /\ outcome' # "done" /\ valid_nodes' = {}
    BY DEF Send, IInv, TypeOK, NotYetVerified, CommandStages
  <2>2. \A i \in 1..Len(rx') : rx'[i].answer.code # "crc_image"
    BY <1>5 DEF Send, IInv, NotYetVerified, CommandStages
  <2> QED BY <2>1, <2>2 DEF ChecksumTrue
<1> QED BY <1>1, <1>2, <1>3, <1>4, <1>6, <1>7, TypePartsNext, DeliveryOrder DEF IInv

LEMMA RetryStep ==
  ASSUME IInv, Retry
  PROVE  IInv'
<1> timedout_boards \in SUBSET (Boards \cup {NewId})
  BY TargetsAreIds DEF IInv, timedout_boards
<1>1. stage # "over" /\ write_command(timedout_boards) /\ flash' = flash /\ job' = job
  BY DEF Retry, TimedOut, memory, CommandStages
<1>2. BusOK'
  <2>1. rx' \in Seq(Reply)
    BY DEF Retry, TimedOut, Cleared, IInv, TypeOK
  <2> QED BY <1>1, <2>1, Delivery DEF BusOK, IInv
<1>3. ClientOK'
  BY TypeParts DEF Retry, TimedOut, IInv, ClientOK
<1>4. MemoryOK'
  BY MemoryKept, TypeParts DEF Retry, TimedOut, IInv
<1>5. \A i \in 1..Len(rx') : i \in 1..Len(rx) /\ rx'[i] = rx[i]
  BY DEF Retry, TimedOut, Cleared, IInv, TypeOK
<1>6. NotYetVerified'
  BY <1>1, <1>5, DeliveryOrder DEF Retry, TimedOut, IInv, NotYetVerified, CommandStages, End
<1>7. ChecksumTrue'
  <2> SUFFICES ASSUME job.tool = "flash" PROVE ChecksumTrue'
    BY <1>1 DEF ChecksumTrue
  <2>1. stage' # "run" /\ outcome' # "done" /\ valid_nodes' = {}
    BY DEF Retry, TimedOut, IInv, TypeOK, NotYetVerified, CommandStages
  <2>2. \A i \in 1..Len(rx') : rx'[i].answer.code # "crc_image"
    BY <1>5 DEF Retry, TimedOut, IInv, NotYetVerified, CommandStages
  <2> QED BY <2>1, <2>2 DEF ChecksumTrue
<1> QED BY <1>1, <1>2, <1>3, <1>4, <1>6, <1>7, TypePartsNext, DeliveryOrder DEF IInv

LEMMA VerifyStep ==
  ASSUME IInv, Verify
  PROVE  IInv'
<1> Targets \in SUBSET (Boards \cup {NewId})
  BY TargetsAreIds DEF IInv, timedout_boards
<1>1. stage # "over" /\ write_command(Targets) /\ flash' = flash /\ job' = job
  BY DEF Verify, memory, CommandStages
<1>2. BusOK'
  <2>1. rx' \in Seq(Reply)
    BY DEF Verify, Cleared, IInv, TypeOK
  <2> QED BY <1>1, <2>1, Delivery DEF BusOK, IInv
<1>3. ClientOK'
  BY TypeParts DEF Verify, IInv, ClientOK
<1>4. MemoryOK'
  BY MemoryKept, TypeParts DEF Verify, IInv
<1>5. \A i \in 1..Len(rx') : i \in 1..Len(rx) /\ rx'[i] = rx[i]
  BY DEF Verify, Cleared, IInv, TypeOK
<1>6. NotYetVerified'
  BY <1>1, <1>5, DeliveryOrder DEF Verify, IInv, NotYetVerified, CommandStages, End
<1>7. ChecksumTrue'
  <2> SUFFICES ASSUME job.tool = "flash" PROVE ChecksumTrue'
    BY <1>1 DEF ChecksumTrue
  <2>1. \A b \in Boards : Settled(b) => Settled(b)'
    BY <1>1, DeliveryOrder DEF Verify
  <2>2. Targets' = Targets /\ Targets \subseteq Boards
    BY <1>1, TargetsAreIds DEF Targets, IInv
  <2>3. \A s \in valid_nodes' : s \in Boards /\ Settled(s)
    BY DEF Verify, End, IInv, ChecksumTrue
  <2>4. (stage' = "run" \/ outcome' = "done") => \A b \in Targets : Settled(b)
    BY DEF Verify, End, IInv, ChecksumTrue
  <2> QED BY <1>5, <2>1, <2>2, <2>3, <2>4 DEF ChecksumTrue, IInv
<1> QED BY <1>1, <1>2, <1>3, <1>4, <1>6, <1>7, TypePartsNext, DeliveryOrder DEF IInv

LEMMA RunStep ==
  ASSUME IInv, Run
  PROVE  IInv'
<1> Targets \in SUBSET (Boards \cup {NewId})
  BY TargetsAreIds DEF IInv, timedout_boards
<1>1. stage # "over" /\ write_command(Targets) /\ flash' = flash /\ job' = job
  BY DEF Run, memory, CommandStages
<1>2. BusOK'
  <2>1. rx' \in Seq(Reply)
    BY DEF Run, Cleared, IInv, TypeOK
  <2> QED BY <1>1, <2>1, Delivery DEF BusOK, IInv
<1>3. ClientOK'
  <2>1. outcome' = "done" /\ End(outcome') /\ unheeded' = unheeded
    BY DEF Run, End
  <2> QED BY <1>1, <2>1, EndOK, TypeParts DEF IInv, ClientOK
<1>4. MemoryOK'
  BY MemoryKept, TypeParts DEF Run, IInv
<1>5. \A i \in 1..Len(rx') : i \in 1..Len(rx) /\ rx'[i] = rx[i]
  BY DEF Run, Cleared, IInv, TypeOK
<1>6. NotYetVerified'
  BY <1>1, <1>5, DeliveryOrder DEF Run, IInv, NotYetVerified, CommandStages, End
<1>7. ChecksumTrue'
  <2> SUFFICES ASSUME job.tool = "flash" PROVE ChecksumTrue'
    BY <1>1 DEF ChecksumTrue
  <2>1. \A b \in Boards : Settled(b) => Settled(b)'
    BY <1>1, DeliveryOrder DEF Run
  <2>2. Targets' = Targets /\ Targets \subseteq Boards
    BY <1>1, TargetsAreIds DEF Targets, IInv
  <2>3. \A s \in valid_nodes' : s \in Boards /\ Settled(s)
    BY DEF Run, End, IInv, ChecksumTrue
  <2>4. (stage' = "run" \/ outcome' = "done") => \A b \in Targets : Settled(b)
    BY DEF Run, End, IInv, ChecksumTrue
  <2> QED BY <1>5, <2>1, <2>2, <2>3, <2>4 DEF ChecksumTrue, IInv
<1> QED BY <1>1, <1>2, <1>3, <1>4, <1>6, <1>7, TypePartsNext, DeliveryOrder DEF IInv

---------------------------------------------------------------------------
(* The other steps of the tool *)

LEMMA RememberOK ==
  ASSUME ClientOK, NEW reply \in Reply
  PROVE  /\ DOMAIN Remember(reply) \subseteq Boards \cup {NewId}
         /\ \A s \in DOMAIN Remember(reply) : Remember(reply)[s] \in Answer
BY DEF ClientOK, Remember, Reply

\* Both ends of a round of pings.
LEMMA EnumeratedOK ==
  ASSUME IInv, stage = "ping", NEW replies, Enumerated(replies),
         DOMAIN replies \subseteq Boards \cup {NewId},
         \A s \in DOMAIN replies : replies[s] \in Answer,
         UNCHANGED <<job, unheeded, inbox, memory>>,
         rx' \in Seq(Reply), faults' \in 0..MaxFaults,
         \A i \in 1..Len(rx') : \E j \in 1..Len(rx) : rx'[i] = rx[j]
  PROVE  IInv'
<1> USE TypeParts
<1>1. ClientOK'
  <2>1. CASE Begin("erase", 1)
    <3>1. 1 \in 0..Pages
      BY FlashToolAssumption
    <3> QED BY <2>1, <3>1, BeginOK DEF IInv, ClientOK, Stages, CommandStages
  <2>2. CASE End("offline")
    BY <2>2, EndOK DEF IInv, ClientOK, End
  <2>3. CASE waiting' = FALSE /\ answers' = replies
             /\ UNCHANGED <<stage, page, retry_count, boards_checked, valid_nodes, outcome>>
    BY <2>3 DEF IInv, ClientOK
  <2> QED BY <2>1, <2>2, <2>3 DEF Enumerated
<1>2. stage' \in {"ping", "erase", "over"} /\ outcome' # "done" /\ valid_nodes' = {}
  BY DEF Enumerated, Begin, End, IInv, NotYetVerified, TypeOK
<1>3. BusOK' /\ MemoryOK'
  BY MemoryKept DEF IInv, BusOK
<1>4. VerifyLast' /\ NotYetVerified' /\ ChecksumTrue'
  BY <1>2, ToolKeeps DEF memory
<1> QED BY <1>1, <1>3, <1>4, TypePartsNext DEF IInv

LEMMA PingAnsweredStep ==
  ASSUME IInv, PingAnswered
  PROVE  IInv'
<1>1. rx \in Seq(Reply) /\ ClientOK /\ faults' \in 0..MaxFaults
  BY TypeParts DEF IInv, BusOK, PingAnswered
<1>2. /\ rx' \in Seq(Reply) /\ Head(rx) \in Reply
      /\ \A i \in 1..Len(rx') : \E j \in 1..Len(rx) : rx'[i] = rx[j]
  BY <1>1, Dequeued DEF PingAnswered
<1> QED BY <1>1, <1>2, RememberOK, EnumeratedOK DEF PingAnswered

LEMMA PingTimedOutStep ==
  ASSUME IInv, PingTimedOut
  PROVE  IInv'
<1>1. rx' = rx /\ rx \in Seq(Reply) /\ ClientOK /\ faults \in 0..MaxFaults
  BY TypeParts DEF IInv, BusOK, PingTimedOut
<1>2. faults' \in 0..MaxFaults
  BY <1>1, LateNat, Costs DEF PingTimedOut
<1>3. \A i \in 1..Len(rx') : \E j \in 1..Len(rx) : rx'[i] = rx[j]
  BY <1>1
<1> QED BY <1>1, <1>2, <1>3, EnumeratedOK DEF PingTimedOut, ClientOK

LEMMA ReceiveStep ==
  ASSUME IInv, Receive
  PROVE  IInv'
<1>1. rx \in Seq(Reply) /\ ClientOK
  BY TypeParts DEF IInv, BusOK
<1>2. /\ rx' \in Seq(Reply) /\ Head(rx) \in Reply
      /\ \A i \in 1..Len(rx') : \E j \in 1..Len(rx) : rx'[i] = rx[j]
  BY <1>1, Dequeued DEF Receive
<1>3. ClientOK'
  BY <1>1, <1>2, RememberOK DEF Receive, ClientOK
<1>4. BusOK' /\ MemoryOK'
  BY <1>2, TypeParts, MemoryKept DEF IInv, BusOK, Receive
<1>5. VerifyLast' /\ NotYetVerified' /\ ChecksumTrue'
  <2>1. /\ UNCHANGED <<job, inbox, flash, stage, outcome, valid_nodes>>
        /\ stage \in CommandStages
    BY DEF Receive, memory
  <2>2. valid_nodes = {} /\ stage' # "run" /\ outcome' # "done"
    BY <2>1 DEF IInv, NotYetVerified, TypeOK, CommandStages
  <2> QED BY <1>2, <2>1, <2>2, ToolKeeps DEF CommandStages
<1> QED BY <1>3, <1>4, <1>5, TypePartsNext DEF IInv

\* The end of a command: the tool advances, repeats it, or ends.
LEMMA AdvanceOK ==
  ASSUME ClientOK, stage \in CommandStages, UNCHANGED job, unheeded' \in BOOLEAN,
         Advance \/ Begin(stage, page)
  PROVE  /\ ClientOK'
         /\ stage' \in CommandStages \cup {"verify", "over"} /\ valid_nodes' \subseteq valid_nodes
         /\ outcome' = "done" => job.tool # "flash"
<1>1. stage # "over" /\ outcome = "none" /\ 1 \in 0..Pages /\ page \in 0..Pages
  BY FlashToolAssumption DEF CommandStages, ClientOK
<1> DEFINE Fine ==
      /\ ClientOK'
      /\ stage' \in CommandStages \cup {"verify", "over"} /\ valid_nodes' \subseteq valid_nodes
      /\ outcome' = "done" => job.tool # "flash"
<1>2. ASSUME NEW s \in CommandStages \cup {"verify"}, NEW p \in 0..Pages,
             s \in {"erase", "write"} <=> p > 0, Begin(s, p)
      PROVE  Fine
  <2>1. ClientOK'
    <3>1. s \in Stages \ {"over"}
      BY DEF Stages, CommandStages
    <3> QED BY <1>1, <1>2, <3>1, BeginOK
  <2>2. stage' = s /\ valid_nodes' = valid_nodes /\ outcome' = "none"
    BY <1>1, <1>2 DEF Begin
  <2> QED BY <2>1, <2>2
<1>3. ASSUME page < Pages PROVE page + 1 \in 0..Pages /\ page + 1 > 0
  BY <1>1, <1>3, FlashToolAssumption
<1>4. CASE \E s \in {"erase", "write"} : page < Pages /\ Begin(s, page + 1)
  BY <1>2, <1>3, <1>4 DEF CommandStages
<1>5. CASE Begin("write", 1)
  BY <1>1, <1>2, <1>5 DEF CommandStages
<1>6. CASE \E s \in {"update", "save", "verify"} : Begin(s, 0)
  BY <1>1, <1>2, <1>6, FlashToolAssumption DEF CommandStages
<1>7. CASE job.tool # "flash" /\ End("done")
  <2>1. outcome' = "done" /\ stage' = "over" /\ valid_nodes' = {}
    BY <1>7 DEF End
  <2> QED BY <1>7, <2>1, EndOK
<1>8. CASE Begin(stage, page)
  BY <1>1, <1>2, <1>8 DEF ClientOK
<1> QED BY <1>4, <1>5, <1>6, <1>7, <1>8 DEF Advance

LEMMA CommandDoneOK ==
  ASSUME IInv, stage \in CommandStages, UNCHANGED <<job, rx, inbox, memory>>,
         unheeded' \in BOOLEAN, faults' \in 0..MaxFaults,
         \/ Advance
         \/ Begin(stage, page)
         \/ End("crashed")
         \/ End("aborted")
  PROVE  IInv'
<1>1. ClientOK /\ BusOK /\ MemoryOK
  BY TypeParts DEF IInv
<1>2. valid_nodes = {} /\ stage \notin {"verify", "run", "over"}
  BY DEF IInv, NotYetVerified, CommandStages
<1>3. ClientOK'
  <2>1. CASE Advance \/ Begin(stage, page)
    BY <1>1, <1>2, <2>1, AdvanceOK DEF CommandStages
  <2>2. CASE End("crashed") \/ End("aborted")
    BY <1>1, <2>2, EndOK DEF End
  <2> QED BY <2>1, <2>2
<1>4. BusOK' /\ MemoryOK'
  BY <1>1, MemoryKept DEF BusOK
<1>5. stage' # "run" /\ valid_nodes' = {} /\ (outcome' = "done" => job.tool # "flash")
  <2>1. CASE Advance \/ Begin(stage, page)
    BY <1>1, <1>2, <2>1, AdvanceOK DEF CommandStages
  <2>2. CASE End("crashed") \/ End("aborted")
    BY <2>2 DEF End
  <2> QED BY <2>1, <2>2
<1>6. \A i \in 1..Len(rx') : \E j \in 1..Len(rx) : rx'[i] = rx[j]
  OBVIOUS
<1>7. VerifyLast' /\ NotYetVerified' /\ ChecksumTrue'
  BY <1>2, <1>5, <1>6, ToolKeeps DEF memory
<1> QED BY <1>3, <1>4, <1>7, TypePartsNext DEF IInv

LEMMA FlashCommandDoneStep ==
  ASSUME IInv, FlashCommandDone
  PROVE  IInv'
<1>1. faults \in 0..MaxFaults /\ unheeded \in BOOLEAN
  BY DEF IInv, TypeOK
<1>2. faults' \in 0..MaxFaults
  BY <1>1, LateNat, Costs DEF FlashCommandDone
<1>3. unheeded' \in BOOLEAN
  BY <1>1 DEF FlashCommandDone, Evaluate, Left
<1> QED BY <1>2, <1>3, CommandDoneOK DEF FlashCommandDone, Evaluate, CommandStages

LEMMA ConfigCommandDoneStep ==
  ASSUME IInv, ConfigCommandDone
  PROVE  IInv'
<1>1. faults \in 0..MaxFaults /\ unheeded \in BOOLEAN
  BY DEF IInv, TypeOK
<1>2. faults' \in 0..MaxFaults
  BY <1>1, LateNat, Costs DEF ConfigCommandDone
<1>3. unheeded' \in BOOLEAN
  BY <1>1 DEF ConfigCommandDone, Left
<1> QED BY <1>2, <1>3, CommandDoneOK DEF ConfigCommandDone, CommandStages

LEMMA CheckReplyStep ==
  ASSUME IInv, CheckReply
  PROVE  IInv'
<1>1. rx \in Seq(Reply) /\ ClientOK /\ BusOK /\ MemoryOK
  BY TypeParts DEF IInv, BusOK
<1>2. /\ rx' \in Seq(Reply) /\ Head(rx) \in Reply /\ Head(rx) = rx[1] /\ 1 \in 1..Len(rx)
      /\ \A i \in 1..Len(rx') : \E j \in 1..Len(rx) : rx'[i] = rx[j]
  BY <1>1, Dequeued DEF CheckReply
<1>3. ClientOK'
  <2>1. CASE End("crashed")
    BY <1>1, <2>1, EndOK DEF CheckReply, End, ClientOK
  <2>2. CASE /\ boards_checked' = boards_checked + 1
             /\ valid_nodes' = valid_nodes \cup Valid(Head(rx))
             /\ UNCHANGED <<stage, page, waiting, answers, retry_count, outcome>>
    BY <1>1, <1>2, <2>2 DEF CheckReply, ClientOK, Valid, Reply
  <2> QED BY <2>1, <2>2 DEF CheckReply
<1>4. BusOK' /\ MemoryOK'
  BY <1>1, <1>2, MemoryKept DEF BusOK, CheckReply
<1>5. UNCHANGED <<job, inbox, flash>> /\ stage' \in {"verify", "over"} /\ outcome' # "done"
  BY DEF CheckReply, memory, End, IInv, TypeOK
<1>6. ASSUME job.tool = "flash", NEW s \in valid_nodes' PROVE s \in Boards /\ Settled(s)
  <2>1. CASE s \in valid_nodes
    BY <1>6, <2>1 DEF IInv, ChecksumTrue
  <2>2. CASE s \in Valid(Head(rx))
    BY <1>2, <1>6, <2>2 DEF IInv, ChecksumTrue, Valid
  <2> QED BY <1>6, <2>1, <2>2 DEF CheckReply, End
<1>7. VerifyLast' /\ NotYetVerified' /\ ChecksumTrue'
  BY <1>2, <1>5, <1>6, ToolKeeps
<1> QED BY <1>3, <1>4, <1>7, TypePartsNext DEF IInv

LEMMA VerifiedStep ==
  ASSUME IInv, Verified
  PROVE  IInv'
<1>1. ClientOK /\ BusOK /\ MemoryOK
  BY TypeParts DEF IInv
<1>2. UNCHANGED <<job, inbox, flash, rx, unheeded>> /\ stage' \in {"over", "run"}
  BY DEF Verified, memory, End, Begin
<1>3. ClientOK'
  <2>1. CASE End("not_verified") \/ End("done")
    BY <1>1, <1>2, <2>1, EndOK DEF End, ClientOK
  <2>2. CASE Begin("run", 0)
    BY <1>1, <1>2, <2>2, BeginOK, FlashToolAssumption DEF Verified, Stages, ClientOK
  <2> QED BY <2>1, <2>2 DEF Verified
<1>4. BusOK' /\ MemoryOK'
  BY <1>1, MemoryKept DEF BusOK, Verified
<1>5. valid_nodes' \subseteq valid_nodes
  BY DEF Verified, End, Begin
<1>6. (stage' = "run" \/ outcome' = "done") => valid_nodes = Targets
  BY DEF Verified, End, Begin, IInv, TypeOK
<1>7. \A i \in 1..Len(rx') : \E j \in 1..Len(rx) : rx'[i] = rx[j]
  BY <1>2
<1>8. VerifyLast' /\ NotYetVerified' /\ ChecksumTrue'
  <2>1. job.tool = "flash" => \A s \in valid_nodes : s \in Boards /\ Settled(s)
    BY DEF IInv, ChecksumTrue
  <2> QED BY <1>2, <1>5, <1>6, <1>7, <2>1, ToolKeeps
<1> QED BY <1>3, <1>4, <1>8, TypePartsNext DEF IInv

---------------------------------------------------------------------------
(* The boards *)

\* What a board does with a datagram, as far as the invariant tells.
Replied(b, command) ==
  \/ rx' = rx
  \/ \E answer \in Answer :
       /\ rx' = Append(rx, [src |-> NodeId(b)', answer |-> answer])
       /\ answer.code = "crc_image" => command.op = "verify" /\ Holds(b)

Effect(b, command) ==
  /\ MemoryOK' /\ faults' \in 0..MaxFaults
  /\ Replied(b, command)
  /\ \A x \in Boards \ {b} : flash'[x] = flash[x]
  /\ command.op \notin {"erase", "write"} => flash' = flash

LEMMA PageSet ==
  ASSUME MemoryOK, NEW b \in Boards, NEW p, NEW content \in {"old", "blank", "image", "bad"},
         SetPage(b, p, content)
  PROVE  /\ flash' \in [Boards -> [PageNumbers -> {"old", "blank", "image", "bad"}]]
         /\ \A x \in Boards \ {b} : flash'[x] = flash[x]
<1>1. flash' = [flash EXCEPT ![b] = [flash[b] EXCEPT ![p] = content]]
  BY DEF SetPage
<1>2. [flash[b] EXCEPT ![p] = content] \in [PageNumbers -> {"old", "blank", "image", "bad"}]
  BY DEF MemoryOK
<1> QED BY <1>1, <1>2 DEF MemoryOK

LEMMA ExecuteEffect ==
  ASSUME TypeOK, NEW b \in Boards, NEW command \in Command, Execute(b, command),
         UNCHANGED <<client, class, running, lapsed>>
  PROVE  Effect(b, command)
<1> USE TypeParts
<1>1. PICK code \in Codes :
        /\ \/ command.op = "erase" /\ Erased(b, command.page, code) /\ UNCHANGED <<ram, saved>>
           \/ command.op = "write" /\ Written(b, command.page, code) /\ UNCHANGED <<ram, saved>>
           \/ Config(b, command.op, code) /\ UNCHANGED flash
           \/ Reads(b, command, code) /\ UNCHANGED <<flash, ram, saved>>
        /\ Answers(b, [code |-> code, of |-> command.op, page |-> command.page])
  BY DEF Execute
<1> DEFINE answer == [code |-> code, of |-> command.op, page |-> command.page]
<1>2. answer \in Answer /\ answer.code = code
  BY <1>1 DEF Answer, Command, Config, Reads, CommandStages
<1>3. code = "crc_image" => command.op = "verify" /\ Holds(b)
  BY <1>1 DEF Erased, Written, Config, Reads
<1>4. faults' \in 0..MaxFaults
  BY <1>1, Costs DEF Answers, BusOK
<1>5. Replied(b, command)
  BY <1>1, <1>2, <1>3 DEF Answers, Replied
<1>6. /\ flash' \in [Boards -> [PageNumbers -> {"old", "blank", "image", "bad"}]]
      /\ \A x \in Boards \ {b} : flash'[x] = flash[x]
  <2>1. CASE flash' = flash
    BY <2>1 DEF MemoryOK
  <2>2. CASE \E content \in {"blank", "image"} : SetPage(b, command.page, content)
    BY <2>2, PageSet
  <2> QED BY <1>1, <2>1, <2>2 DEF Erased, Written
<1>7. command.op \notin {"erase", "write"} => flash' = flash
  BY <1>1
<1>8. ram' \in [Boards -> {"old", "new"}] /\ saved' \in [Boards -> {"old", "new"}]
  BY <1>1 DEF Config, MemoryOK
<1>9. MemoryOK'
  BY <1>6, <1>8 DEF MemoryOK
<1> QED BY <1>4, <1>5, <1>6, <1>7, <1>9 DEF Effect

LEMMA ExecuteBadlyEffect ==
  ASSUME TypeOK, NEW b \in Boards, NEW command \in Command, ExecuteBadly(b, command),
         UNCHANGED <<client, class, running>>
  PROVE  Effect(b, command)
<1> USE TypeParts
<1>1. PICK code \in Codes :
        /\ \/ /\ \/ command.op = "erase" /\ EraseFails(b, command.page, code)
                 \/ command.op = "write" /\ WriteFails(b, command.page, code)
              /\ UNCHANGED <<saved, lapsed>>
           \/ command.op = "save" /\ SaveFails(b, code) /\ UNCHANGED flash
        /\ rx' = Append(rx, [src |-> NodeId(b),
                             answer |-> [code |-> code, of |-> command.op, page |-> command.page]])
        /\ Cost(1) /\ UNCHANGED ram
  BY DEF ExecuteBadly
<1> DEFINE answer == [code |-> code, of |-> command.op, page |-> command.page]
<1>2. answer \in Answer /\ answer.code = code /\ code # "crc_image"
  BY <1>1 DEF Answer, Command, CommandStages, EraseFails, WriteFails, SaveFails
<1>3. NodeId(b)' = NodeId(b)
  BY <1>1 DEF NodeId, client
<1>4. faults' \in 0..MaxFaults
  BY <1>1, Costs DEF BusOK
<1>5. Replied(b, command)
  BY <1>1, <1>2, <1>3 DEF Replied
<1>6. /\ flash' \in [Boards -> [PageNumbers -> {"old", "blank", "image", "bad"}]]
      /\ \A x \in Boards \ {b} : flash'[x] = flash[x]
  <2>1. CASE flash' = flash
    BY <2>1 DEF MemoryOK
  <2>2. CASE \E content \in {"blank", "bad"} : SetPage(b, command.page, content)
    BY <2>2, PageSet
  <2> QED BY <1>1, <2>1, <2>2 DEF EraseFails, WriteFails
<1>7. command.op \notin {"erase", "write"} => flash' = flash
  BY <1>1
<1>8. /\ saved' \in [Boards -> {"old", "new"}] /\ lapsed' \subseteq Boards
      /\ ram' \in [Boards -> {"old", "new"}]
  BY <1>1 DEF SaveFails, MemoryOK
<1>9. MemoryOK'
  BY <1>6, <1>8 DEF MemoryOK
<1> QED BY <1>4, <1>5, <1>6, <1>7, <1>9 DEF Effect

LEMMA BoardEffect ==
  ASSUME TypeOK, NEW b \in Boards, Board(b)
  PROVE  Head(inbox[b]) \in Command /\ Effect(b, Head(inbox[b]))
<1> USE TypeParts
<1> DEFINE command == Head(inbox[b])
<1>1. command \in Command
  <2>1. inbox[b] \in Seq(Command) /\ inbox[b] # <<>>
    BY DEF Board, BusOK
  <2> QED BY <2>1
<1>2. UNCHANGED <<client, class>>
  BY DEF Board
<1>3. ASSUME Execute(b, command), UNCHANGED <<running, lapsed>> PROVE Effect(b, command)
  <2> HIDE DEF command
  <2> QED BY <1>1, <1>2, <1>3, ExecuteEffect
<1>4. ASSUME ExecuteBadly(b, command), UNCHANGED running PROVE Effect(b, command)
  <2> HIDE DEF command
  <2> QED BY <1>1, <1>2, <1>4, ExecuteBadlyEffect
<1>5. ASSUME Jump(b), UNCHANGED lapsed PROVE Effect(b, command)
  <2> HIDE DEF command
  <2>1. MemoryOK'
    BY <1>2, <1>5 DEF Jump, MemoryOK, Holds
  <2> QED BY <1>5, <2>1 DEF Jump, Effect, Replied, BusOK
<1>6. ASSUME UNCHANGED <<rx, flash, ram, saved, running, lapsed, faults>> PROVE Effect(b, command)
  <2> HIDE DEF command
  <2>1. MemoryOK'
    BY <1>2, <1>6 DEF MemoryOK
  <2> QED BY <1>6, <2>1 DEF Effect, Replied, BusOK
<1>7. \/ Execute(b, command) /\ UNCHANGED <<running, lapsed>>
      \/ ExecuteBadly(b, command) /\ UNCHANGED running
      \/ Jump(b) /\ UNCHANGED lapsed
      \/ UNCHANGED <<rx, flash, ram, saved, running, lapsed, faults>>
  BY DEF Board
<1> QED BY <1>1, <1>3, <1>4, <1>5, <1>6, <1>7

\* What waits in a board after it dealt with the first datagram.
LEMMA InboxTail ==
  ASSUME TypeOK, NEW b \in Boards, inbox[b] # <<>>,
         inbox' = [inbox EXCEPT ![b] = Tail(@)]
  PROVE  /\ inbox' \in [Boards -> Seq(Command)]
         /\ 1 \in 1..Len(inbox[b]) /\ Head(inbox[b]) = inbox[b][1]
         /\ \A i \in 1..Len(inbox'[b]) :
              i + 1 \in 1..Len(inbox[b]) /\ 1 < i + 1 /\ inbox'[b][i] = inbox[b][i + 1]
         /\ \A x \in Boards \ {b} : inbox'[x] = inbox[x]
<1>1. inbox \in [Boards -> Seq(Command)] /\ inbox[b] \in Seq(Command)
  BY DEF TypeOK
<1>2. inbox'[b] = Tail(inbox[b]) /\ \A x \in Boards \ {b} : inbox'[x] = inbox[x]
  BY <1>1
<1>3. Tail(inbox[b]) \in Seq(Command)
  BY <1>1
<1>4. inbox' \in [Boards -> Seq(Command)]
  BY <1>1, <1>3
<1> QED BY <1>1, <1>2, <1>4

\* A settled board remains so: no datagram that waits in it changes its flash memory.
LEMMA SettledKept ==
  ASSUME TypeOK, NEW b \in Boards, Board(b), NEW x \in Boards, Settled(x)
  PROVE  Settled(x)'
<1> DEFINE command == Head(inbox[b])
<1>1. Effect(b, command)
  BY BoardEffect
<1>2. inbox[b] # <<>> /\ inbox' = [inbox EXCEPT ![b] = Tail(@)]
  BY DEF Board
<1>3. CASE x # b
  <2>1. flash'[x] = flash[x] /\ inbox'[x] = inbox[x]
    BY <1>1, <1>2, <1>3, InboxTail DEF Effect
  <2> QED BY <2>1 DEF Settled, Holds
<1>4. CASE x = b
  <2>1. command.op \notin {"erase", "write"}
    BY <1>2, <1>4, InboxTail DEF Settled
  <2>2. flash' = flash
    BY <1>1, <2>1 DEF Effect
  <2>3. \A i \in 1..Len(inbox'[b]) : inbox'[b][i].op \notin {"erase", "write"}
    <3>1. \A i \in 1..Len(inbox[b]) : inbox[b][i].op \notin {"erase", "write"}
      BY <1>4 DEF Settled
    <3>2. \A i \in 1..Len(inbox'[b]) :
            i + 1 \in 1..Len(inbox[b]) /\ inbox'[b][i] = inbox[b][i + 1]
      BY <1>2, InboxTail
    <3> QED BY <3>1, <3>2
  <2> QED BY <1>4, <2>2, <2>3 DEF Settled, Holds
<1> QED BY <1>3, <1>4

\* A board that answers a verification is settled: nothing that would erase or write
\* comes after it.
LEMMA VerifierSettled ==
  ASSUME IInv, NEW b \in Boards, Board(b), Head(inbox[b]).op = "verify", Holds(b)
  PROVE  Settled(b)'
<1>1. Effect(b, Head(inbox[b]))
  BY BoardEffect DEF IInv
<1>2. flash' = flash
  BY <1>1 DEF Effect
<1>3. inbox[b] # <<>> /\ inbox' = [inbox EXCEPT ![b] = Tail(@)] /\ TypeOK
  BY DEF Board, IInv
<1>4. /\ 1 \in 1..Len(inbox[b]) /\ inbox[b][1].op = "verify"
      /\ \A i \in 1..Len(inbox'[b]) :
           i + 1 \in 1..Len(inbox[b]) /\ 1 < i + 1 /\ inbox'[b][i] = inbox[b][i + 1]
  BY <1>3, InboxTail
<1>5. ASSUME NEW i \in 1..Len(inbox'[b]) PROVE inbox'[b][i].op \notin {"erase", "write"}
  <2>1. i + 1 \in 1..Len(inbox[b]) /\ 1 < i + 1 /\ inbox'[b][i] = inbox[b][i + 1]
    BY <1>4
  <2> QED BY <1>4, <2>1 DEF IInv, VerifyLast
<1> QED BY <1>2, <1>5 DEF Settled, Holds

LEMMA BoardStep ==
  ASSUME IInv, NEW b \in Boards, Board(b)
  PROVE  IInv'
<1> DEFINE command == Head(inbox[b])
<1>1. ClientOK /\ BusOK /\ MemoryOK /\ TypeOK
  BY TypeParts DEF IInv
<1>2. command \in Command /\ Effect(b, command)
  BY <1>1, BoardEffect
<1>3. inbox[b] # <<>> /\ inbox' = [inbox EXCEPT ![b] = Tail(@)]
  BY DEF Board
<1>4. UNCHANGED <<job, stage, valid_nodes, outcome>>
  BY DEF Board, client
<1>5. ClientOK'
  BY <1>1 DEF ClientOK, Board, client
<1>6. NodeId(b)' \in Boards \cup {NewId} /\ (job.tool = "flash" => NodeId(b)' = b)
  BY <1>4, FlashToolAssumption DEF NodeId
<1>7. BusOK'
  <2>1. rx' \in Seq(Reply)
    <3>1. CASE rx' = rx
      BY <1>1, <3>1 DEF BusOK
    <3>2. ASSUME NEW answer \in Answer,
                 rx' = Append(rx, [src |-> NodeId(b)', answer |-> answer])
          PROVE  rx' \in Seq(Reply)
      <4>1. [src |-> NodeId(b)', answer |-> answer] \in Reply
        BY <1>6 DEF Reply
      <4> QED BY <1>1, <3>2, <4>1 DEF BusOK
    <3> QED BY <1>2, <3>1, <3>2 DEF Effect, Replied
  <2> QED BY <1>1, <1>2, <1>3, <2>1, InboxTail DEF BusOK, Effect
<1>8. \A i \in 1..Len(rx') :
        \/ \E j \in 1..Len(rx) : rx'[i] = rx[j]
        \/ rx'[i].answer.code # "crc_image"
        \/ command.op = "verify" /\ Holds(b) /\ rx'[i].src = NodeId(b)'
  <2>1. CASE rx' = rx
    BY <2>1
  <2>2. ASSUME NEW answer \in Answer,
               rx' = Append(rx, [src |-> NodeId(b)', answer |-> answer]),
               answer.code = "crc_image" => command.op = "verify" /\ Holds(b)
        PROVE  \A i \in 1..Len(rx') :
                 \/ \E j \in 1..Len(rx) : rx'[i] = rx[j]
                 \/ rx'[i].answer.code # "crc_image"
                 \/ command.op = "verify" /\ Holds(b) /\ rx'[i].src = NodeId(b)'
    <3> DEFINE reply == [src |-> NodeId(b)', answer |-> answer]
    <3>1. reply.src = NodeId(b)' /\ reply.answer = answer
      OBVIOUS
    <3>2. rx \in Seq(Reply) /\ rx' = Append(rx, reply)
      BY <1>1, <2>2 DEF BusOK
    <3> HIDE DEF reply, command
    <3>3. ASSUME NEW i \in 1..Len(rx') PROVE rx'[i] = reply \/ \E j \in 1..Len(rx) : rx'[i] = rx[j]
      BY <3>2
    <3> QED BY <2>2, <3>1, <3>3
  <2> HIDE DEF command
  <2> QED BY <1>2, <2>1, <2>2 DEF Effect, Replied
<1>12. \A i \in 1..Len(inbox'[b]) :
         i + 1 \in 1..Len(inbox[b]) /\ inbox'[b][i] = inbox[b][i + 1]
  <2> HIDE DEF command
  <2> QED BY <1>1, <1>3, InboxTail
<1>9. VerifyLast'
  <2> SUFFICES ASSUME NEW x \in Boards, NEW i \in 1..Len(inbox'[x]),
                      NEW j \in 1..Len(inbox'[x]), i < j, inbox'[x][i].op = "verify"
               PROVE  inbox'[x][j].op \notin {"erase", "write"}
    BY DEF VerifyLast
  <2>1. CASE x # b
    BY <1>1, <1>3, <2>1, InboxTail DEF IInv, VerifyLast
  <2>2. CASE x = b
    <3>1. /\ i + 1 \in 1..Len(inbox[x]) /\ inbox'[x][i] = inbox[x][i + 1]
          /\ j + 1 \in 1..Len(inbox[x]) /\ inbox'[x][j] = inbox[x][j + 1]
          /\ i + 1 < j + 1
      BY <1>12, <2>2
    <3> QED BY <3>1 DEF IInv, VerifyLast
  <2> QED BY <2>1, <2>2
<1>10. NotYetVerified'
  <2> SUFFICES ASSUME stage \notin {"verify", "run", "over"} PROVE NotYetVerified'
    BY <1>4 DEF NotYetVerified
  <2>1. \A x \in Boards : \A i \in 1..Len(inbox[x]) : inbox[x][i].op # "verify"
    BY DEF IInv, NotYetVerified
  <2>2. ASSUME NEW x \in Boards, NEW i \in 1..Len(inbox'[x]) PROVE inbox'[x][i].op # "verify"
    <3>1. CASE x # b
      BY <1>1, <1>3, <2>1, <3>1, InboxTail
    <3>2. CASE x = b
      <4>1. i + 1 \in 1..Len(inbox[x]) /\ inbox'[x][i] = inbox[x][i + 1]
        BY <1>1, <1>3, <1>12, <3>2
      <4> QED BY <2>1, <4>1
    <3> QED BY <3>1, <3>2
  <2>3. command.op # "verify"
    BY <1>1, <1>3, <2>1, InboxTail
  <2>4. \A i \in 1..Len(rx') : rx'[i].answer.code # "crc_image"
    BY <1>8, <2>3 DEF IInv, NotYetVerified
  <2> QED BY <1>4, <2>2, <2>4 DEF IInv, NotYetVerified
<1>11. ChecksumTrue'
  <2> SUFFICES ASSUME job.tool = "flash" PROVE ChecksumTrue'
    BY <1>4 DEF ChecksumTrue
  <2>1. \A x \in Boards : Settled(x) => Settled(x)'
    BY <1>1, SettledKept
  <2>2. ASSUME NEW i \in 1..Len(rx'), rx'[i].answer.code = "crc_image"
        PROVE  \E x \in Boards : x = rx'[i].src /\ Settled(x)'
    <3>1. CASE \E j \in 1..Len(rx) : rx'[i] = rx[j]
      BY <2>1, <2>2, <3>1 DEF IInv, ChecksumTrue
    <3>2. CASE command.op = "verify" /\ Holds(b) /\ rx'[i].src = NodeId(b)'
      BY <1>6, <3>2, VerifierSettled
    <3> QED BY <1>8, <2>2, <3>1, <3>2
  <2>3. Targets' = Targets /\ Targets \subseteq Boards
    BY <1>1, <1>4, TargetsAreIds DEF Targets
  <2>4. /\ \A s \in valid_nodes' : s \in Boards /\ Settled(s)'
        /\ (stage' = "run" \/ outcome' = "done") => \A x \in Targets' : Settled(x)'
    BY <1>4, <2>1, <2>3 DEF IInv, ChecksumTrue
  <2>5. \A i \in 1..Len(rx') :
          rx'[i].answer.code = "crc_image" =>
            \E x \in Boards : x = rx'[i].src /\ Settled(x)'
    BY <2>2
  <2> QED BY <2>4, <2>5 DEF ChecksumTrue, Settled, Holds
<1> QED BY <1>2, <1>5, <1>7, <1>9, <1>10, <1>11, TypePartsNext DEF IInv, Effect

LEMMA ResetStep ==
  ASSUME IInv, NEW b \in Boards, Reset(b)
  PROVE  IInv'
<1>1. ClientOK /\ BusOK /\ MemoryOK
  BY TypeParts DEF IInv
<1>2. UNCHANGED <<job, stage, valid_nodes, outcome, rx, flash>>
  BY DEF Reset, client
<1>3. \A x \in Boards : inbox'[x] = inbox[x] \/ inbox'[x] = <<>>
  BY <1>1 DEF Reset, BusOK
<1>4. ClientOK'
  BY <1>1 DEF ClientOK, Reset, client
<1>5. BusOK'
  <2>1. faults' \in 0..MaxFaults
    BY <1>1, Costs DEF Reset, BusOK
  <2>2. inbox' \in [Boards -> Seq(Command)]
    BY <1>1 DEF Reset, BusOK
  <2> QED BY <1>1, <1>2, <2>1, <2>2 DEF BusOK
<1>6. MemoryOK'
  BY <1>1, <1>2 DEF Reset, MemoryOK
<1>7. VerifyLast'
  BY <1>3 DEF IInv, VerifyLast
<1>8. NotYetVerified'
  BY <1>2, <1>3 DEF IInv, NotYetVerified
<1>9. \A x \in Boards : Settled(x) => Settled(x)'
  BY <1>2, <1>3 DEF Settled, Holds
<1>10. ChecksumTrue'
  <2> SUFFICES ASSUME job.tool = "flash" PROVE ChecksumTrue'
    BY <1>2 DEF ChecksumTrue
  <2>1. Targets' = Targets /\ Targets \subseteq Boards
    BY <1>2, TargetsAreIds DEF Targets, IInv
  <2>2. \A i \in 1..Len(rx') :
          rx'[i].answer.code = "crc_image" =>
            \E x \in Boards : x = rx'[i].src /\ Settled(x)'
    BY <1>2, <1>9 DEF IInv, ChecksumTrue
  <2>3. /\ \A s \in valid_nodes' : s \in Boards /\ Settled(s)'
        /\ (stage' = "run" \/ outcome' = "done") => \A x \in Targets' : Settled(x)'
    BY <1>2, <1>9, <2>1 DEF IInv, ChecksumTrue
  <2> QED BY <2>2, <2>3 DEF ChecksumTrue, Settled, Holds
<1> QED BY <1>4, <1>5, <1>6, <1>7, <1>8, <1>10, TypePartsNext DEF IInv

---------------------------------------------------------------------------
(* The theorems about the image *)

LEMMA InitIInv == Init => IInv
<1> SUFFICES ASSUME Init PROVE IInv
  OBVIOUS
<1>1. ClientOK
  <2>1. DOMAIN answers = {}
    BY NoAnswersOK DEF Init
  <2>2. stage \in {"ping", "update"} /\ stage \in Stages
    BY DEF Init, Stages, CommandStages
  <2>3. page \in 0..Pages /\ page = 0
    BY FlashToolAssumption DEF Init
  <2>4. /\ job \in Jobs /\ waiting = FALSE /\ retry_count = 0 /\ boards_checked = 0
        /\ valid_nodes = {} /\ outcome = "none" /\ unheeded = FALSE
    BY DEF Init
  <2>5. /\ DOMAIN answers \subseteq Boards \cup {NewId}
        /\ \A s \in DOMAIN answers : answers[s] \in Answer
    BY <2>1
  <2>6. stage \in {"erase", "write"} <=> page > 0
    BY <2>2, <2>3
  <2>7. stage = "over" <=> outcome # "none"
    BY <2>2, <2>4
  <2> QED BY <2>2, <2>3, <2>4, <2>5, <2>6, <2>7 DEF ClientOK
<1>2. BusOK
  BY FlashToolAssumption DEF Init, BusOK
<1>3. MemoryOK
  BY DEF Init, MemoryOK
<1>4. \A b \in Boards : inbox[b] = <<>>
  BY DEF Init
<1>5. VerifyLast
  BY <1>4 DEF VerifyLast
<1>6. NotYetVerified
  BY <1>4 DEF Init, NotYetVerified
<1>7. ChecksumTrue
  BY DEF Init, ChecksumTrue
<1> QED BY <1>1, <1>2, <1>3, <1>5, <1>6, <1>7, TypeParts DEF IInv

LEMMA NextIInv == IInv /\ [Next]_vars => IInv'
<1> SUFFICES ASSUME IInv, [Next]_vars PROVE IInv'
  OBVIOUS
<1>1. CASE Ping
  BY <1>1, PingStep
<1>2. CASE PingAnswered
  BY <1>2, PingAnsweredStep
<1>3. CASE PingTimedOut
  BY <1>3, PingTimedOutStep
<1>4. CASE Send
  BY <1>4, SendStep
<1>5. CASE Receive
  BY <1>5, ReceiveStep
<1>6. CASE Retry
  BY <1>6, RetryStep
<1>7. CASE FlashCommandDone
  BY <1>7, FlashCommandDoneStep
<1>8. CASE ConfigCommandDone
  BY <1>8, ConfigCommandDoneStep
<1>9. CASE Verify
  BY <1>9, VerifyStep
<1>10. CASE CheckReply
  BY <1>10, CheckReplyStep
<1>11. CASE Verified
  BY <1>11, VerifiedStep
<1>12. CASE Run
  BY <1>12, RunStep
<1>13. CASE \E b \in Boards : Board(b)
  BY <1>13, BoardStep
<1>14. CASE \E b \in Boards : Reset(b)
  BY <1>14, ResetStep
<1>15. CASE UNCHANGED vars
  <2>1. UNCHANGED <<client, rx, inbox, memory, faults>>
    BY <1>15 DEF vars
  <2>2. TypeOK'
    BY <2>1 DEF IInv, TypeOK, client, memory
  <2>3. VerifyLast' /\ NotYetVerified'
    BY <2>1 DEF IInv, VerifyLast, NotYetVerified, client
  <2>4. \A b : Settled(b)' <=> Settled(b)
    BY <2>1 DEF Settled, Holds, memory
  <2>5. ChecksumTrue'
    BY <2>1, <2>4 DEF IInv, ChecksumTrue, client, Targets
  <2> QED BY <2>2, <2>3, <2>5 DEF IInv
<1> QED BY <1>1, <1>2, <1>3, <1>4, <1>5, <1>6, <1>7, <1>8, <1>9, <1>10, <1>11, <1>12, <1>13,
           <1>14, <1>15 DEF Next, Tool

\* The tools and the boards are type correct, and the checksums that are on their way
\* or counted are those of boards that hold the image and will keep it, whatever is
\* lost, damaged, late, reset or broken (bootloader_flash.py, utils.py).
THEOREM ChecksumInvariant == Spec => []IInv
BY InitIInv, NextIInv, PTL DEF Spec

\* The type invariant of the tools (utils.py:224-296, bootloader_flash.py:76-384).
THEOREM TypeCorrect == Spec => []TypeOK
<1>1. IInv => TypeOK
  BY DEF IInv
<1> QED BY <1>1, ChecksumInvariant, PTL

\* When bootloader_flash reports success, or starts the application, all boards hold
\* the image (bootloader_flash.py:280-326), for any number of boards, pages and faults.
THEOREM SuccessIsTrue == Spec => []VerifiedMeansStored
<1>1. IInv => VerifiedMeansStored
  BY DEF IInv, ChecksumTrue, VerifiedMeansStored, Settled
<1> QED BY <1>1, ChecksumInvariant, PTL

---------------------------------------------------------------------------
(* The configuration: what is known of it *)

\* What has been done with a board, or the reason why it may not be so.
Updated(b) == ram[b] = "new" \/ b \in lapsed \/ unheeded
Saved(b) == saved[b] = "new" \/ b \in lapsed \/ unheeded
SameClass(b) == class[b] \/ unheeded

\* The board a reply is from: only bootloader_change_id gives another ID.
Origin(src) == IF src = NewId THEN job.ids[1] ELSE src

\* What a reply tells of the board it is from, now and for ever.
ReplyTrue(src, answer) ==
  /\ src = NewId => job.tool = "change_id"
  /\ answer.of \in CommandStages => Origin(src) \in Targets
  /\ (answer.of = "write" /\ ~class[Origin(src)]) => answer.code = "write_refused"
  /\ (answer.of = "update" /\ answer.code = "success") => Updated(Origin(src))
  /\ (answer.of = "save" /\ answer.code = "success") => Saved(Origin(src))

RepliesTrue ==
  /\ \A i \in 1..Len(rx) : ReplyTrue(rx[i].src, rx[i].answer)
  /\ \A s \in DOMAIN answers : ReplyTrue(s, answers[s])

\* What has been achieved before a command of stage s is sent.
Reached(s) ==
  /\ s \in {"update", "save", "verify", "run"} => \A b \in Targets : SameClass(b)
  /\ s \in {"save", "verify", "run"} => \A b \in Targets : Updated(b)
  /\ s \in {"verify", "run"} => \A b \in Targets : Saved(b)

\* No command is on the bus before its time, however late it is dealt with.
CommandsTrue ==
  \A b \in Boards : \A i \in 1..Len(inbox[b]) :
     inbox[b][i].to \subseteq Targets \cup {NewId} /\ Reached(inbox[b][i].op)

StageTrue == Reached(stage) /\ (outcome = "done" => Reached("run"))

BoardsTrue ==
  \A b \in Boards :
    /\ saved[b] = "new" => ram[b] = "new" \/ b \in lapsed
    /\ ~class[b] => (ram[b] = "old" /\ saved[b] = "old") \/ unheeded

ConfigInv == RepliesTrue /\ CommandsTrue /\ StageTrue /\ BoardsTrue

---------------------------------------------------------------------------
(* What is achieved remains so *)

Stable ==
  /\ UNCHANGED <<job, class>>
  /\ unheeded => unheeded'
  /\ \A b \in Boards : (Updated(b) => Updated(b)') /\ (Saved(b) => Saved(b)')

LEMMA OriginIsBoard ==
  ASSUME TypeOK, NEW src \in Boards \cup {NewId}
  PROVE  Origin(src) \in Boards
<1>1. job.ids \in Seq(Boards) /\ job.ids # <<>>
  BY FlashToolAssumption DEF TypeOK
<1>2. job.ids[1] \in Boards
  BY <1>1
<1> QED BY <1>2 DEF Origin

LEMMA StableKeeps ==
  ASSUME TypeOK, Stable
  PROVE  /\ Targets' = Targets
         /\ \A s : Reached(s) => Reached(s)'
         /\ \A src \in Boards \cup {NewId} : \A answer :
              ReplyTrue(src, answer) => ReplyTrue(src, answer)'
<1>1. Targets' = Targets /\ Targets \subseteq Boards
  BY TargetsAreIds DEF Stable, Targets
<1>2. \A b : SameClass(b) => SameClass(b)'
  BY DEF Stable, SameClass
<1>3. ASSUME NEW s, Reached(s) PROVE Reached(s)'
  BY <1>1, <1>2, <1>3 DEF Stable, Reached
<1>4. ASSUME NEW src \in Boards \cup {NewId}, NEW answer, ReplyTrue(src, answer)
      PROVE  ReplyTrue(src, answer)'
  <2>1. Origin(src)' = Origin(src) /\ Origin(src) \in Boards
    BY OriginIsBoard DEF Stable, Origin
  <2>2. PICK b \in Boards : b = Origin(src)
    BY <2>1
  <2>3. (Updated(b) => Updated(b)') /\ (Saved(b) => Saved(b)') /\ class' = class /\ job' = job
    BY DEF Stable
  <2> QED BY <1>1, <1>4, <2>1, <2>2, <2>3 DEF ReplyTrue
<1> QED BY <1>1, <1>3, <1>4

\* The tool changes nothing in the boards.
LEMMA ToolStable ==
  ASSUME UNCHANGED <<job, memory>>, unheeded => unheeded'
  PROVE  Stable
BY DEF Stable, memory, Updated, Saved

---------------------------------------------------------------------------
(* The steps of the tool, and the configuration *)

LEMMA DestinationsAreTargets ==
  ASSUME TypeOK
  PROVE  ToSet(destinations) \subseteq Targets \cup {NewId}
BY DEF Targets, destinations, ToSet

\* A step of the tool that sends what its stage sends, or nothing, and invents no reply.
LEMMA ToolKeepsConfig ==
  ASSUME TypeOK, TypeOK', ConfigInv, UNCHANGED <<job, memory>>, unheeded => unheeded',
         NEW to \in SUBSET (Targets \cup {NewId}), \A b \in Boards : Sent(b, to),
         \A i \in 1..Len(rx') : \E j \in 1..Len(rx) : rx'[i] = rx[j],
         \A s \in DOMAIN answers' : ReplyTrue(s, answers'[s]),
         StageTrue'
  PROVE  ConfigInv'
<1>1. Stable
  BY ToolStable
<1>2. RepliesTrue'
  <2>1. ASSUME NEW i \in 1..Len(rx') PROVE ReplyTrue(rx[i].src, rx[i].answer)'
    <3>1. PICK j \in 1..Len(rx) : rx'[i] = rx[j]
      OBVIOUS
    <3>2. rx[j] \in Reply
      BY DEF TypeOK
    <3>3. PICK src \in Boards \cup {NewId}, answer \in Answer : src = rx[j].src /\ answer = rx[j].answer
      BY <3>2 DEF Reply
    <3>4. ReplyTrue(src, answer)
      BY <3>3 DEF ConfigInv, RepliesTrue
    <3>5. ReplyTrue(src, answer)'
      BY <1>1, <3>4, StableKeeps
    <3>6. rx'[i].src = src /\ rx'[i].answer = answer
      BY <3>1, <3>3
    <3> QED BY <3>5, <3>6 DEF ReplyTrue, Origin, Updated, Saved
  <2>2. ASSUME NEW s \in DOMAIN answers' PROVE ReplyTrue(s, answers[s])'
    <3>1. s \in Boards \cup {NewId}
      BY DEF TypeOK
    <3>2. PICK answer : answer = answers'[s]
      OBVIOUS
    <3>3. ReplyTrue(s, answer)'
      BY <1>1, <3>1, <3>2, StableKeeps
    <3> QED BY <3>2, <3>3 DEF ReplyTrue, Origin, Updated, Saved
  <2> QED BY <2>1, <2>2 DEF RepliesTrue
<1>3. CommandsTrue'
  <2> SUFFICES ASSUME NEW b \in Boards, NEW i \in 1..Len(inbox'[b])
               PROVE  inbox'[b][i].to \subseteq Targets' \cup {NewId} /\ Reached(inbox[b][i].op)'
    BY DEF CommandsTrue
  <2>1. inbox[b] \in Seq(Command) /\ Targets' = Targets
    BY <1>1, StableKeeps DEF TypeOK
  <2>2. PICK op : op = inbox'[b][i].op
    OBVIOUS
  <2>3. inbox'[b][i].to \subseteq Targets \cup {NewId} /\ Reached(op)
    <3>1. \A k \in 1..Len(inbox[b]) :
            inbox[b][k].to \subseteq Targets \cup {NewId} /\ Reached(inbox[b][k].op)
      BY DEF ConfigInv, CommandsTrue
    <3>2. CASE inbox'[b] = inbox[b]
      BY <2>2, <3>1, <3>2
    <3>3. ASSUME NEW c \in Command, c.op \in {stage, "damaged"}, c.to \subseteq to,
                 inbox'[b] = Append(inbox[b], c)
          PROVE  inbox'[b][i].to \subseteq Targets \cup {NewId} /\ Reached(op)
      <4>1. CASE i \in 1..Len(inbox[b])
        <5>1. inbox'[b][i] = inbox[b][i]
          BY <2>1, <3>3, <4>1
        <5> QED BY <2>2, <3>1, <4>1, <5>1
      <4>2. CASE i = Len(inbox[b]) + 1
        <5>1. inbox'[b][i] = c
          BY <2>1, <3>3, <4>2
        <5>2. Reached(stage) /\ Reached("damaged")
          BY DEF ConfigInv, StageTrue, Reached
        <5> QED BY <2>2, <3>3, <5>1, <5>2
      <4>3. i \in 1..(Len(inbox[b]) + 1) /\ Len(inbox[b]) \in Nat
        BY <2>1, <3>3
      <4> QED BY <4>1, <4>2, <4>3
    <3> QED BY <3>2, <3>3 DEF Sent
  <2>4. Reached(op)'
    BY <1>1, <2>3, StableKeeps
  <2> QED BY <2>1, <2>2, <2>3, <2>4 DEF Reached, SameClass, Updated, Saved
<1>4. BoardsTrue'
  BY DEF ConfigInv, BoardsTrue, memory
<1> QED BY <1>2, <1>3, <1>4 DEF ConfigInv

\* The steps that send.  Only the last one ends the tool.
LEMMA SendingKeepsConfig ==
  ASSUME TypeOK, TypeOK', ConfigInv, stage # "over",
         UNCHANGED <<job, memory, unheeded>>,
         NEW to \in SUBSET (Targets \cup {NewId}), write_command(to),
         rx' = rx \/ rx' = <<>>, answers' = answers \/ answers' = NoAnswers,
         \/ UNCHANGED <<stage, outcome>>
         \/ stage = "run" /\ stage' = "over"
  PROVE  ConfigInv'
<1>1. to \in SUBSET (Boards \cup {NewId})
  BY TargetsAreIds
<1>2. \A b \in Boards : Sent(b, to)
  BY <1>1, Delivery
<1>3. \A i \in 1..Len(rx') : \E j \in 1..Len(rx) : rx'[i] = rx[j]
  OBVIOUS
<1>4. \A s \in DOMAIN answers' : ReplyTrue(s, answers'[s])
  BY NoAnswersOK DEF ConfigInv, RepliesTrue
<1>5. StageTrue'
  <2>1. \A s : Reached(s) => Reached(s)'
    BY ToolStable, StableKeeps
  <2>2. CASE UNCHANGED <<stage, outcome>>
    <3>1. Reached(stage)' /\ (outcome = "done" => Reached("run")')
      BY <2>1, <2>2 DEF ConfigInv, StageTrue, Reached, SameClass, Updated, Saved
    <3> QED BY <2>2, <3>1 DEF StageTrue
  <2>3. CASE stage = "run" /\ stage' = "over"
    <3>1. Reached("run")'
      BY <2>1, <2>3 DEF ConfigInv, StageTrue
    <3>2. Reached(stage)'
      BY <2>3 DEF Reached
    <3> QED BY <3>1, <3>2 DEF StageTrue
  <2> QED BY <2>2, <2>3
<1> QED BY <1>2, <1>3, <1>4, <1>5, ToolKeepsConfig

\* The steps that send nothing.
LEMMA QuietKeepsConfig ==
  ASSUME TypeOK, TypeOK', ConfigInv,
         UNCHANGED <<job, inbox, memory>>, unheeded => unheeded',
         rx' = rx \/ (rx # <<>> /\ rx' = Tail(rx)),
         \/ answers' = NoAnswers
         \/ answers' = answers
         \/ rx # <<>> /\ answers' = Remember(Head(rx)),
         StageTrue'
  PROVE  ConfigInv'
<1>1. \A i \in 1..Len(rx') : \E j \in 1..Len(rx) : rx'[i] = rx[j]
  BY Dequeued DEF TypeOK
<1>2. ASSUME NEW s \in DOMAIN answers' PROVE ReplyTrue(s, answers'[s])
  <2>1. CASE answers' = NoAnswers
    BY <1>2, <2>1, NoAnswersOK
  <2>2. CASE answers' = answers
    BY <1>2, <2>2 DEF ConfigInv, RepliesTrue
  <2>3. CASE rx # <<>> /\ answers' = Remember(Head(rx))
    <3>1. Head(rx) = rx[1] /\ 1 \in 1..Len(rx)
      BY <2>3 DEF TypeOK
    <3>2. ReplyTrue(Head(rx).src, Head(rx).answer)
      BY <3>1 DEF ConfigInv, RepliesTrue
    <3>3. CASE s = Head(rx).src
      <4>1. answers'[s] = Head(rx).answer
        BY <1>2, <2>3, <3>3 DEF Remember
      <4> QED BY <3>2, <3>3, <4>1
    <3>4. CASE s # Head(rx).src
      <4>1. s \in DOMAIN answers /\ answers'[s] = answers[s]
        BY <1>2, <2>3, <3>4 DEF Remember
      <4> QED BY <4>1 DEF ConfigInv, RepliesTrue
    <3> QED BY <3>3, <3>4
  <2> QED BY <2>1, <2>2, <2>3
<1>3. {} \in SUBSET (Targets \cup {NewId}) /\ \A b \in Boards : Sent(b, {})
  BY DEF Sent
<1> QED BY <1>1, <1>2, <1>3, ToolKeepsConfig

LEMMA TargetsFinite ==
  ASSUME TypeOK
  PROVE  /\ IsFiniteSet(Targets) /\ Cardinality(Targets) \in Nat
         /\ Len(job.ids) \in Nat \ {0} /\ Cardinality(Targets) <= Len(job.ids)
<1>1. job.ids \in Seq(Boards) /\ job.ids # <<>>
  BY FlashToolAssumption DEF TypeOK
<1>2. Len(job.ids) \in Nat \ {0} /\ DOMAIN job.ids = 1..Len(job.ids)
  BY <1>1
<1>3. job.ids \in Surjection(1..Len(job.ids), Targets)
  <2>1. job.ids = [i \in 1..Len(job.ids) |-> job.ids[i]]
    BY <1>1
  <2>2. \A i \in 1..Len(job.ids) : job.ids[i] \in Targets
    BY <1>2 DEF Targets, ToSet
  <2>3. \A b \in Targets : \E i \in 1..Len(job.ids) : job.ids[i] = b
    BY <1>2 DEF Targets, ToSet
  <2>4. job.ids \in [1..Len(job.ids) -> Targets]
    BY <2>1, <2>2
  <2> QED BY <2>3, <2>4 DEF Surjection
<1>4. IsFiniteSet(1..Len(job.ids)) /\ Cardinality(1..Len(job.ids)) = Len(job.ids)
  BY <1>2, FS_Interval
<1>5. IsFiniteSet(Targets) /\ Cardinality(Targets) <= Cardinality(1..Len(job.ids))
  BY <1>3, <1>4, FS_Surjection
<1> QED BY <1>2, <1>4, <1>5, FS_CardinalityType

\* The answers are counted.  If all of them are answers to this command, they are from
\* all boards that it was sent to.
LEMMA Covered ==
  ASSUME TypeOK, ConfigInv, stage \in CommandStages, Complete,
         \A s \in DOMAIN answers : Heeds(answers[s]), NEW b \in Targets
  PROVE  \E s \in DOMAIN answers : Origin(s) = b
<1>1. ASSUME NEW s \in DOMAIN answers
      PROVE  Origin(s) \in Targets /\ (s = NewId => job.tool = "change_id")
  BY DEF ConfigInv, RepliesTrue, ReplyTrue, Heeds
<1>2. job \in Jobs /\ job.ids \in Seq(Boards) /\ (job.tool = "change_id" => Len(job.ids) = 1)
  BY FlashToolAssumption DEF TypeOK
<1>3. CASE job.tool = "change_id"
  <2>1. Len(destinations) = 1 /\ Targets = {b}
    BY <1>2, <1>3 DEF destinations, Targets, ToSet
  <2>2. DOMAIN answers # {}
    BY <2>1, FS_EmptySet DEF Complete
  <2> QED BY <1>1, <2>1, <2>2
<1>4. CASE job.tool # "change_id"
  <2>1. DOMAIN answers \subseteq Targets /\ \A s \in DOMAIN answers : Origin(s) = s
    BY <1>1, <1>4 DEF Origin
  <2>2. Cardinality(DOMAIN answers) >= Len(job.ids)
    BY <1>4 DEF Complete, destinations
  <2>3. /\ IsFiniteSet(DOMAIN answers) /\ Cardinality(DOMAIN answers) <= Cardinality(Targets)
        /\ Cardinality(DOMAIN answers) = Cardinality(Targets) => DOMAIN answers = Targets
    BY <2>1, TargetsFinite, FS_Subset
  <2>4. Cardinality(DOMAIN answers) \in Nat
    BY <2>3, FS_CardinalityType
  <2>5. DOMAIN answers = Targets
    BY <2>2, <2>3, <2>4, TargetsFinite
  <2> QED BY <2>1, <2>5
<1> QED BY <1>3, <1>4

\* What was achieved when the pages are written, and by the commands of the configuration.
LEMMA WriteDone ==
  ASSUME TypeOK, ConfigInv, stage = "write", Complete, ~Fatal, Left, UNCHANGED <<job, memory>>
  PROVE  Reached("update")'
<1>1. SUFFICES ASSUME NEW b \in Targets, ~unheeded' PROVE class[b]
  BY DEF Reached, SameClass, memory, Targets
<1>2. PICK s \in DOMAIN answers : Origin(s) = b
  BY <1>1, Covered DEF Left, CommandStages
<1>3. answers[s].of = "write" /\ answers[s].code # "write_refused"
  BY <1>1, <1>2 DEF Left, Heeds, Fatal, CodesGiven
<1>4. ReplyTrue(s, answers[s])
  BY DEF ConfigInv, RepliesTrue
<1>5. b \in Boards
  BY TargetsAreIds
<1> QED BY <1>2, <1>3, <1>4, <1>5 DEF ReplyTrue, TypeOK

LEMMA UpdateDone ==
  ASSUME TypeOK, ConfigInv, stage = "update", Complete, Left, UNCHANGED <<job, memory>>
  PROVE  Reached("save")'
<1>1. Reached("update")'
  <2>1. Reached("update")
    BY DEF ConfigInv, StageTrue
  <2> QED BY <2>1, ToolStable, StableKeeps DEF Left
<1>2. SUFFICES ASSUME NEW b \in Targets, ~unheeded' PROVE Updated(b)
  BY <1>1 DEF Reached, Updated, memory, Targets, Left
<1>3. PICK s \in DOMAIN answers : Origin(s) = b
  BY <1>2, Covered DEF Left, CommandStages
<1>4. answers[s].of = "update" /\ answers[s].code = "success"
  BY <1>2, <1>3 DEF Left, Heeds
<1> QED BY <1>3, <1>4 DEF ConfigInv, RepliesTrue, ReplyTrue

LEMMA SaveDone ==
  ASSUME TypeOK, ConfigInv, stage = "save", Complete, Left, UNCHANGED <<job, memory>>
  PROVE  Reached("run")'
<1>1. Reached("save")'
  <2>1. Reached("save")
    BY DEF ConfigInv, StageTrue
  <2> QED BY <2>1, ToolStable, StableKeeps DEF Left
<1>2. SUFFICES ASSUME NEW b \in Targets, ~unheeded' PROVE Saved(b)
  BY <1>1 DEF Reached, Saved, memory, Targets, Left
<1>3. PICK s \in DOMAIN answers : Origin(s) = b
  BY <1>2, Covered DEF Left, CommandStages
<1>4. answers[s].of = "save" /\ answers[s].code = "success"
  BY <1>2, <1>3 DEF Left, Heeds
<1> QED BY <1>3, <1>4 DEF ConfigInv, RepliesTrue, ReplyTrue

\* The steps of the tool that neither send nor end a command of the configuration.
LEMMA EnumeratedStage ==
  ASSUME TypeOK, stage = "ping", NEW replies, Enumerated(replies)
  PROVE  StageTrue' /\ (answers' = NoAnswers \/ answers' = replies)
<1>1. stage' \in {"ping", "erase", "over"} /\ outcome' # "done"
  BY DEF TypeOK, Enumerated, Begin, End
<1>2. answers' = NoAnswers \/ answers' = replies
  BY DEF Enumerated, Begin, End
<1> QED BY <1>1, <1>2 DEF StageTrue, Reached

LEMMA FlashCommandDoneConfig ==
  ASSUME TypeOK, TypeOK', ConfigInv, FlashCommandDone
  PROVE  ConfigInv'
<1>1. /\ UNCHANGED <<job, rx, inbox, memory>> /\ stage \in {"erase", "write"}
      /\ Evaluate /\ outcome = "none"
  BY DEF FlashCommandDone, TypeOK
<1>2. unheeded => unheeded'
  BY <1>1 DEF Evaluate, Left
<1>3. answers' = NoAnswers
  BY <1>1 DEF Evaluate, Advance, Begin, End
<1>4. StageTrue'
  <2>1. CASE stage' \in {"erase", "write", "over"} /\ outcome' # "done"
    BY <2>1 DEF StageTrue, Reached
  <2>2. CASE ~Fatal /\ stage = "write" /\ Begin("update", 0) /\ Left
    <3>1. Complete
      BY <2>2 DEF FlashCommandDone, GiveUp
    <3>2. Reached("update")'
      BY <1>1, <2>2, <3>1, WriteDone
    <3>3. stage' = "update" /\ outcome' = "none"
      BY <1>1, <2>2 DEF Begin
    <3> QED BY <3>2, <3>3 DEF StageTrue, Reached
  <2>3. \/ stage' \in {"erase", "write", "over"} /\ outcome' # "done"
        \/ ~Fatal /\ stage = "write" /\ Begin("update", 0) /\ Left
    BY <1>1 DEF Evaluate, Advance, Begin, End
  <2> QED BY <2>1, <2>2, <2>3
<1> QED BY <1>1, <1>2, <1>3, <1>4, QuietKeepsConfig

LEMMA ConfigCommandDoneConfig ==
  ASSUME TypeOK, TypeOK', ConfigInv, ConfigCommandDone
  PROVE  ConfigInv'
<1>1. /\ UNCHANGED <<job, rx, inbox, memory>> /\ stage \in {"update", "save"} /\ outcome = "none"
  BY DEF ConfigCommandDone, TypeOK
<1>2. unheeded => unheeded'
  BY DEF ConfigCommandDone, Left
<1>3. answers' = NoAnswers
  BY DEF ConfigCommandDone, Advance, Begin, End
<1>4. StageTrue'
  <2>1. CASE End("aborted")
    BY <2>1 DEF StageTrue, Reached, End
  <2>2. CASE stage = "update" /\ Complete /\ Begin("save", 0) /\ Left
    <3>1. Reached("save")'
      BY <1>1, <2>2, UpdateDone
    <3>2. stage' = "save" /\ outcome' = "none"
      BY <1>1, <2>2 DEF Begin
    <3> QED BY <3>1, <3>2 DEF StageTrue, Reached
  <2>3. CASE stage = "save" /\ Complete /\ Left /\ stage' \in {"verify", "over"}
    <3>1. Reached("run")'
      BY <1>1, <2>3, SaveDone
    <3>2. Reached(stage)'
      BY <2>3, <3>1 DEF Reached
    <3> QED BY <3>1, <3>2 DEF StageTrue
  <2>4. \/ End("aborted")
        \/ stage = "update" /\ Complete /\ Begin("save", 0) /\ Left
        \/ stage = "save" /\ Complete /\ Left /\ stage' \in {"verify", "over"}
    BY <1>1 DEF ConfigCommandDone, Advance, Begin, End
  <2> QED BY <2>1, <2>2, <2>3, <2>4
<1> QED BY <1>1, <1>2, <1>3, <1>4, QuietKeepsConfig

LEMMA ToolConfig ==
  ASSUME TypeOK, TypeOK', ConfigInv, Tool
  PROVE  ConfigInv'
<1>1. CASE Ping
  BY <1>1, SendingKeepsConfig DEF Ping
<1>2. CASE PingAnswered
  BY <1>2, EnumeratedStage, QuietKeepsConfig DEF PingAnswered
<1>3. CASE PingTimedOut
  BY <1>3, EnumeratedStage, QuietKeepsConfig DEF PingTimedOut
<1>4. CASE Send
  BY <1>4, DestinationsAreTargets, SendingKeepsConfig DEF Send, Cleared, CommandStages
<1>5. CASE Receive
  <2>1. UNCHANGED <<job, stage, outcome, unheeded, memory>>
    BY <1>5 DEF Receive
  <2>2. StageTrue'
    BY <2>1 DEF ConfigInv, StageTrue, Reached, SameClass, Updated, Saved, Targets, memory
  <2> QED BY <1>5, <2>2, QuietKeepsConfig DEF Receive
<1>6. CASE Retry
  <2>1. timedout_boards \in SUBSET (Targets \cup {NewId})
    BY DestinationsAreTargets DEF timedout_boards
  <2> QED BY <1>6, <2>1, SendingKeepsConfig DEF Retry, TimedOut, CommandStages
<1>7. CASE FlashCommandDone
  BY <1>7, FlashCommandDoneConfig
<1>8. CASE ConfigCommandDone
  BY <1>8, ConfigCommandDoneConfig
<1>9. CASE Verify
  BY <1>9, SendingKeepsConfig DEF Verify
<1>10. CASE CheckReply
  <2>1. /\ UNCHANGED <<job, inbox, memory, unheeded>> /\ rx' = Tail(rx) /\ rx # <<>>
        /\ answers' = NoAnswers \/ answers' = answers
        /\ \/ stage' = "over" /\ outcome' = "crashed"
           \/ UNCHANGED <<stage, outcome>>
    BY <1>10 DEF CheckReply, End
  <2>2. StageTrue'
    <3>1. CASE stage' = "over" /\ outcome' = "crashed"
      BY <3>1 DEF StageTrue, Reached
    <3>2. CASE UNCHANGED <<stage, outcome>>
      BY <2>1, <3>2 DEF ConfigInv, StageTrue, Reached, SameClass, Updated, Saved, Targets, memory
    <3> QED BY <2>1, <3>1, <3>2
  <2> QED BY <2>1, <2>2, QuietKeepsConfig
<1>11. CASE Verified
  <2>1. /\ UNCHANGED <<job, inbox, memory, unheeded, rx>> /\ stage = "verify"
        /\ answers' = NoAnswers /\ stage' \in {"run", "over"}
    BY <1>11 DEF Verified, End, Begin
  <2>2. Reached("run")
    BY <2>1 DEF ConfigInv, StageTrue, Reached
  <2>3. Reached("run")'
    BY <2>1, <2>2, ToolStable, StableKeeps
  <2>4. StageTrue'
    BY <2>1, <2>3 DEF StageTrue, Reached
  <2> QED BY <2>1, <2>4, QuietKeepsConfig
<1>12. CASE Run
  BY <1>12, SendingKeepsConfig DEF Run, End
<1> QED BY <1>1, <1>2, <1>3, <1>4, <1>5, <1>6, <1>7, <1>8, <1>9, <1>10, <1>11, <1>12 DEF Tool

---------------------------------------------------------------------------
(* The boards, and their configuration *)

\* What a command may change of the configuration of board b.
Configures(b, command) ==
  /\ \A x \in Boards \ {b} : ram'[x] = ram[x] /\ saved'[x] = saved[x]
  /\ lapsed \subseteq lapsed'
  /\ \/ ram'[b] = ram[b] /\ saved'[b] = saved[b]
     \/ command.op = "update" /\ ram'[b] = "new" /\ saved'[b] = saved[b]
     \/ command.op = "save" /\ ram'[b] = ram[b] /\ (saved'[b] = ram[b] \/ b \in lapsed')
     \/ command.op = "run" /\ ram'[b] = saved[b] /\ saved'[b] = saved[b]

\* What its reply tells.
Tells(b, command) ==
  \/ rx' = rx
  \/ \E answer \in Answer :
       /\ rx' = Append(rx, [src |-> NodeId(b)', answer |-> answer])
       /\ answer.of = command.op
       /\ command.op = "write" /\ ~class[b] => answer.code = "write_refused"
       /\ command.op = "update" => ram'[b] = "new"
       /\ command.op = "save" /\ answer.code = "success" => saved'[b] = ram[b] \/ b \in lapsed'

LEMMA ExecuteTells ==
  ASSUME TypeOK, NEW b \in Boards, NEW command \in Command, Execute(b, command),
         UNCHANGED lapsed
  PROVE  Configures(b, command) /\ Tells(b, command)
<1>1. PICK code \in Codes :
        /\ \/ command.op = "erase" /\ Erased(b, command.page, code) /\ UNCHANGED <<ram, saved>>
           \/ command.op = "write" /\ Written(b, command.page, code) /\ UNCHANGED <<ram, saved>>
           \/ Config(b, command.op, code) /\ UNCHANGED flash
           \/ Reads(b, command, code) /\ UNCHANGED <<flash, ram, saved>>
        /\ Answers(b, [code |-> code, of |-> command.op, page |-> command.page])
  BY DEF Execute
<1> DEFINE answer == [code |-> code, of |-> command.op, page |-> command.page]
<1>2. answer \in Answer /\ answer.code = code /\ answer.of = command.op
  BY <1>1 DEF Answer, Command, Config, Reads, CommandStages
<1>3. Configures(b, command)
  BY <1>1 DEF Configures, Config, TypeOK
<1>4. /\ command.op = "write" /\ ~class[b] => code = "write_refused"
      /\ command.op = "update" => ram'[b] = "new"
      /\ command.op = "save" => saved'[b] = ram[b]
  BY <1>1 DEF Erased, Written, Config, Reads, TypeOK
<1>5. rx' = rx \/ rx' = Append(rx, [src |-> NodeId(b)', answer |-> answer])
  BY <1>1 DEF Answers
<1> HIDE DEF answer
<1> QED BY <1>2, <1>3, <1>4, <1>5 DEF Tells

LEMMA ExecuteBadlyTells ==
  ASSUME TypeOK, NEW b \in Boards, NEW command \in Command, ExecuteBadly(b, command),
         UNCHANGED client
  PROVE  Configures(b, command) /\ Tells(b, command)
<1>1. PICK code \in Codes :
        /\ \/ /\ \/ command.op = "erase" /\ EraseFails(b, command.page, code)
                 \/ command.op = "write" /\ WriteFails(b, command.page, code)
              /\ UNCHANGED <<saved, lapsed>>
           \/ command.op = "save" /\ SaveFails(b, code) /\ UNCHANGED flash
        /\ rx' = Append(rx, [src |-> NodeId(b),
                             answer |-> [code |-> code, of |-> command.op, page |-> command.page]])
        /\ Cost(1) /\ UNCHANGED ram
  BY DEF ExecuteBadly
<1> DEFINE answer == [code |-> code, of |-> command.op, page |-> command.page]
<1>2. answer \in Answer /\ answer.code = code /\ answer.of = command.op
  BY <1>1 DEF Answer, Command, CommandStages
<1>3. Configures(b, command)
  BY <1>1 DEF Configures, SaveFails, EraseFails, WriteFails, TypeOK
<1>4. /\ command.op \in {"erase", "write"} => class[b]
      /\ command.op # "update"
      /\ command.op = "save" => b \in lapsed'
  BY <1>1 DEF EraseFails, WriteFails, SaveFails
<1>5. rx' = Append(rx, [src |-> NodeId(b)', answer |-> answer])
  BY <1>1 DEF NodeId, client
<1> HIDE DEF answer
<1> QED BY <1>2, <1>3, <1>4, <1>5 DEF Tells

LEMMA BoardTells ==
  ASSUME TypeOK, NEW b \in Boards, Board(b)
  PROVE  LET command == Head(inbox[b])
         IN \/ Addressed(b, command) /\ Configures(b, command) /\ Tells(b, command)
            \/ UNCHANGED <<rx, ram, saved, lapsed>>
<1> DEFINE command == Head(inbox[b])
<1>1. command \in Command /\ UNCHANGED client
  BY BoardEffect DEF Board
<1>2. \/ Addressed(b, command) /\ Execute(b, command) /\ UNCHANGED lapsed
      \/ Addressed(b, command) /\ ExecuteBadly(b, command)
      \/ Addressed(b, command) /\ command.op = "run" /\ Jump(b) /\ UNCHANGED lapsed
      \/ UNCHANGED <<rx, ram, saved, lapsed>>
  BY DEF Board
<1> HIDE DEF command
<1>3. ASSUME command.op = "run", Jump(b), UNCHANGED lapsed PROVE Configures(b, command) /\ Tells(b, command)
  BY <1>3 DEF Jump, Configures, Tells, TypeOK
<1>4. \/ Addressed(b, command) /\ Configures(b, command) /\ Tells(b, command)
      \/ UNCHANGED <<rx, ram, saved, lapsed>>
  BY <1>1, <1>2, <1>3, ExecuteTells, ExecuteBadlyTells
<1> QED BY <1>4 DEF command

\* A board that a command is for, or whose ID changes, is one that the tool was told of.
LEMMA AddressedIsTarget ==
  ASSUME TypeOK, NEW b \in Boards, NEW command \in Command, Addressed(b, command),
         command.to \subseteq Targets \cup {NewId}, command.op # "damaged"
  PROVE  b \in Targets
BY FlashToolAssumption DEF Addressed, NodeId, Targets

LEMMA OriginOfNodeId ==
  ASSUME TypeOK, NEW b \in Boards, job' = job
  PROVE  /\ NodeId(b)' \in Boards \cup {NewId} /\ Origin(NodeId(b)') = b
         /\ NodeId(b)' = NewId => job.tool = "change_id"
<1>1. NodeId(b)' \in {NewId, b} /\ b # NewId
  BY FlashToolAssumption DEF NodeId
<1>2. ASSUME NodeId(b)' = NewId PROVE job.tool = "change_id" /\ b = job.ids[1]
  <2>1. job.tool = "change_id" /\ b \in ToSet(job.ids)
    BY <1>1, <1>2 DEF NodeId
  <2>2. Len(job.ids) = 1 /\ job.ids \in Seq(Boards)
    BY <2>1, FlashToolAssumption DEF TypeOK
  <2> QED BY <2>1, <2>2 DEF ToSet
<1> QED BY <1>1, <1>2 DEF Origin

LEMMA BoardConfig ==
  ASSUME TypeOK, ConfigInv, NEW b \in Boards, Board(b)
  PROVE  ConfigInv'
<1> DEFINE command == Head(inbox[b])
<1>1. /\ UNCHANGED <<client, class>>
      /\ UNCHANGED <<job, unheeded, stage, outcome, answers>>
      /\ inbox[b] # <<>> /\ inbox' = [inbox EXCEPT ![b] = Tail(@)]
  BY DEF Board, client
<1>2. command \in Command
  BY BoardEffect
<1>3. command.to \subseteq Targets \cup {NewId} /\ Reached(command.op)
  BY <1>1, InboxTail DEF ConfigInv, CommandsTrue
<1>4. \/ Addressed(b, command) /\ Configures(b, command) /\ Tells(b, command)
      \/ UNCHANGED <<rx, ram, saved, lapsed>>
  BY BoardTells
<1> HIDE DEF command
<1>5. command.op # "damaged" /\ Addressed(b, command) => b \in Targets
  BY <1>2, <1>3, AddressedIsTarget
<1>6. BoardsTrue'
  <2>1. ASSUME NEW x \in Boards
        PROVE  /\ saved'[x] = "new" => ram'[x] = "new" \/ x \in lapsed'
               /\ ~class[x] => (ram'[x] = "old" /\ saved'[x] = "old") \/ unheeded
    <3>1. /\ saved[x] = "new" => ram[x] = "new" \/ x \in lapsed
          /\ ~class[x] => (ram[x] = "old" /\ saved[x] = "old") \/ unheeded
      BY DEF ConfigInv, BoardsTrue
    <3>2. CASE ram'[x] = ram[x] /\ saved'[x] = saved[x] /\ lapsed \subseteq lapsed'
      BY <3>1, <3>2
    <3>3. CASE x = b /\ Addressed(b, command) /\ Configures(b, command)
      <4>1. command.op \in {"update", "save"} /\ ~class[b] => unheeded
        BY <1>3, <1>5, <3>3 DEF Reached, SameClass
      <4> QED BY <3>1, <3>3, <4>1 DEF Configures, TypeOK
    <3> QED BY <1>4, <3>2, <3>3 DEF Configures
  <2> QED BY <1>1, <2>1 DEF BoardsTrue
<1>7. Stable
  <2>1. ASSUME NEW x \in Boards
        PROVE  (Updated(x) => Updated(x)') /\ (Saved(x) => Saved(x)')
    <3>1. saved[x] = "new" => ram[x] = "new" \/ x \in lapsed
      BY DEF ConfigInv, BoardsTrue
    <3>2. CASE ram'[x] = ram[x] /\ saved'[x] = saved[x] /\ lapsed \subseteq lapsed'
      BY <1>1, <3>2 DEF Updated, Saved
    <3>3. CASE x = b /\ Addressed(b, command) /\ Configures(b, command)
      <4>1. command.op = "run" => Saved(b)
        BY <1>3, <1>5, <3>3 DEF Reached
      <4> QED BY <1>1, <3>1, <3>3, <4>1 DEF Configures, Updated, Saved
    <3> QED BY <1>4, <3>2, <3>3 DEF Configures
  <2> QED BY <1>1, <2>1 DEF Stable
<1>8. CommandsTrue'
  <2> SUFFICES ASSUME NEW x \in Boards, NEW i \in 1..Len(inbox'[x])
               PROVE  /\ inbox'[x][i].to \subseteq Targets' \cup {NewId}
                      /\ Reached(inbox[x][i].op)'
    BY DEF CommandsTrue
  <2>1. PICK k \in 1..Len(inbox[x]) : inbox'[x][i] = inbox[x][k]
    <3>1. CASE x = b
      BY <1>1, <3>1, InboxTail
    <3>2. CASE x # b
      BY <1>1, <3>2, InboxTail
    <3> QED BY <3>1, <3>2
  <2>2. PICK op : op = inbox[x][k].op
    OBVIOUS
  <2>3. inbox[x][k].to \subseteq Targets \cup {NewId} /\ Reached(op)
    BY <2>2 DEF ConfigInv, CommandsTrue
  <2>4. Targets' = Targets /\ Reached(op)'
    BY <1>7, <2>3, StableKeeps
  <2> QED BY <2>1, <2>2, <2>3, <2>4 DEF Reached, SameClass, Updated, Saved
<1>9. StageTrue'
  <2>1. \A s : Reached(s) => Reached(s)'
    BY <1>7, StableKeeps
  <2>2. Reached(stage)' /\ (outcome = "done" => Reached("run")')
    BY <1>1, <2>1 DEF ConfigInv, StageTrue, Reached, SameClass, Updated, Saved
  <2> QED BY <1>1, <2>2 DEF StageTrue
<1>10. \A s \in DOMAIN answers : ReplyTrue(s, answers[s])'
  <2> SUFFICES ASSUME NEW s \in DOMAIN answers PROVE ReplyTrue(s, answers[s])'
    OBVIOUS
  <2>1. s \in Boards \cup {NewId} /\ ReplyTrue(s, answers[s])
    BY DEF TypeOK, ConfigInv, RepliesTrue
  <2>2. PICK answer : answer = answers[s]
    OBVIOUS
  <2>3. ReplyTrue(s, answer)'
    BY <1>7, <2>1, <2>2, StableKeeps
  <2> QED BY <1>1, <2>2, <2>3 DEF ReplyTrue, Origin, Updated, Saved
<1>11. ASSUME NEW src \in Boards \cup {NewId}, NEW answer \in Answer,
              \E i \in 1..Len(rx) : rx[i].src = src /\ rx[i].answer = answer
       PROVE  ReplyTrue(src, answer)'
  <2>1. ReplyTrue(src, answer)
    BY <1>11 DEF ConfigInv, RepliesTrue
  <2> QED BY <1>7, <2>1, StableKeeps
<1>12. ASSUME NEW answer \in Answer, Addressed(b, command), NEW src, src = NodeId(b)',
              answer.of = command.op,
              command.op = "write" /\ ~class[b] => answer.code = "write_refused",
              command.op = "update" => ram'[b] = "new",
              command.op = "save" /\ answer.code = "success" => saved'[b] = ram[b] \/ b \in lapsed',
              lapsed \subseteq lapsed'
       PROVE  ReplyTrue(src, answer)'
  <2>1. src \in Boards \cup {NewId} /\ Origin(src) = b /\ (src = NewId => job.tool = "change_id")
    BY <1>1, <1>12, OriginOfNodeId
  <2>2. answer.of \in CommandStages => b \in Targets
    BY <1>5, <1>12 DEF CommandStages
  <2>3. answer.of = "update" => Updated(b)'
    BY <1>12 DEF Updated
  <2>4. answer.of = "save" /\ answer.code = "success" => Saved(b)'
    <3>1. command.op = "save" => Updated(b)
      BY <1>3, <1>5, <1>12 DEF Reached
    <3> QED BY <1>1, <1>12, <3>1 DEF Updated, Saved
  <2>5. Origin(src)' = b /\ Targets' = Targets
    BY <1>1, <2>1 DEF Origin, Targets
  <2> QED BY <1>1, <1>12, <2>1, <2>2, <2>3, <2>4, <2>5 DEF ReplyTrue
<1>13. \A i \in 1..Len(rx') : ReplyTrue(rx[i].src, rx[i].answer)'
  <2> SUFFICES ASSUME NEW i \in 1..Len(rx') PROVE ReplyTrue(rx[i].src, rx[i].answer)'
    OBVIOUS
  <2>1. rx \in Seq(Reply)
    BY DEF TypeOK
  <2>2. CASE \E j \in 1..Len(rx) : rx'[i] = rx[j]
    <3>1. PICK j \in 1..Len(rx) : rx'[i] = rx[j]
      BY <2>2
    <3>2. rx[j] \in Reply
      BY <2>1
    <3>3. PICK src \in Boards \cup {NewId}, answer \in Answer : src = rx[j].src /\ answer = rx[j].answer
      BY <3>2 DEF Reply
    <3>4. ReplyTrue(src, answer)'
      BY <1>11, <3>3
    <3> QED BY <3>1, <3>3, <3>4 DEF ReplyTrue, Origin, Updated, Saved
  <2>3. CASE rx' # rx /\ Addressed(b, command) /\ Tells(b, command) /\ i = Len(rx) + 1
    <3>1. PICK answer \in Answer :
            /\ rx' = Append(rx, [src |-> NodeId(b)', answer |-> answer])
            /\ answer.of = command.op
            /\ command.op = "write" /\ ~class[b] => answer.code = "write_refused"
            /\ command.op = "update" => ram'[b] = "new"
            /\ command.op = "save" /\ answer.code = "success" => saved'[b] = ram[b] \/ b \in lapsed'
      BY <2>3 DEF Tells
    <3>2. PICK src : src = NodeId(b)'
      OBVIOUS
    <3>3. ReplyTrue(src, answer)'
      <4>1. lapsed \subseteq lapsed'
        BY <1>4, <2>3 DEF Configures
      <4> QED BY <1>12, <2>3, <3>1, <3>2, <4>1
    <3>4. rx'[i].src = src /\ rx'[i].answer = answer
      BY <2>1, <2>3, <3>1, <3>2
    <3> QED BY <3>3, <3>4 DEF ReplyTrue, Origin, Updated, Saved
  <2>4. \/ \E j \in 1..Len(rx) : rx'[i] = rx[j]
        \/ rx' # rx /\ Addressed(b, command) /\ Tells(b, command) /\ i = Len(rx) + 1
    <3>1. CASE rx' = rx
      BY <3>1
    <3>2. ASSUME NEW reply, rx' = Append(rx, reply), rx' # rx
          PROVE  i = Len(rx) + 1 \/ \E j \in 1..Len(rx) : rx'[i] = rx[j]
      BY <2>1, <3>2
    <3> QED BY <1>4, <3>1, <3>2 DEF Tells
  <2> QED BY <2>2, <2>3, <2>4
<1>14. RepliesTrue'
  BY <1>1, <1>10, <1>13 DEF RepliesTrue
<1> QED BY <1>6, <1>8, <1>9, <1>14 DEF ConfigInv

LEMMA ResetConfig ==
  ASSUME TypeOK, ConfigInv, NEW b \in Boards, Reset(b)
  PROVE  ConfigInv'
<1>1. /\ UNCHANGED <<job, unheeded, stage, outcome, answers, rx, class, saved>>
      /\ inbox' = [inbox EXCEPT ![b] = <<>>] /\ ram' = [ram EXCEPT ![b] = saved[b]]
      /\ lapsed' = IF ram[b] # saved[b] THEN lapsed \cup {b} ELSE lapsed
  BY DEF Reset, client
<1>2. Stable
  BY <1>1 DEF TypeOK, Stable, Updated, Saved
<1>3. BoardsTrue'
  BY <1>1 DEF TypeOK, ConfigInv, BoardsTrue
<1>4. CommandsTrue'
  <2> SUFFICES ASSUME NEW x \in Boards, NEW i \in 1..Len(inbox'[x])
               PROVE  /\ inbox'[x][i].to \subseteq Targets' \cup {NewId}
                      /\ Reached(inbox[x][i].op)'
    BY DEF CommandsTrue
  <2>1. inbox'[x] = inbox[x]
    BY <1>1 DEF TypeOK
  <2>2. PICK op : op = inbox[x][i].op
    OBVIOUS
  <2>3. inbox[x][i].to \subseteq Targets \cup {NewId} /\ Reached(op)
    BY <2>1, <2>2 DEF ConfigInv, CommandsTrue
  <2>4. Targets' = Targets /\ Reached(op)'
    BY <1>2, <2>3, StableKeeps
  <2> QED BY <2>1, <2>2, <2>3, <2>4 DEF Reached, SameClass, Updated, Saved
<1>5. StageTrue'
  <2>1. \A s : Reached(s) => Reached(s)'
    BY <1>2, StableKeeps
  <2>2. Reached(stage)' /\ (outcome = "done" => Reached("run")')
    BY <1>1, <2>1 DEF ConfigInv, StageTrue, Reached, SameClass, Updated, Saved
  <2> QED BY <1>1, <2>2 DEF StageTrue
<1>6. \A src \in Boards \cup {NewId} : \A answer : ReplyTrue(src, answer) => ReplyTrue(src, answer)'
  BY <1>2, StableKeeps
<1>7. ASSUME NEW i \in 1..Len(rx) PROVE ReplyTrue(rx[i].src, rx[i].answer)'
  <2>1. rx[i] \in Reply
    BY DEF TypeOK
  <2>2. PICK src \in Boards \cup {NewId} : src = rx[i].src
    BY <2>1 DEF Reply
  <2>3. PICK answer : answer = rx[i].answer
    OBVIOUS
  <2>4. ReplyTrue(src, answer)'
    BY <1>6, <2>2, <2>3 DEF ConfigInv, RepliesTrue
  <2> QED BY <1>1, <2>2, <2>3, <2>4 DEF ReplyTrue, Origin, Updated, Saved
<1>8. ASSUME NEW s \in DOMAIN answers PROVE ReplyTrue(s, answers[s])'
  <2>1. PICK answer : answer = answers[s]
    OBVIOUS
  <2>2. ReplyTrue(s, answer)'
    BY <1>6, <2>1 DEF TypeOK, ConfigInv, RepliesTrue
  <2> QED BY <1>1, <2>1, <2>2 DEF ReplyTrue, Origin, Updated, Saved
<1>9. RepliesTrue'
  BY <1>1, <1>7, <1>8 DEF RepliesTrue
<1> QED BY <1>3, <1>4, <1>5, <1>9 DEF ConfigInv

---------------------------------------------------------------------------
(* The theorems about the configuration *)

LEMMA InitConfigInv == Init => ConfigInv
<1> SUFFICES ASSUME Init PROVE ConfigInv
  OBVIOUS
<1>1. RepliesTrue
  BY NoAnswersOK DEF Init, RepliesTrue
<1>2. CommandsTrue
  BY DEF Init, CommandsTrue
<1>3. BoardsTrue
  BY DEF Init, BoardsTrue
<1>4. StageTrue
  <2>1. stage = "update" => \A b \in Boards : class[b]
    BY DEF Init
  <2>2. Targets \subseteq Boards /\ stage \in {"ping", "update"} /\ outcome = "none"
    BY InitIInv, TargetsAreIds DEF IInv, Init
  <2> QED BY <2>1, <2>2 DEF StageTrue, Reached, SameClass
<1> QED BY <1>1, <1>2, <1>3, <1>4 DEF ConfigInv

LEMMA NextConfigInv == IInv /\ IInv' /\ ConfigInv /\ [Next]_vars => ConfigInv'
<1> SUFFICES ASSUME IInv, IInv', ConfigInv, [Next]_vars PROVE ConfigInv'
  OBVIOUS
<1>1. TypeOK /\ TypeOK'
  BY DEF IInv
<1>2. CASE Tool
  BY <1>1, <1>2, ToolConfig
<1>3. CASE \E b \in Boards : Board(b)
  BY <1>1, <1>3, BoardConfig
<1>4. CASE \E b \in Boards : Reset(b)
  BY <1>1, <1>4, ResetConfig
<1>5. CASE UNCHANGED vars
  BY <1>5 DEF ConfigInv, RepliesTrue, CommandsTrue, StageTrue, BoardsTrue, ReplyTrue, Reached,
              SameClass, Updated, Saved, Origin, Targets, vars, client, memory
<1> QED BY <1>2, <1>3, <1>4, <1>5 DEF Next

\* What the replies tell of the boards they are from, and what was achieved before a
\* command is on the bus, remains true, whatever is lost, late, counted for the wrong
\* command, or reset (utils.py:224-296, bootloader_flash.py:145-276, src/command.c:45-308).
THEOREM ConfigInvariant == Spec => []ConfigInv
<1>1. Init => IInv /\ ConfigInv
  BY InitIInv, InitConfigInv
<1>2. (IInv /\ ConfigInv) /\ [Next]_vars => (IInv /\ ConfigInv)'
  BY NextIInv, NextConfigInv
<1> QED BY <1>1, <1>2, PTL DEF Spec

\* When a tool reports success, its boards have saved their configuration, unless they
\* were reset before, or an answer was taken for one that it was not (utils.py:224-310,
\* bootloader_flash.py:262-276, change_id.py:13-40).
THEOREM ConfigSaved == Spec => []SavedWhenDone
<1>1. ConfigInv => SavedWhenDone
  BY DEF ConfigInv, StageTrue, Reached, Saved, SavedWhenDone
<1> QED BY <1>1, ConfigInvariant, PTL

\* A board of another device class keeps its configuration (src/command.c:244-249,
\* bootloader_flash.py:145-276), with the same exception.
THEOREM ClassKept == Spec => []WrongClassKeepsConfig
<1>1. ConfigInv => WrongClassKeepsConfig
  BY DEF ConfigInv, BoardsTrue, WrongClassKeepsConfig
<1> QED BY <1>1, ConfigInvariant, PTL
=============================================================================
