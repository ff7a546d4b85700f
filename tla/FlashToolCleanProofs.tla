------------------------- MODULE FlashToolCleanProofs -------------------------
(***************************************************************************)
(* Proved for any number of boards and pages: if nothing is lost, damaged, *)
(* late or broken, and there are no more boards than rounds of pings, the  *)
(* client's tools end with success, and the boards have saved their        *)
(* configuration.  But an image with a page that begins inside the last    *)
(* sector of the flash memory is not verified.                             *)
(***************************************************************************)
EXTENDS FlashToolProofs

Clean ==
  /\ faults = 0 /\ (\A b \in Boards : class[b])
  /\ ~Duplicates /\ Len(job.ids) <= ENUMERATION_RETRIES

\* The ID that the answers of board b have, and those of all boards the tool was told of.
Id(b) == IF job.tool = "change_id" THEN NewId ELSE b
Ids == {Id(b) : b \in Targets}

Pending(b) == inbox[b] # <<>>
Replying(b) == \E i \in 1..Len(rx) : rx[i].src = Id(b)

\* The boards whose answers were read.
Have == IF stage = "verify" THEN valid_nodes ELSE DOMAIN answers
Got(b) == Id(b) \in Have

Current == [op |-> stage, page |-> page, to |-> ToSet(destinations)]

Undamaged == \A b \in Boards : \A i \in 1..Len(inbox[b]) : inbox[b][i].op # "damaged"

\* The replies read in the enumeration: one in each round that ended, all of them news.
Rounds == IF waiting THEN retry_count - 1 ELSE retry_count
Missing == Len(job.ids) - Rounds

\* The replies to the first ping are enough for all rounds.
Enumeration ==
  stage = "ping" =>
    /\ retry_count <= ENUMERATION_RETRIES /\ (waiting => retry_count > 0)
    /\ DOMAIN answers \subseteq Targets /\ Cardinality(DOMAIN answers) = Rounds
    /\ ~(Targets \subseteq DOMAIN answers)
    /\ \A b \in Targets : inbox[b] \in {<<>>, <<Current>>}
    /\ \A i \in 1..Len(rx) : rx[i].src \in Targets
    /\ \A i \in 1..Len(rx) : i <= Missing =>
         /\ rx[i].src \notin DOMAIN answers
         /\ \A j \in 1..Len(rx) : j < i => rx[i].src # rx[j].src
    /\ retry_count = 0 => rx = <<>> /\ \A b \in Targets : ~Pending(b)
    /\ Len(rx) < Missing =>
         /\ retry_count <= 1
         /\ \A b \in Targets :
              /\ Pending(b) => ~Replying(b) /\ b \notin DOMAIN answers
              /\ retry_count = 1 => Pending(b) \/ Replying(b) \/ b \in DOMAIN answers

\* Is there an answer to be counted, that tells of success?
Counting == waiting /\ (stage \in CommandStages \/ (stage = "verify" /\ job.dropped = {}))

\* A command is on its way to a board, or its answer to the client, or it was read.
Exchange ==
  Counting =>
    /\ \A b \in Targets :
         /\ inbox[b] \in {<<>>, <<Current>>}
         /\ Pending(b) \/ Replying(b) \/ Got(b)
         /\ ~(Pending(b) /\ Replying(b)) /\ ~(Replying(b) /\ Got(b)) /\ ~(Pending(b) /\ Got(b))
    /\ \A i \in 1..Len(rx) :
         /\ rx[i].src \in Ids
         /\ rx[i].answer.code = (IF stage = "verify" THEN "crc_image" ELSE "success")
         /\ \A j \in 1..Len(rx) : j < i => rx[i].src # rx[j].src
    /\ Have \subseteq Ids
    /\ stage = "verify" => Cardinality(valid_nodes) = boards_checked
    /\ \A s \in DOMAIN answers : answers[s].code = "success"

\* No board answers that it holds the image when a page of it was not stored.
Unverified ==
  (stage = "verify" /\ waiting /\ job.dropped # {}) =>
    /\ \A b \in Targets : inbox[b] \in {<<>>, <<Current>>}
    /\ \A i \in 1..Len(rx) : rx[i].answer.code = "crc_other"
    /\ valid_nodes = {}

\* Only pings may be left over when a command is to be sent.
Between ==
  (stage \in CommandStages \cup {"verify", "run"} /\ ~waiting) =>
    /\ DOMAIN answers = {}
    /\ \/ /\ stage = "erase" /\ page = 1
          /\ \A b \in Targets : \A i \in 1..Len(inbox[b]) : inbox[b][i].op = "ping"
       \/ rx = <<>> /\ \A b \in Targets : ~Pending(b)

After ==
  stage = "over" =>
    /\ outcome = IF job.dropped = {} THEN "done" ELSE "not_verified"
    /\ \A b \in Targets : \A i \in 1..Len(inbox[b]) : inbox[b][i].op \in {"run", "verify"}

\* What a board that was told to write page q has there.
Wanted(q) == IF StoredPage(q) THEN "image" ELSE "blank"

AsTold(b) == \A q \in PageNumbers : flash[b][q] = Wanted(q)

\* What a board has done in stage s, page p, before or after it dealt with the command.
Worked(b, s, p, dealt) ==
  /\ s = "erase" => \A q \in PageNumbers : q < p \/ (q = p /\ dealt) => flash[b][q] = "blank"
  /\ s = "write" => \A q \in PageNumbers :
       flash[b][q] = IF q < p \/ (q = p /\ dealt) THEN Wanted(q) ELSE "blank"
  /\ (s \in {"update", "save", "verify", "run"} /\ job.tool = "flash") => AsTold(b)
  /\ (s = "update" /\ job.tool = "change_id" /\ ~dealt) => ram[b] = "old"
  /\ s = "save" \/ (s = "update" /\ dealt) => ram[b] = "new"
  /\ s \in {"verify", "run", "over"} \/ (s = "save" /\ dealt) => saved[b] = "new"

Progress == \A b \in Targets : Worked(b, stage, page, waiting /\ ~Pending(b))

Tools ==
  /\ stage \in {"ping", "erase", "write", "verify", "run"} => job.tool = "flash"
  /\ stage = "verify" /\ ~waiting => boards_checked = 0
  /\ stage \in {"ping"} \cup CommandStages => boards_checked = 0
  /\ stage = "verify" /\ ~waiting => valid_nodes = {}
  /\ stage = "run" => ~waiting /\ job.dropped = {}

CleanRun ==
  Undamaged /\ Enumeration /\ Exchange /\ Unverified /\ Between /\ After /\ Progress /\ Tools

CleanInv == Clean => CleanRun

\* A board that did as it was told holds the image, unless a page of it is not stored.
LEMMA AsToldHolds ==
  ASSUME TypeOK, NEW b, AsTold(b)
  PROVE  Holds(b) <=> job.dropped = {}
<1>1. job.dropped \subseteq PageNumbers
  BY FlashToolAssumption DEF TypeOK, PageNumbers
<1> QED BY <1>1 DEF AsTold, Holds, Wanted, StoredPage

\* What a clean step costs.
LEMMA NoCost ==
  ASSUME TypeOK, NEW n \in Nat, Cost(n), faults' = 0
  PROVE  faults = 0 /\ n = 0
BY FlashToolAssumption DEF TypeOK, Cost

LEMMA NotLate ==
  ASSUME TypeOK, Cost(Late), faults' = 0
  PROVE  \A b \in Boards : inbox[b] = <<>>
<1>1. Late = 0
  BY NoCost, LateNat
<1> QED BY <1>1 DEF Late

LEMMA CleanDelivery ==
  ASSUME TypeOK, NEW to, write_command(to), faults' = 0
  PROVE  \A b \in Boards :
           inbox[b] = <<>> /\ inbox'[b] = <<[op |-> stage, page |-> page, to |-> to]>>
<1> DEFINE command == [op |-> stage, page |-> page, to |-> to]
           damaged == [op |-> "damaged", page |-> 0, to |-> {}]
<1>1. PICK arrives \in SUBSET Boards, garbled \in SUBSET Boards :
        /\ arrives \cap garbled = {}
        /\ inbox' = [b \in Boards |->
                       CASE b \in arrives -> Append(inbox[b], command)
                         [] b \in garbled -> Append(inbox[b], damaged)
                         [] OTHER -> inbox[b]]
        /\ Cost(Late + Cardinality(Boards \ arrives))
  BY DEF write_command
<1> HIDE DEF command, damaged
<1>2. Late = 0 /\ Cardinality(Boards \ arrives) = 0
  <2>1. Late \in Nat /\ Cardinality(Boards \ arrives) \in Nat
    BY LateNat, LossesNat
  <2>2. Late + Cardinality(Boards \ arrives) = 0
    BY <1>1, <2>1, NoCost
  <2> QED BY <2>1, <2>2
<1>3. arrives = Boards
  <2>1. IsFiniteSet(Boards \ arrives)
    BY FlashToolAssumption, FS_Difference
  <2>2. Boards \ arrives = {}
    BY <1>2, <2>1, FS_EmptySet
  <2> QED BY <2>2
<1>4. \A b \in Boards : inbox[b] = <<>>
  BY <1>2 DEF Late
<1>5. \A b \in Boards : inbox'[b] = Append(inbox[b], command)
  BY <1>1, <1>3
<1>6. \A b \in Boards : inbox'[b] = <<command>>
  BY <1>4, <1>5
<1> QED BY <1>4, <1>6 DEF command

\* What went wrong cannot be undone.
LEMMA CleanBefore ==
  ASSUME TypeOK, [Next]_vars, Clean'
  PROVE  Clean
<1>1. UNCHANGED <<job, class>>
  BY DEF Next, Tool, Ping, PingAnswered, PingTimedOut, Send, Receive, Retry, FlashCommandDone,
         ConfigCommandDone, Verify, CheckReply, Verified, Run, Board, Reset, vars, client, memory
<1>2. faults = 0
  <2>1. \/ faults' = faults
        \/ \E n \in Nat : Cost(n)
    <3>1. Late \in Nat
      BY LateNat
    <3>2. ASSUME NEW to, write_command(to) PROVE \E n \in Nat : Cost(n)
      <4>1. PICK arrives \in SUBSET Boards : Cost(Late + Cardinality(Boards \ arrives))
        BY <3>2 DEF write_command
      <4>2. Late + Cardinality(Boards \ arrives) \in Nat
        BY <3>1, LossesNat
      <4> QED BY <4>1, <4>2
    <3>3. CASE Ping \/ Send \/ Retry \/ Verify \/ Run
      BY <3>2, <3>3 DEF Ping, Send, Retry, Verify, Run
    <3>4. CASE PingAnswered \/ PingTimedOut \/ Receive \/ CheckReply \/ Verified
      BY <3>1, <3>4 DEF PingAnswered, PingTimedOut, Receive, CheckReply, Verified
    <3>5. CASE FlashCommandDone \/ ConfigCommandDone
      BY <3>1, <3>5 DEF FlashCommandDone, ConfigCommandDone
    <3>6. CASE \E b \in Boards : Board(b) \/ Reset(b)
      BY <3>6 DEF Board, Reset, Execute, ExecuteBadly, Jump, Answers
    <3>7. CASE UNCHANGED vars
      BY <3>7 DEF vars
    <3> QED BY <3>3, <3>4, <3>5, <3>6, <3>7 DEF Next, Tool
  <2>2. faults' = 0
    BY DEF Clean
  <2> QED BY <2>1, <2>2, NoCost
<1> QED BY <1>1, <1>2 DEF Clean, Duplicates, Targets

\* The answers of two boards are told apart, and there are as many as boards were named.
LEMMA IdsCounted ==
  ASSUME TypeOK, ~Duplicates
  PROVE  /\ IsFiniteSet(Ids) /\ Cardinality(Ids) = Len(job.ids)
         /\ Len(destinations) = Len(job.ids) /\ Len(job.ids) \in Nat \ {0}
         /\ \A b, c \in Targets : Id(b) = Id(c) => b = c
         /\ job.tool # "change_id" => Ids = Targets /\ \A b \in Targets : Id(b) = b
         /\ Cardinality(Targets) = Len(job.ids) /\ IsFiniteSet(Targets)
<1>1. /\ IsFiniteSet(Targets) /\ Cardinality(Targets) = Len(job.ids)
      /\ Len(job.ids) \in Nat \ {0}
  BY TargetsFinite DEF Duplicates
<1>2. CASE job.tool = "change_id"
  <2>1. Len(job.ids) = 1 /\ job.ids \in Seq(Boards)
    BY <1>2, FlashToolAssumption DEF TypeOK
  <2>2. Targets = {job.ids[1]} /\ Ids = {NewId}
    <3>1. Targets = {job.ids[1]}
      BY <2>1 DEF Targets, ToSet
    <3> QED BY <1>2, <3>1 DEF Ids, Id
  <2>3. IsFiniteSet({NewId}) /\ Cardinality({NewId}) = 1
    BY FS_Singleton
  <2>4. Len(destinations) = 1
    BY <2>1 DEF destinations
  <2> QED BY <1>1, <1>2, <2>1, <2>2, <2>3, <2>4
<1>3. CASE job.tool # "change_id"
  <2>1. Ids = Targets /\ (\A b \in Targets : Id(b) = b) /\ destinations = job.ids
    BY <1>3 DEF Ids, Id, destinations
  <2> QED BY <1>1, <1>3, <2>1
<1> QED BY <1>2, <1>3

\* If there are as many answers as boards, nothing is on its way.
LEMMA AllGot ==
  ASSUME TypeOK, ~Duplicates, Exchange, Counting,
         Cardinality(Have) >= Len(job.ids)
  PROVE  Have = Ids /\ rx = <<>> /\ \A b \in Targets : ~Pending(b)
<1>1. Have \subseteq Ids
  BY DEF Exchange
<1>2. Have = Ids
  <2>1. /\ IsFiniteSet(Have) /\ Cardinality(Have) <= Cardinality(Ids)
        /\ Cardinality(Have) = Cardinality(Ids) => Have = Ids
    BY <1>1, IdsCounted, FS_Subset
  <2>2. Cardinality(Have) \in Nat
    BY <2>1, FS_CardinalityType
  <2> QED BY <2>1, <2>2, IdsCounted
<1>3. \A b \in Targets : Got(b)
  BY <1>2 DEF Got, Ids
<1>4. \A b \in Targets : ~Pending(b) /\ ~Replying(b)
  BY <1>3 DEF Exchange
<1>5. rx = <<>>
  <2> SUFFICES ASSUME rx # <<>> PROVE FALSE
    OBVIOUS
  <2>1. 1 \in 1..Len(rx)
    BY DEF TypeOK
  <2>2. PICK b \in Targets : rx[1].src = Id(b)
    BY <2>1 DEF Exchange, Ids
  <2> QED BY <1>4, <2>1, <2>2 DEF Replying
<1> QED BY <1>2, <1>4, <1>5

\* If nothing is on its way, there are as many answers as boards.
LEMMA NobodyMissing ==
  ASSUME TypeOK, ~Duplicates, Exchange, Counting,
         rx = <<>>, \A b \in Boards : inbox[b] = <<>>
  PROVE  Have = Ids /\ Cardinality(Have) = Len(job.ids)
<1>1. \A b \in Targets : ~Pending(b) /\ ~Replying(b)
  BY TargetsAreIds DEF Pending, Replying
<1>2. \A b \in Targets : Got(b)
  BY <1>1 DEF Exchange
<1>3. Have = Ids
  <2>1. Have \subseteq Ids
    BY DEF Exchange
  <2>2. Ids \subseteq Have
    BY <1>2 DEF Ids, Got
  <2> QED BY <2>1, <2>2
<1> QED BY <1>3, IdsCounted

LEMMA WorkedKept ==
  ASSUME UNCHANGED <<job, memory>>
  PROVE  \A b, s, p, dealt : Worked(b, s, p, dealt) => Worked(b, s, p, dealt)'
BY DEF Worked, AsTold, Wanted, StoredPage, memory

LEMMA IdsKept ==
  ASSUME UNCHANGED job
  PROVE  Targets' = Targets /\ Ids' = Ids /\ \A b : Id(b)' = Id(b)
BY DEF Targets, Ids, Id

---------------------------------------------------------------------------
(* Clean steps that send *)

LEMMA ExchangeBegins ==
  ASSUME TypeOK, TypeOK', Clean', CleanRun, stage \in CommandStages \cup {"verify"}, ~waiting,
         write_command(ToSet(destinations)), rx' = <<>>, waiting' = TRUE,
         UNCHANGED <<job, stage, page, answers, boards_checked, valid_nodes, outcome, memory>>
  PROVE  CleanRun'
<1>1. stage \notin {"ping", "run", "over"}
  BY DEF CommandStages
<1>2. /\ Targets' = Targets /\ Targets \subseteq Boards /\ destinations' = destinations
      /\ \A b : Id(b)' = Id(b)
  BY IdsKept, TargetsAreIds DEF destinations
<1>3. Current' = Current /\ Current.op = stage
  BY <1>2 DEF Current
<1>4. \A b \in Boards : inbox'[b] = <<Current>>
  BY CleanDelivery DEF Clean, Current
<1>5. Undamaged'
  BY <1>3, <1>4, <1>1 DEF Undamaged, CommandStages
<1>6. Have' = {} /\ DOMAIN answers' = {} /\ (stage = "verify" => valid_nodes = {} /\ boards_checked = 0)
  BY DEF CleanRun, Between, Tools, Have
<1>7. Exchange'
  <2>1. ASSUME NEW b \in Targets
        PROVE  inbox'[b] = <<Current>> /\ inbox'[b] # <<>>
    BY <1>2, <1>4
  <2>2. \A b : ~Got(b)' /\ ~Replying(b)'
    BY <1>6 DEF Got, Replying
  <2>3. stage' = "verify" => Cardinality(valid_nodes') = boards_checked'
    BY <1>6, FS_EmptySet
  <2>4. /\ \A b \in Targets' : inbox'[b] \in {<<>>, <<Current'>>}
        /\ \A b \in Targets' : Pending(b)'
    BY <1>2, <1>3, <2>1 DEF Pending
  <2>5. \A i \in 1..Len(rx') : FALSE
    OBVIOUS
  <2>6. Have' \subseteq Ids' /\ \A s \in DOMAIN answers' : FALSE
    BY <1>6
  <2> QED BY <2>2, <2>3, <2>4, <2>5, <2>6 DEF Exchange, Counting
<1>10. Unverified'
  <2>1. \A b \in Targets' : inbox'[b] \in {<<>>, <<Current'>>}
    <3> HIDE DEF Current
    <3> QED BY <1>2, <1>3, <1>4
  <2>2. stage' = "verify" => valid_nodes' = {}
    BY <1>6
  <2>3. \A i \in 1..Len(rx') : FALSE
    OBVIOUS
  <2> QED BY <2>1, <2>2, <2>3 DEF Unverified
<1>8. Progress'
  <2>1. \A b \in Targets : Worked(b, stage, page, FALSE)'
    BY WorkedKept DEF CleanRun, Progress
  <2>2. \A b \in Targets : Pending(b)'
    BY <1>2, <1>4 DEF Pending
  <2> QED BY <1>2, <2>1, <2>2 DEF Progress
<1>9. Tools'
  BY <1>1 DEF CleanRun, Tools
<1> QED BY <1>1, <1>5, <1>7, <1>8, <1>9, <1>10 DEF CleanRun, Enumeration, Between, After

LEMMA SendClean ==
  ASSUME TypeOK, TypeOK', Clean', CleanRun, Send
  PROVE  CleanRun'
BY ExchangeBegins DEF Send, Cleared

LEMMA VerifyClean ==
  ASSUME TypeOK, TypeOK', Clean', CleanRun, Verify
  PROVE  CleanRun'
<1>1. destinations = job.ids /\ ToSet(destinations) = Targets
  BY DEF Verify, destinations, Targets
<1>2. rx = <<>>
  BY DEF Verify, CleanRun, Between
<1> QED BY <1>1, <1>2, ExchangeBegins DEF Verify

LEMMA RunClean ==
  ASSUME TypeOK, TypeOK', Clean', CleanRun, Run
  PROVE  CleanRun'
<1>1. /\ UNCHANGED <<job, memory>> /\ stage = "run" /\ stage' = "over" /\ outcome' = "done"
      /\ write_command(Targets)
  BY DEF Run, End
<1>2. Targets' = Targets /\ Targets \subseteq Boards
  BY <1>1, IdsKept, TargetsAreIds
<1> DEFINE command == [op |-> stage, page |-> page, to |-> Targets]
<1>3. command.op = "run"
  BY <1>1
<1>4. \A b \in Boards : inbox'[b] = <<command>>
  BY <1>1, CleanDelivery DEF Clean
<1> HIDE DEF command
<1>5. Undamaged' /\ After'
  BY <1>1, <1>2, <1>3, <1>4 DEF Undamaged, After, CleanRun, Tools
<1>6. Progress'
  <2>1. \A b \in Targets : saved[b] = "new"
    BY <1>1 DEF CleanRun, Progress, Worked
  <2> QED BY <1>1, <1>2, <2>1 DEF Progress, Worked, memory
<1> QED BY <1>1, <1>5, <1>6
        DEF CleanRun, Enumeration, Exchange, Counting, Unverified, Between, Tools, CommandStages

LEMMA RetryClean ==
  ASSUME TypeOK, Clean', Clean, CleanRun, Retry
  PROVE  FALSE
<1>1. /\ stage \in CommandStages /\ waiting /\ ~Complete /\ rx = <<>>
      /\ write_command(timedout_boards)
  BY DEF Retry, TimedOut
<1>2. \A b \in Boards : inbox[b] = <<>>
  BY <1>1, CleanDelivery DEF Clean
<1>3. Cardinality(Have) = Len(job.ids)
  BY <1>1, <1>2, NobodyMissing DEF Clean, CleanRun, Counting
<1>4. Cardinality(DOMAIN answers) = Len(destinations)
  BY <1>1, <1>3, IdsCounted DEF Clean, Have, CommandStages
<1> QED BY <1>1, <1>4, IdsCounted DEF Complete, Clean

LEMMA GiveUpClean ==
  ASSUME TypeOK, Clean', Clean, CleanRun, stage \in CommandStages, waiting, GiveUp, Cost(Late)
  PROVE  FALSE
<1>1. ~Complete /\ rx = <<>>
  BY DEF GiveUp, TimedOut
<1>2. \A b \in Boards : inbox[b] = <<>>
  BY NotLate DEF Clean
<1>3. Cardinality(Have) = Len(job.ids)
  BY <1>1, <1>2, NobodyMissing DEF Clean, CleanRun, Counting
<1>4. Cardinality(DOMAIN answers) = Len(destinations)
  BY <1>3, IdsCounted DEF Clean, Have, CommandStages
<1> QED BY <1>1, <1>4, IdsCounted DEF Complete, Clean

---------------------------------------------------------------------------
(* Clean steps that read a reply *)

LEMMA TailOfRx ==
  ASSUME TypeOK, rx # <<>>, rx' = Tail(rx)
  PROVE  /\ 1 \in 1..Len(rx) /\ Head(rx) = rx[1] /\ Len(rx') = Len(rx) - 1 /\ Len(rx) \in Nat
         /\ \A i \in 1..Len(rx') : i + 1 \in 1..Len(rx) /\ 1 < i + 1 /\ rx'[i] = rx[i + 1]
         /\ \A i \in 1..Len(rx) : i # 1 => i - 1 \in 1..Len(rx') /\ rx'[i - 1] = rx[i]
BY DEF TypeOK

LEMMA ReplyRead ==
  ASSUME TypeOK, Clean, CleanRun, Counting,
         rx # <<>>, rx' = Tail(rx), waiting' = TRUE,
         UNCHANGED <<job, stage, page, inbox, memory, outcome>>,
         Have' = Have \cup {Head(rx).src},
         \A s \in DOMAIN answers' : answers'[s].code = "success",
         stage = "verify" => Cardinality(valid_nodes') = boards_checked',
         stage # "verify" => boards_checked' = 0
  PROVE  CleanRun'
<1>1. /\ stage \notin {"ping", "run", "over"} /\ ~Duplicates /\ waiting
      /\ stage = "verify" => job.dropped = {}
  BY DEF Counting, CommandStages, Clean
<1>2. /\ Targets' = Targets /\ Ids' = Ids /\ destinations' = destinations
      /\ \A b : Id(b)' = Id(b)
  BY IdsKept DEF destinations
<1>3. Current' = Current /\ \A b : Pending(b)' = Pending(b)
  BY <1>2 DEF Current, Pending
<1> DEFINE src == rx[1].src
<1>4. /\ src \in Ids /\ Have' = Have \cup {src}
      /\ \A b : Id(b) = src => Replying(b)
  BY TailOfRx DEF CleanRun, Exchange, Replying
<1>5. \A i \in 1..Len(rx') : rx'[i].src # src
  BY TailOfRx DEF CleanRun, Exchange
<1>6. ASSUME NEW b \in Targets
      PROVE  /\ Replying(b)' => Replying(b) /\ Id(b) # src
             /\ Replying(b) /\ Id(b) # src => Replying(b)'
             /\ Got(b)' <=> Got(b) \/ Id(b) = src
  <2>1. ASSUME Replying(b)' PROVE Replying(b) /\ Id(b) # src
    <3>1. PICK i \in 1..Len(rx') : rx'[i].src = Id(b)
      BY <1>2, <2>1 DEF Replying
    <3>2. i + 1 \in 1..Len(rx) /\ rx[i + 1].src = Id(b)
      BY <3>1, TailOfRx
    <3> QED BY <1>5, <3>1, <3>2 DEF Replying
  <2>2. ASSUME Replying(b), Id(b) # src PROVE Replying(b)'
    <3>1. PICK i \in 1..Len(rx) : rx[i].src = Id(b)
      BY <2>2 DEF Replying
    <3>2. i # 1
      BY <2>2, <3>1
    <3>3. i - 1 \in 1..Len(rx') /\ rx'[i - 1].src = Id(b)
      BY <3>1, <3>2, TailOfRx
    <3> QED BY <1>2, <3>3 DEF Replying
  <2>3. Got(b)' <=> Got(b) \/ Id(b) = src
    BY <1>2, <1>4 DEF Got
  <2> QED BY <2>1, <2>2, <2>3
<1> HIDE DEF src
<1>7. Exchange'
  <2>1. ASSUME NEW b \in Targets
        PROVE  /\ inbox'[b] \in {<<>>, <<Current'>>}
               /\ Pending(b)' \/ Replying(b)' \/ Got(b)'
               /\ ~(Pending(b)' /\ Replying(b)') /\ ~(Replying(b)' /\ Got(b)')
               /\ ~(Pending(b)' /\ Got(b)')
    <3>1. /\ inbox[b] \in {<<>>, <<Current>>}
          /\ Pending(b) \/ Replying(b) \/ Got(b)
          /\ ~(Pending(b) /\ Replying(b)) /\ ~(Replying(b) /\ Got(b)) /\ ~(Pending(b) /\ Got(b))
      BY DEF CleanRun, Exchange
    <3>2. inbox'[b] \in {<<>>, <<Current'>>}
      BY <1>3, <3>1
    <3> QED BY <1>3, <1>4, <1>6, <3>1, <3>2
  <2>2. ASSUME NEW i \in 1..Len(rx')
        PROVE  /\ rx'[i].src \in Ids'
               /\ rx'[i].answer.code = (IF stage = "verify" THEN "crc_image" ELSE "success")
               /\ \A j \in 1..Len(rx') : j < i => rx'[i].src # rx'[j].src
    <3>1. i + 1 \in 1..Len(rx) /\ rx'[i] = rx[i + 1]
      BY TailOfRx
    <3>2. rx'[i].src \in Ids'
      BY <1>2, <3>1 DEF CleanRun, Exchange
    <3>3. rx'[i].answer.code = (IF stage = "verify" THEN "crc_image" ELSE "success")
      BY <3>1 DEF CleanRun, Exchange
    <3>4. ASSUME NEW j \in 1..Len(rx'), j < i PROVE rx'[i].src # rx'[j].src
      <4>1. j + 1 \in 1..Len(rx) /\ rx'[j] = rx[j + 1] /\ j + 1 < i + 1
        BY <3>4, TailOfRx
      <4> QED BY <3>1, <4>1 DEF CleanRun, Exchange
    <3> QED BY <3>2, <3>3, <3>4
  <2>3. Have' \subseteq Ids'
    BY <1>2, <1>4 DEF CleanRun, Exchange
  <2> QED BY <1>2, <2>1, <2>2, <2>3 DEF Exchange
<1>8. Progress'
  BY <1>1, <1>2, <1>3, WorkedKept DEF CleanRun, Progress
<1>9. Undamaged' /\ Tools'
  BY <1>1 DEF CleanRun, Undamaged, Tools, CommandStages
<1> QED BY <1>1, <1>7, <1>8, <1>9 DEF CleanRun, Enumeration, Unverified, Between, After

LEMMA ReceiveClean ==
  ASSUME TypeOK, Clean, CleanRun, Receive
  PROVE  CleanRun'
<1>1. /\ stage \in CommandStages /\ stage # "verify" /\ waiting' = TRUE /\ Counting
      /\ rx # <<>> /\ rx' = Tail(rx)
      /\ UNCHANGED <<job, stage, page, inbox, memory, outcome, boards_checked>>
  BY DEF Receive, Counting, CommandStages, TypeOK
<1>2. Have' = Have \cup {Head(rx).src}
  BY <1>1 DEF Have, Receive, Remember
<1>3. \A s \in DOMAIN answers' : answers'[s].code = "success"
  <2>1. Head(rx).answer.code = "success"
    BY <1>1, TailOfRx DEF CleanRun, Exchange
  <2>2. \A s \in DOMAIN answers : answers[s].code = "success"
    BY <1>1 DEF CleanRun, Exchange
  <2> QED BY <2>1, <2>2 DEF Receive, Remember
<1>4. boards_checked' = 0
  BY <1>1 DEF CleanRun, Tools
<1> QED BY <1>1, <1>2, <1>3, <1>4, ReplyRead

LEMMA CheckReplyClean ==
  ASSUME TypeOK, Clean, CleanRun, CheckReply, job.dropped = {}
  PROVE  CleanRun'
<1>1. /\ stage = "verify" /\ waiting /\ rx # <<>> /\ rx' = Tail(rx) /\ Counting
      /\ UNCHANGED <<job, inbox, memory>>
  BY DEF CheckReply, Counting
<1>2. Head(rx) = rx[1] /\ 1 \in 1..Len(rx)
  BY <1>1, TailOfRx
<1>3. Head(rx).answer.code = "crc_image" /\ Head(rx).src \in Ids
  BY <1>1, <1>2 DEF CleanRun, Exchange
<1>4. /\ boards_checked' = boards_checked + 1 /\ valid_nodes' = valid_nodes \cup {Head(rx).src}
      /\ UNCHANGED <<stage, page, waiting, answers, outcome>>
  BY <1>3 DEF CheckReply, Valid
<1>5. PICK b \in Targets : Id(b) = Head(rx).src
  BY <1>3 DEF Ids
<1>6. Head(rx).src \notin valid_nodes
  <2>1. Replying(b)
    BY <1>2, <1>5 DEF Replying
  <2> QED BY <1>1, <1>5, <2>1 DEF CleanRun, Exchange, Got, Have
<1>7. Cardinality(valid_nodes') = boards_checked'
  <2>1. IsFiniteSet(valid_nodes)
    <3>1. valid_nodes \subseteq Ids
      BY <1>1 DEF CleanRun, Exchange, Have
    <3> QED BY <3>1, IdsCounted, FS_Subset DEF Clean
  <2>2. Cardinality(valid_nodes \cup {Head(rx).src}) = Cardinality(valid_nodes) + 1
    BY <1>6, <2>1, FS_AddElement
  <2> QED BY <1>1, <1>4, <2>2 DEF CleanRun, Exchange
<1>8. Have' = Have \cup {Head(rx).src}
  BY <1>1, <1>4 DEF Have
<1>9. \A s \in DOMAIN answers' : answers'[s].code = "success"
  BY <1>1, <1>4 DEF CleanRun, Exchange
<1> QED BY <1>1, <1>4, <1>7, <1>8, <1>9, ReplyRead

LEMMA CheckReplyUnverified ==
  ASSUME TypeOK, CleanRun, CheckReply, job.dropped # {}
  PROVE  CleanRun'
<1>1. /\ stage = "verify" /\ waiting /\ rx # <<>> /\ rx' = Tail(rx)
      /\ UNCHANGED <<job, inbox, memory>> /\ Unverified
  BY DEF CheckReply, CleanRun
<1>2. Head(rx).answer.code = "crc_other"
  BY <1>1, TailOfRx DEF Unverified
<1>3. valid_nodes' = {} /\ UNCHANGED <<stage, page, waiting, answers, outcome>>
  BY <1>1, <1>2 DEF CheckReply, Valid, Unverified
<1>4. Targets' = Targets /\ Current' = Current /\ \A b : Pending(b)' = Pending(b)
  BY <1>1, <1>3, IdsKept DEF Current, destinations, Pending
<1>5. \A i \in 1..Len(rx') : rx'[i].answer.code = "crc_other"
  BY <1>1, TailOfRx DEF Unverified
<1>6. Unverified'
  BY <1>1, <1>3, <1>4, <1>5 DEF Unverified
<1>7. Progress'
  BY <1>1, <1>3, <1>4, WorkedKept DEF CleanRun, Progress
<1>8. Undamaged' /\ Tools'
  BY <1>1, <1>3 DEF CleanRun, Undamaged, Tools, CommandStages
<1> QED BY <1>1, <1>3, <1>6, <1>7, <1>8
        DEF CleanRun, Enumeration, Exchange, Counting, Between, After, CommandStages

---------------------------------------------------------------------------
(* Clean ends of a command *)

\* When a command is done, the tool goes on, and there is nothing left of it.
LEMMA AdvanceClean ==
  ASSUME IInv, Clean, CleanRun, stage \in CommandStages, waiting, Advance,
         rx = <<>>, \A b \in Targets : ~Pending(b),
         UNCHANGED <<job, rx, inbox, memory>>
  PROVE  CleanRun'
<1>1. Targets' = Targets /\ \A b : Pending(b)' = Pending(b)
  BY IdsKept DEF Pending
<1>2. page \in 0..Pages /\ outcome = "none"
  BY DEF IInv, TypeOK, CommandStages
<1>3. /\ waiting' = FALSE /\ DOMAIN answers' = {} /\ boards_checked' = 0 /\ valid_nodes' = {}
      /\ stage' \in CommandStages \cup {"verify", "over"}
      /\ stage' \in {"erase", "write"} => stage \in {"erase", "write"}
      /\ stage' = "verify" => job.tool = "flash"
      /\ stage' = "over" => outcome' = "done" /\ job.dropped = {}
  BY NoAnswersOK, FlashToolAssumption
     DEF TypeOK, Advance, Begin, End, IInv, NotYetVerified, CleanRun, Tools, CommandStages
<1>4. Progress'
  <2>1. ASSUME NEW b \in Targets PROVE Worked(b, stage', page', FALSE)
    <3>1. Worked(b, stage, page, TRUE)
      BY DEF CleanRun, Progress
    <3>2. \A q \in PageNumbers : q \in 1..Pages /\ ~(q < 1)
      BY DEF PageNumbers
    <3>3. CASE stage = "erase" /\ page < Pages /\ Begin("erase", page + 1)
      BY <1>2, <3>1, <3>2, <3>3, FlashToolAssumption DEF Worked, Begin
    <3>4. CASE stage = "erase" /\ page = Pages /\ Begin("write", 1)
      BY <1>2, <3>1, <3>2, <3>4, FlashToolAssumption DEF Worked, Begin
    <3>5. CASE stage = "write" /\ page < Pages /\ Begin("write", page + 1)
      BY <1>2, <3>1, <3>2, <3>5, FlashToolAssumption DEF Worked, Begin
    <3>6. CASE stage = "write" /\ page = Pages /\ Begin("update", 0)
      <4>1. AsTold(b)
        BY <1>2, <3>1, <3>2, <3>6, FlashToolAssumption DEF Worked, AsTold
      <4>2. job.tool = "flash"
        BY <3>6 DEF CleanRun, Tools
      <4> QED BY <3>6, <4>1, <4>2 DEF Worked, Begin
    <3>7. CASE stage = "update" /\ Begin("save", 0)
      BY <3>1, <3>7 DEF Worked, Begin
    <3>8. CASE stage = "save" /\ job.tool = "flash" /\ Begin("verify", 0)
      BY <3>1, <3>8 DEF Worked, Begin
    <3>9. CASE stage = "save" /\ job.tool # "flash" /\ End("done")
      BY <3>1, <3>9 DEF Worked, End
    <3> QED BY <3>3, <3>4, <3>5, <3>6, <3>7, <3>8, <3>9 DEF Advance
  <2>2. ASSUME NEW b \in Targets PROVE Worked(b, stage, page, FALSE)'
    BY <2>1 DEF Worked, AsTold, Wanted, StoredPage, memory
  <2> QED BY <1>1, <1>3, <2>2 DEF Progress
<1>5. Undamaged' /\ Tools'
  BY <1>3 DEF CleanRun, Undamaged, Tools, CommandStages
<1>6. Between' /\ After'
  BY <1>1, <1>3 DEF Between, After, Pending
<1> QED BY <1>3, <1>4, <1>5, <1>6
        DEF CleanRun, Enumeration, Exchange, Counting, Unverified, CommandStages

LEMMA CompleteClean ==
  ASSUME TypeOK, Clean, CleanRun, stage \in CommandStages, waiting, Complete
  PROVE  rx = <<>> /\ \A b \in Targets : ~Pending(b)
<1>1. Cardinality(Have) >= Len(job.ids)
  BY IdsCounted DEF Clean, Complete, Have, CommandStages
<1> QED BY <1>1, AllGot DEF Clean, CleanRun, Counting

LEMMA FlashCommandDoneClean ==
  ASSUME IInv, Clean', Clean, CleanRun, FlashCommandDone
  PROVE  CleanRun'
<1>1. /\ TypeOK /\ stage \in CommandStages /\ waiting /\ Evaluate
      /\ UNCHANGED <<job, rx, inbox, memory>>
  BY DEF IInv, FlashCommandDone, CommandStages
<1>2. Complete
  BY <1>1, GiveUpClean DEF FlashCommandDone
<1>3. CodesGiven \subseteq {"success"}
  BY <1>1 DEF CodesGiven, CleanRun, Exchange, Counting, FlashCommandDone
<1>4. Advance
  BY <1>1, <1>3 DEF Evaluate, Crash, Fatal, Again
<1> QED BY <1>1, <1>2, <1>4, CompleteClean, AdvanceClean

LEMMA ConfigCommandDoneClean ==
  ASSUME IInv, Clean', Clean, CleanRun, ConfigCommandDone
  PROVE  CleanRun'
<1>1. /\ TypeOK /\ stage \in CommandStages /\ waiting
      /\ UNCHANGED <<job, rx, inbox, memory>>
  BY DEF IInv, ConfigCommandDone, CommandStages
<1>2. Complete /\ Advance
  BY <1>1, GiveUpClean DEF ConfigCommandDone
<1> QED BY <1>1, <1>2, CompleteClean, AdvanceClean

LEMMA VerifiedClean ==
  ASSUME TypeOK, Clean, CleanRun, Verified
  PROVE  CleanRun'
<1>1. /\ stage = "verify" /\ boards_checked = Len(job.ids) /\ job.tool = "flash"
      /\ UNCHANGED <<job, rx, inbox, memory>>
  BY DEF Verified, CleanRun, Tools
<1>2. waiting
  BY <1>1, IdsCounted DEF Clean, CleanRun, Tools
<1>3. /\ Targets' = Targets /\ (\A b : Pending(b)' = Pending(b))
      /\ waiting' = FALSE /\ DOMAIN answers' = {}
  BY <1>1, IdsKept, NoAnswersOK DEF Pending, Verified, Begin, End
<1>4. ASSUME job.dropped = {}
      PROVE  (stage' = "over" \/ stage' = "run") /\ Between' /\ After'
  <2>1. Counting
    BY <1>1, <1>2, <1>4 DEF Counting
  <2>2. Cardinality(Have) = Len(job.ids)
    BY <1>1, <2>1 DEF Have, CleanRun, Exchange
  <2>3. Have = Ids /\ rx = <<>> /\ \A b \in Targets : ~Pending(b)
    BY <1>1, <2>1, <2>2, AllGot, IdsCounted DEF Clean, CleanRun
  <2>4. valid_nodes = Targets
    BY <1>1, <2>3, IdsCounted DEF Clean, Have
  <2>5. (stage' = "over" /\ outcome' = "done") \/ stage' = "run"
    BY <2>4 DEF Verified, Begin, End
  <2>6. Between' /\ After'
    BY <1>1, <1>3, <1>4, <2>3, <2>5 DEF Between, After, Pending
  <2> QED BY <1>1, <1>4, <2>3, <2>5, <2>6
<1>5. ASSUME job.dropped # {}
      PROVE  stage' = "over" /\ Between' /\ After'
  <2>1. /\ Unverified
        /\ \A b \in Targets : \A i \in 1..Len(inbox[b]) : inbox[b][i].op = "verify"
    <3>1. Unverified /\ Current.op = "verify"
      BY <1>1 DEF CleanRun, Current
    <3> HIDE DEF Current
    <3> QED BY <1>1, <1>2, <1>5, <3>1 DEF Unverified
  <2>2. valid_nodes # Targets
    <3>1. Targets # {}
      BY IdsCounted, FS_EmptySet DEF Clean
    <3> QED BY <1>1, <1>2, <1>5, <2>1, <3>1 DEF Unverified
  <2>3. stage' = "over" /\ outcome' = "not_verified"
    BY <2>2 DEF Verified, End
  <2>4. Between'
    BY <1>3, <2>3 DEF Between, CommandStages
  <2>5. After'
    BY <1>1, <1>3, <1>5, <2>1, <2>3 DEF After
  <2> QED BY <2>3, <2>4, <2>5
<1>6. /\ stage' = "over" \/ (stage' = "run" /\ job.dropped = {})
      /\ Between' /\ After'
  BY <1>4, <1>5
<1>7. Progress'
  <2>1. \A b \in Targets : Worked(b, stage, page, waiting /\ ~Pending(b))
    BY DEF CleanRun, Progress
  <2>2. \A b \in Targets : AsTold(b) /\ saved[b] = "new"
    BY <1>1, <2>1 DEF Worked
  <2> QED BY <1>1, <1>3, <1>6, <2>2
          DEF Progress, Worked, AsTold, Wanted, StoredPage, memory
<1>8. Undamaged' /\ Tools'
  BY <1>1, <1>3, <1>6 DEF CleanRun, Undamaged, Tools, CommandStages
<1> QED BY <1>3, <1>6, <1>7, <1>8
        DEF CleanRun, Enumeration, Exchange, Counting, Unverified, CommandStages

---------------------------------------------------------------------------
(* A clean enumeration *)

\* The replies that were received are from no more boards than there are replies.
LEMMA SourcesCounted ==
  ASSUME TypeOK
  PROVE  LET Sources == {rx[i].src : i \in 1..Len(rx)}
         IN IsFiniteSet(Sources) /\ Cardinality(Sources) \in Nat /\ Cardinality(Sources) <= Len(rx)
<1> DEFINE Sources == {rx[i].src : i \in 1..Len(rx)}
           source == [i \in 1..Len(rx) |-> rx[i].src]
<1>1. Len(rx) \in Nat
  BY DEF TypeOK
<1>2. source \in Surjection(1..Len(rx), Sources)
  BY DEF Surjection
<1> HIDE DEF Sources, source
<1>3. IsFiniteSet(1..Len(rx)) /\ Cardinality(1..Len(rx)) = Len(rx)
  <2>1. /\ IsFiniteSet(1..Len(rx))
        /\ Cardinality(1..Len(rx)) = IF 1 > Len(rx) THEN 0 ELSE Len(rx) - 1 + 1
    BY <1>1, FS_Interval
  <2> QED BY <1>1, <2>1
<1>4. IsFiniteSet(Sources) /\ Cardinality(Sources) <= Len(rx)
  BY <1>2, <1>3, FS_Surjection
<1>5. Cardinality(Sources) \in Nat
  BY <1>4, FS_CardinalityType
<1> QED BY <1>4, <1>5 DEF Sources

\* When no ping is on its way, there are replies enough.
LEMMA EnoughReplies ==
  ASSUME TypeOK, Clean, Enumeration, stage = "ping", retry_count > 0,
         \A b \in Boards : inbox[b] = <<>>
  PROVE  Len(rx) >= Missing
<1> SUFFICES ASSUME Len(rx) < Missing PROVE FALSE
  <2>1. Len(rx) \in Nat /\ retry_count \in Nat /\ Len(job.ids) \in Nat
    BY IdsCounted DEF Clean, TypeOK
  <2>2. Missing \in Int
    BY <2>1 DEF Missing, Rounds
  <2> QED BY <2>1, <2>2
<1> DEFINE Sources == {rx[i].src : i \in 1..Len(rx)}
           Known == DOMAIN answers
<1>1. retry_count = 1
  BY DEF Enumeration, TypeOK
<1>2. \A b \in Targets : ~Pending(b)
  BY TargetsAreIds DEF Pending
<1>3. \A b \in Targets : Replying(b) \/ b \in Known
  BY <1>1, <1>2 DEF Enumeration
<1>4. Targets \subseteq Known \cup Sources
  <2>1. \A i \in 1..Len(rx) : rx[i].src \in Targets
    BY DEF Enumeration
  <2>2. NewId \notin Targets
    BY TargetsAreIds, FlashToolAssumption
  <2>3. \A b \in Targets : Replying(b) => Id(b) = b
    BY <2>1, <2>2 DEF Replying, Id
  <2> QED BY <1>3, <2>3 DEF Replying
<1>5. IsFiniteSet(Known) /\ Cardinality(Known) = Rounds
  <2>1. Known \subseteq Targets
    BY DEF Enumeration
  <2> QED BY <2>1, TargetsFinite, FS_Subset DEF Enumeration
<1>6. /\ IsFiniteSet(Sources) /\ Cardinality(Sources) \in Nat /\ Cardinality(Sources) <= Len(rx)
  BY SourcesCounted
<1> HIDE DEF Sources, Known
<1>7. /\ IsFiniteSet(Known \cup Sources)
      /\ Cardinality(Known \cup Sources) <= Cardinality(Known) + Cardinality(Sources)
  <2>1. /\ IsFiniteSet(Known \cup Sources)
        /\ Cardinality(Known \cup Sources)
             = Cardinality(Known) + Cardinality(Sources) - Cardinality(Known \cap Sources)
    BY <1>5, <1>6, FS_Union
  <2>2. IsFiniteSet(Known \cap Sources)
    BY <1>5, FS_Intersection
  <2>3. /\ Cardinality(Known \cap Sources) \in Nat /\ Cardinality(Known) \in Nat
    BY <1>5, <2>2, FS_CardinalityType
  <2> QED BY <1>6, <2>1, <2>3
<1>8. Cardinality(Targets) <= Cardinality(Known \cup Sources)
  BY <1>4, <1>7, FS_Subset
<1>9. Cardinality(Targets) = Len(job.ids) /\ Len(job.ids) \in Nat
  BY IdsCounted DEF Clean
<1>10. /\ Cardinality(Known \cup Sources) \in Nat /\ Cardinality(Known) \in Nat
       /\ Len(rx) \in Nat
  BY <1>5, <1>7, FS_CardinalityType DEF TypeOK
<1> QED BY <1>5, <1>6, <1>7, <1>8, <1>9, <1>10 DEF Missing

LEMMA PingClean ==
  ASSUME TypeOK, TypeOK', Clean', Clean, CleanRun, Ping
  PROVE  CleanRun'
<1>1. /\ stage = "ping" /\ ~waiting /\ retry_count < ENUMERATION_RETRIES
      /\ waiting' = TRUE /\ retry_count' = retry_count + 1 /\ write_command(Targets)
      /\ UNCHANGED <<job, stage, page, answers, boards_checked, valid_nodes, outcome, rx, memory>>
  BY DEF Ping
<1>2. /\ Targets' = Targets /\ destinations' = destinations /\ Targets \subseteq Boards
      /\ \A b : Id(b)' = Id(b)
  BY <1>1, IdsKept, TargetsAreIds DEF destinations
<1>3. Current' = Current /\ Current.op = "ping" /\ Current.to = Targets
  BY <1>1, <1>2 DEF Current, destinations, Targets
<1>4. \A b \in Boards : inbox[b] = <<>> /\ inbox'[b] = <<Current>>
  BY <1>1, CleanDelivery DEF Clean, Current, destinations, Targets
<1>5. Rounds' = Rounds /\ Missing' = Missing /\ retry_count \in Nat /\ ENUMERATION_RETRIES \in Nat
  BY <1>1, FlashToolAssumption DEF Rounds, Missing, TypeOK
<1>6. Undamaged'
  BY <1>3, <1>4 DEF Undamaged
<1>7. Enumeration'
  <2>1. /\ retry_count' <= ENUMERATION_RETRIES /\ retry_count' > 0
        /\ DOMAIN answers' \subseteq Targets' /\ Cardinality(DOMAIN answers') = Rounds'
        /\ ~(Targets' \subseteq DOMAIN answers')
    BY <1>1, <1>2, <1>5 DEF CleanRun, Enumeration
  <2>2. \A b \in Targets' : inbox'[b] \in {<<>>, <<Current'>>}
    BY <1>2, <1>3, <1>4
  <2>3. /\ \A i \in 1..Len(rx') : rx'[i].src \in Targets'
        /\ \A i \in 1..Len(rx') : i <= Missing' =>
             /\ rx'[i].src \notin DOMAIN answers'
             /\ \A j \in 1..Len(rx') : j < i => rx'[i].src # rx'[j].src
    BY <1>1, <1>2, <1>5 DEF CleanRun, Enumeration
  <2>4. ASSUME Len(rx') < Missing'
        PROVE  /\ retry_count' = 1
               /\ \A b \in Targets' : Pending(b)' /\ ~Replying(b)' /\ b \notin DOMAIN answers'
    <3>1. retry_count = 0
      <4>1. ~(Len(rx) >= Missing)
        BY <1>1, <1>5, <2>4, IdsCounted DEF TypeOK, Missing, Rounds, Clean
      <4> QED BY <1>1, <1>4, <1>5, <4>1, EnoughReplies DEF CleanRun
    <3>2. rx = <<>> /\ Cardinality(DOMAIN answers) = 0 /\ DOMAIN answers \subseteq Targets
      BY <1>1, <3>1 DEF CleanRun, Enumeration, Rounds
    <3>3. DOMAIN answers = {}
      <4>1. IsFiniteSet(DOMAIN answers)
        BY <3>2, TargetsFinite, FS_Subset
      <4> QED BY <3>2, <4>1, FS_EmptySet
    <3>4. \A b \in Targets' : Pending(b)'
      BY <1>2, <1>4 DEF Pending
    <3> QED BY <1>1, <3>1, <3>2, <3>3, <3>4 DEF Replying
  <2> QED BY <1>1, <2>1, <2>2, <2>3, <2>4 DEF Enumeration
<1>8. Progress'
  BY <1>1 DEF Progress, Worked
<1>9. Tools'
  BY <1>1 DEF CleanRun, Tools
<1> QED BY <1>1, <1>6, <1>7, <1>8, <1>9
        DEF CleanRun, Exchange, Counting, Unverified, Between, After, CommandStages

LEMMA PingTimedOutClean ==
  ASSUME TypeOK, Clean', Clean, CleanRun, PingTimedOut
  PROVE  FALSE
<1>1. stage = "ping" /\ waiting /\ rx = <<>>
  BY DEF PingTimedOut
<1>2. \A b \in Boards : inbox[b] = <<>>
  BY NotLate DEF PingTimedOut, Clean
<1>3. Len(rx) >= Missing
  BY <1>1, <1>2, EnoughReplies DEF CleanRun, Enumeration
<1>4. Rounds >= Len(job.ids) /\ Len(job.ids) \in Nat /\ Rounds \in Nat
  BY <1>1, <1>3, IdsCounted DEF CleanRun, Enumeration, Missing, Rounds, TypeOK, Clean
<1>5. DOMAIN answers \subseteq Targets /\ Cardinality(DOMAIN answers) = Rounds
  BY <1>1 DEF CleanRun, Enumeration
<1>6. DOMAIN answers = Targets
  <2>1. /\ Cardinality(DOMAIN answers) <= Cardinality(Targets)
        /\ Cardinality(DOMAIN answers) = Cardinality(Targets) => DOMAIN answers = Targets
    BY <1>5, IdsCounted, FS_Subset DEF Clean
  <2> QED BY <1>4, <1>5, <2>1, IdsCounted DEF Clean
<1> QED BY <1>1, <1>6 DEF CleanRun, Enumeration

LEMMA PingAnsweredClean ==
  ASSUME TypeOK, Clean, CleanRun, PingAnswered
  PROVE  CleanRun'
<1> DEFINE src == rx[1].src
           replies == Remember(Head(rx))
<1>1. /\ stage = "ping" /\ waiting /\ rx # <<>> /\ rx' = Tail(rx) /\ Enumerated(replies)
      /\ UNCHANGED <<job, inbox, memory>> /\ Enumeration /\ job.tool = "flash"
  BY DEF PingAnswered, CleanRun, Tools
<1>2. /\ 1 \in 1..Len(rx) /\ Head(rx) = rx[1] /\ Len(rx') = Len(rx) - 1 /\ Len(rx) \in Nat
      /\ \A i \in 1..Len(rx') : i + 1 \in 1..Len(rx) /\ 1 < i + 1 /\ rx'[i] = rx[i + 1]
      /\ \A i \in 1..Len(rx) : i # 1 => i - 1 \in 1..Len(rx') /\ rx'[i - 1] = rx[i]
  BY <1>1, TailOfRx
<1>3. /\ Targets' = Targets /\ \A b : Id(b)' = Id(b) /\ Pending(b)' = Pending(b)
      /\ \A b : Id(b) = b
  BY <1>1, IdsKept DEF Pending, Id
<1>4. /\ retry_count \in Nat /\ retry_count > 0 /\ Rounds = retry_count - 1
      /\ Len(job.ids) \in Nat /\ Cardinality(Targets) = Len(job.ids) /\ IsFiniteSet(Targets)
      /\ Len(job.ids) <= ENUMERATION_RETRIES /\ ENUMERATION_RETRIES \in Nat
  BY <1>1, IdsCounted, FlashToolAssumption DEF Enumeration, Rounds, TypeOK, Clean
<1>5. /\ DOMAIN answers \subseteq Targets /\ ~(Targets \subseteq DOMAIN answers)
      /\ Cardinality(DOMAIN answers) = Rounds /\ IsFiniteSet(DOMAIN answers)
  BY <1>1, <1>4, FS_Subset DEF Enumeration
<1>6. Missing = Len(job.ids) - Rounds /\ Missing >= 1
  <2>1. /\ Cardinality(DOMAIN answers) <= Cardinality(Targets)
        /\ Cardinality(DOMAIN answers) = Cardinality(Targets) => DOMAIN answers = Targets
    BY <1>4, <1>5, FS_Subset
  <2> QED BY <1>4, <1>5, <2>1 DEF Missing
<1>7. src \in Targets /\ src \notin DOMAIN answers /\ Head(rx).src = src
  BY <1>1, <1>2, <1>6 DEF Enumeration
<1>8. DOMAIN replies = DOMAIN answers \cup {src}
  BY <1>7 DEF Remember
<1> HIDE DEF src, replies
<1>9. Cardinality(DOMAIN replies) = retry_count /\ DOMAIN replies \subseteq Targets
  <2>1. Cardinality(DOMAIN answers \cup {src}) = Cardinality(DOMAIN answers) + 1
    BY <1>5, <1>7, FS_AddElement
  <2> QED BY <1>4, <1>5, <1>7, <1>8, <2>1
<1>10. Undamaged'
  BY <1>1 DEF CleanRun, Undamaged
<1>11. CASE Targets \subseteq DOMAIN replies /\ Begin("erase", 1)
  <2>1. /\ stage' = "erase" /\ page' = 1 /\ waiting' = FALSE /\ DOMAIN answers' = {}
        /\ boards_checked' = 0
    BY <1>1, <1>11, NoAnswersOK DEF Begin, CleanRun, Tools
  <2>2. Between'
    <3>1. \A b \in Targets : inbox[b] \in {<<>>, <<Current>>} /\ Current.op = "ping"
      BY <1>1 DEF Enumeration, Current
    <3>2. \A b \in Targets : \A i \in 1..Len(inbox[b]) : inbox[b][i].op = "ping"
      <4> HIDE DEF Current
      <4> QED BY <3>1
    <3> QED BY <1>1, <1>3, <2>1, <3>2 DEF Between
  <2>3. Progress'
    <3>1. \A q \in PageNumbers : ~(q < 1)
      BY DEF PageNumbers
    <3> QED BY <2>1, <3>1 DEF Progress, Worked
  <2>4. Tools'
    BY <1>1, <2>1 DEF Tools
  <2> QED BY <1>10, <2>1, <2>2, <2>3, <2>4
          DEF CleanRun, Enumeration, Exchange, Counting, Unverified, After
<1>12. CASE /\ ~(Targets \subseteq DOMAIN replies)
            /\ waiting' = FALSE /\ answers' = replies
            /\ UNCHANGED <<stage, page, retry_count, boards_checked, valid_nodes, outcome>>
  <2>1. /\ Rounds' = retry_count /\ Missing' = Missing - 1 /\ Missing \in Nat
    BY <1>1, <1>4, <1>6, <1>12 DEF Rounds, Missing
  <2>2. Current' = Current
    BY <1>1, <1>12 DEF Current, destinations
  <2>3. /\ retry_count' <= ENUMERATION_RETRIES /\ ~waiting' /\ retry_count' # 0
        /\ DOMAIN answers' \subseteq Targets' /\ Cardinality(DOMAIN answers') = Rounds'
        /\ ~(Targets' \subseteq DOMAIN answers')
        /\ \A b \in Targets' : inbox'[b] \in {<<>>, <<Current'>>}
    BY <1>1, <1>3, <1>4, <1>9, <1>12, <2>1, <2>2 DEF Enumeration
  <2>4. \A i \in 1..Len(rx') : rx'[i].src \in Targets'
    BY <1>1, <1>2, <1>3 DEF Enumeration
  <2>5. ASSUME NEW i \in 1..Len(rx'), i <= Missing'
        PROVE  /\ rx'[i].src \notin DOMAIN answers'
               /\ \A j \in 1..Len(rx') : j < i => rx'[i].src # rx'[j].src
    <3>1. i + 1 \in 1..Len(rx) /\ 1 < i + 1 /\ rx'[i] = rx[i + 1] /\ i + 1 <= Missing
      BY <1>2, <2>1, <2>5
    <3>2. /\ rx[i + 1].src \notin DOMAIN answers
          /\ \A j \in 1..Len(rx) : j < i + 1 => rx[i + 1].src # rx[j].src
      BY <1>1, <3>1 DEF Enumeration
    <3>3. rx'[i].src # src
      BY <1>2, <3>1, <3>2 DEF src
    <3>4. ASSUME NEW j \in 1..Len(rx'), j < i PROVE rx'[i].src # rx'[j].src
      <4>1. j + 1 \in 1..Len(rx) /\ rx'[j] = rx[j + 1] /\ j + 1 < i + 1
        BY <1>2, <3>4
      <4> QED BY <3>1, <3>2, <4>1
    <3> QED BY <1>8, <1>12, <3>1, <3>2, <3>3, <3>4
  <2>6. ASSUME Len(rx') < Missing'
        PROVE  /\ retry_count' <= 1
               /\ \A b \in Targets' :
                    /\ Pending(b)' => ~Replying(b)' /\ b \notin DOMAIN answers'
                    /\ Pending(b)' \/ Replying(b)' \/ b \in DOMAIN answers'
    <3>1. Len(rx) < Missing /\ retry_count = 1
      BY <1>1, <1>2, <1>4, <2>1, <2>6 DEF Enumeration
    <3>2. ASSUME NEW b \in Targets
          PROVE  /\ Pending(b)' => ~Replying(b)' /\ b \notin DOMAIN answers'
                 /\ Pending(b)' \/ Replying(b)' \/ b \in DOMAIN answers'
      <4>1. /\ Pending(b) => ~Replying(b) /\ b \notin DOMAIN answers
            /\ Pending(b) \/ Replying(b) \/ b \in DOMAIN answers
        BY <1>1, <3>1 DEF Enumeration
      <4>2. Replying(b)' => Replying(b)
        BY <1>2, <1>3 DEF Replying
      <4>3. b = src => Replying(b)
        BY <1>2, <1>3 DEF Replying, src
      <4>4. Replying(b) => Replying(b)' \/ b = src
        <5>1. SUFFICES ASSUME NEW i \in 1..Len(rx), rx[i].src = b, b # src PROVE Replying(b)'
          BY <1>3 DEF Replying
        <5>2. i # 1
          BY <5>1 DEF src
        <5>3. i - 1 \in 1..Len(rx') /\ rx'[i - 1].src = b
          BY <1>2, <5>1, <5>2
        <5> QED BY <1>3, <5>3 DEF Replying
      <4>5. b \in DOMAIN answers' <=> b \in DOMAIN answers \/ b = src
        BY <1>8, <1>12
      <4> QED BY <1>3, <4>1, <4>2, <4>3, <4>4, <4>5
    <3> QED BY <1>3, <1>12, <3>1, <3>2
  <2>7. Enumeration'
    BY <2>3, <2>4, <2>5, <2>6 DEF Enumeration
  <2>8. Progress'
    BY <1>1, <1>12 DEF Progress, Worked
  <2>9. Tools'
    BY <1>1, <1>12 DEF CleanRun, Tools
  <2> QED BY <1>1, <1>10, <1>12, <2>7, <2>8, <2>9
          DEF CleanRun, Exchange, Counting, Unverified, Between, After, CommandStages
<1>13. ~(Targets \subseteq DOMAIN replies) => retry_count # ENUMERATION_RETRIES
  <2> SUFFICES ASSUME retry_count = ENUMERATION_RETRIES PROVE DOMAIN replies = Targets
    OBVIOUS
  <2>1. /\ Cardinality(DOMAIN replies) <= Cardinality(Targets)
        /\ Cardinality(DOMAIN replies) = Cardinality(Targets) => DOMAIN replies = Targets
    BY <1>4, <1>9, FS_Subset
  <2> QED BY <1>4, <1>9, <2>1
<1> QED BY <1>1, <1>11, <1>12, <1>13 DEF Enumerated

---------------------------------------------------------------------------
(* Clean steps of the boards *)

\* What a board does that was sent a command, when nothing goes wrong.
Obeyed(b, command) ==
  /\ rx' = Append(rx, [src |-> NodeId(b)',
                       answer |-> [code |-> IF command.op # "verify" THEN "success"
                                            ELSE IF Holds(b) THEN "crc_image" ELSE "crc_other",
                                   of |-> command.op, page |-> command.page]])
  /\ \/ /\ command.op = "erase" /\ SetPage(b, command.page, "blank") /\ UNCHANGED <<ram, saved>>
     \/ /\ command.op = "write" /\ UNCHANGED <<ram, saved>>
        /\ IF StoredPage(command.page) THEN SetPage(b, command.page, "image")
           ELSE UNCHANGED flash
     \/ /\ command.op = "update" /\ ram' = [ram EXCEPT ![b] = "new"] /\ UNCHANGED <<flash, saved>>
     \/ /\ command.op = "save" /\ saved' = [saved EXCEPT ![b] = ram[b]] /\ UNCHANGED <<flash, ram>>
     \/ command.op \in {"ping", "verify"} /\ UNCHANGED <<flash, ram, saved>>

LEMMA BoardObeys ==
  ASSUME TypeOK, Clean', NEW b \in Boards, class[b], Board(b), NEW command \in Command,
         command = Head(inbox[b]), Addressed(b, command), command.op \notin {"damaged", "run"},
         command.op = "write" => flash[b][command.page] = "blank"
  PROVE  Obeyed(b, command)
<1>1. Execute(b, command) \/ ExecuteBadly(b, command)
  BY DEF Board
<1>2. ASSUME Cost(1) PROVE FALSE
  BY <1>2, NoCost DEF Clean
<1>3. Execute(b, command)
  BY <1>1, <1>2 DEF ExecuteBadly
<1>4. PICK code \in Codes :
        /\ \/ command.op = "erase" /\ Erased(b, command.page, code) /\ UNCHANGED <<ram, saved>>
           \/ command.op = "write" /\ Written(b, command.page, code) /\ UNCHANGED <<ram, saved>>
           \/ Config(b, command.op, code) /\ UNCHANGED flash
           \/ Reads(b, command, code) /\ UNCHANGED <<flash, ram, saved>>
        /\ Answers(b, [code |-> code, of |-> command.op, page |-> command.page])
  BY <1>3 DEF Execute
<1>5. rx' = Append(rx, [src |-> NodeId(b)',
                        answer |-> [code |-> code, of |-> command.op, page |-> command.page]])
  BY <1>2, <1>4 DEF Answers
<1>6. code = (IF command.op # "verify" THEN "success"
              ELSE IF Holds(b) THEN "crc_image" ELSE "crc_other")
  BY <1>4 DEF Erased, Written, Config, Reads
<1>7. \/ /\ command.op = "erase" /\ SetPage(b, command.page, "blank") /\ UNCHANGED <<ram, saved>>
      \/ /\ command.op = "write" /\ UNCHANGED <<ram, saved>>
         /\ IF StoredPage(command.page) THEN SetPage(b, command.page, "image")
            ELSE UNCHANGED flash
      \/ /\ command.op = "update" /\ ram' = [ram EXCEPT ![b] = "new"] /\ UNCHANGED <<flash, saved>>
      \/ /\ command.op = "save" /\ saved' = [saved EXCEPT ![b] = ram[b]] /\ UNCHANGED <<flash, ram>>
      \/ command.op \in {"ping", "verify"} /\ UNCHANGED <<flash, ram, saved>>
  BY <1>4 DEF Erased, Written, Config, Reads
<1> QED BY <1>5, <1>6, <1>7 DEF Obeyed

\* What any step of a board leaves alone, and what it takes from its inbox.
LEMMA BoardLeaves ==
  ASSUME TypeOK, NEW b \in Boards, Board(b)
  PROVE  /\ UNCHANGED <<job, stage, page, waiting, answers, retry_count, boards_checked,
                        valid_nodes, outcome>>
         /\ inbox[b] # <<>> /\ inbox'[b] = Tail(inbox[b])
         /\ \A x \in Boards \ {b} :
              /\ inbox'[x] = inbox[x] /\ flash'[x] = flash[x]
              /\ ram'[x] = ram[x] /\ saved'[x] = saved[x]
         /\ \A i \in 1..Len(inbox'[b]) :
              i + 1 \in 1..Len(inbox[b]) /\ inbox'[b][i] = inbox[b][i + 1]
         /\ Head(inbox[b]) = inbox[b][1] /\ 1 \in 1..Len(inbox[b])
<1>1. /\ UNCHANGED <<job, stage, page, waiting, answers, retry_count, boards_checked,
                     valid_nodes, outcome>>
      /\ inbox[b] # <<>> /\ inbox' = [inbox EXCEPT ![b] = Tail(@)]
  BY DEF Board, client
<1>2. inbox'[b] = Tail(inbox[b])
  BY <1>1 DEF TypeOK
<1>3. \A x \in Boards \ {b} : flash'[x] = flash[x]
  BY BoardEffect DEF Effect
<1>4. \A x \in Boards \ {b} : ram'[x] = ram[x] /\ saved'[x] = saved[x]
  BY BoardTells DEF Configures
<1> QED BY <1>1, <1>2, <1>3, <1>4, InboxTail

LEMMA UndamagedKept ==
  ASSUME TypeOK, Undamaged, NEW b \in Boards, Board(b)
  PROVE  Undamaged' /\ Head(inbox[b]).op # "damaged"
<1>1. ASSUME NEW x \in Boards, NEW i \in 1..Len(inbox'[x]) PROVE inbox'[x][i].op # "damaged"
  <2>1. CASE x = b
    <3>1. i + 1 \in 1..Len(inbox[b]) /\ inbox'[b][i] = inbox[b][i + 1]
      BY <1>1, <2>1, BoardLeaves
    <3> QED BY <2>1, <3>1 DEF Undamaged
  <2>2. CASE x # b
    BY <1>1, <2>2, BoardLeaves DEF Undamaged
  <2> QED BY <2>1, <2>2
<1>2. Head(inbox[b]).op # "damaged"
  BY BoardLeaves DEF Undamaged
<1> QED BY <1>1, <1>2 DEF Undamaged

\* The boards that the tool was not told of do nothing.
LEMMA BystanderClean ==
  ASSUME TypeOK, ConfigInv, CleanRun, NEW b \in Boards, b \notin Targets, Board(b)
  PROVE  CleanRun'
<1>1. UNCHANGED <<rx, flash, ram, saved>>
  <2>1. /\ Head(inbox[b]) \in Command /\ Head(inbox[b]).op # "damaged"
        /\ Head(inbox[b]).to \subseteq Targets \cup {NewId}
    BY BoardEffect, UndamagedKept, BoardLeaves DEF CleanRun, ConfigInv, CommandsTrue
  <2>2. ~Addressed(b, Head(inbox[b]))
    BY <2>1, AddressedIsTarget
  <2> QED BY <2>2 DEF Board
<1>2. /\ UNCHANGED <<job, stage, page, waiting, answers, retry_count, boards_checked,
                     valid_nodes, outcome>>
      /\ Targets' = Targets /\ Targets \subseteq Boards
  BY BoardLeaves, IdsKept, TargetsAreIds
<1>3. \A x \in Targets : inbox'[x] = inbox[x]
  BY <1>2, BoardLeaves
<1>4. /\ \A x : Id(x)' = Id(x) /\ Replying(x)' = Replying(x) /\ Got(x)' = Got(x)
      /\ \A x \in Targets : Pending(x)' = Pending(x)
      /\ Current' = Current /\ Have' = Have /\ Ids' = Ids /\ Rounds' = Rounds /\ Missing' = Missing
  BY <1>1, <1>2, <1>3, IdsKept
     DEF Id, Replying, Got, Pending, Current, destinations, Have, Rounds, Missing
<1>5. Undamaged'
  BY UndamagedKept DEF CleanRun
<1>6. Enumeration'
  BY <1>1, <1>2, <1>3, <1>4 DEF CleanRun, Enumeration
<1>7. Exchange' /\ Unverified'
  BY <1>1, <1>2, <1>3, <1>4 DEF CleanRun, Exchange, Counting, Unverified
<1>8. Between' /\ After'
  BY <1>1, <1>2, <1>3, <1>4 DEF CleanRun, Between, After
<1>9. Progress'
  BY <1>1, <1>2, <1>3, <1>4 DEF CleanRun, Progress, Worked, AsTold, Wanted, StoredPage
<1>10. Tools'
  BY <1>2 DEF CleanRun, Tools
<1> QED BY <1>5, <1>6, <1>7, <1>8, <1>9, <1>10 DEF CleanRun

\* A board that was told to run the application, or to answer a ping that is no longer
\* waited for.
LEMMA LeftoverClean ==
  ASSUME TypeOK, CleanRun, NEW b \in Targets, Board(b),
         stage # "ping", stage = "over" \/ ~waiting
  PROVE  CleanRun'
<1>1. /\ UNCHANGED <<job, stage, page, waiting, answers, boards_checked, valid_nodes, outcome>>
      /\ Targets' = Targets /\ Targets \subseteq Boards
  BY TargetsAreIds, BoardLeaves, IdsKept
<1> DEFINE command == Head(inbox[b])
<1>2. /\ command \in Command /\ Effect(b, command)
      /\ inbox[b] # <<>> /\ command = inbox[b][1] /\ 1 \in 1..Len(inbox[b])
      /\ \A i \in 1..Len(inbox'[b]) : i + 1 \in 1..Len(inbox[b]) /\ inbox'[b][i] = inbox[b][i + 1]
      /\ \A x \in Targets \ {b} : inbox'[x] = inbox[x] /\ saved'[x] = saved[x]
  BY <1>1, BoardEffect, BoardLeaves
<1>3. Configures(b, command) \/ UNCHANGED <<ram, saved>>
  BY <1>1, BoardTells
<1>4. Undamaged'
  BY <1>1, UndamagedKept DEF CleanRun
<1>5. Tools'
  BY <1>1 DEF CleanRun, Tools
<1> HIDE DEF command
<1>6. CASE stage = "over"
  <2>1. command.op \in {"run", "verify"}
    BY <1>2, <1>6 DEF CleanRun, After
  <2>2. saved'[b] = saved[b]
    BY <1>3, <2>1 DEF Configures
  <2>3. ASSUME NEW x \in Targets, NEW i \in 1..Len(inbox'[x]) PROVE inbox'[x][i].op \in {"run", "verify"}
    <3>1. CASE x = b
      BY <1>2, <1>6, <2>3, <3>1 DEF CleanRun, After
    <3>2. CASE x # b
      BY <1>2, <1>6, <2>3, <3>2 DEF CleanRun, After
    <3> QED BY <3>1, <3>2
  <2>4. After'
    BY <1>1, <1>6, <2>3 DEF CleanRun, After
  <2>5. Progress'
    BY <1>1, <1>2, <1>6, <2>2 DEF CleanRun, Progress, Worked
  <2> QED BY <1>1, <1>4, <1>5, <1>6, <2>4, <2>5
          DEF CleanRun, Enumeration, Exchange, Counting, Unverified, Between, CommandStages
<1>7. CASE stage # "over"
  <2>1. ~waiting /\ stage \in CommandStages \cup {"verify", "run"}
    BY <1>7 DEF TypeOK, Stages
  <2>2. /\ stage = "erase" /\ page = 1 /\ DOMAIN answers = {}
        /\ \A x \in Targets : \A i \in 1..Len(inbox[x]) : inbox[x][i].op = "ping"
    BY <1>2, <1>7, <2>1 DEF CleanRun, Between, Pending
  <2>3. ASSUME NEW x \in Targets, NEW i \in 1..Len(inbox'[x]) PROVE inbox'[x][i].op = "ping"
    <3>1. CASE x = b
      BY <1>2, <2>2, <2>3, <3>1
    <3>2. CASE x # b
      BY <1>2, <2>2, <2>3, <3>2
    <3> QED BY <3>1, <3>2
  <2>4. Between'
    BY <1>1, <2>2, <2>3 DEF Between
  <2>5. Progress'
    <3>1. \A q \in PageNumbers : ~(q < 1)
      BY DEF PageNumbers
    <3> QED BY <1>1, <2>1, <2>2, <3>1 DEF Progress, Worked
  <2> QED BY <1>1, <1>4, <1>5, <2>1, <2>2, <2>4, <2>5
          DEF CleanRun, Enumeration, Exchange, Counting, Unverified, After, CommandStages
<1> QED BY <1>6, <1>7

\* A reply is appended to those received before.
LEMMA RxAppended ==
  ASSUME TypeOK, NEW reply, rx' = Append(rx, reply)
  PROVE  /\ Len(rx) \in Nat /\ Len(rx') = Len(rx) + 1 /\ rx'[Len(rx) + 1] = reply
         /\ \A i \in 1..Len(rx) : i \in 1..Len(rx') /\ rx'[i] = rx[i]
         /\ \A i \in 1..Len(rx') : i \in 1..Len(rx) \/ i = Len(rx) + 1
         /\ Len(rx) + 1 \in 1..Len(rx')
BY DEF TypeOK

\* A board answers a ping.
LEMMA PongClean ==
  ASSUME TypeOK, Clean', Clean, CleanRun, NEW b \in Targets, Board(b), stage = "ping"
  PROVE  CleanRun'
<1>1. /\ UNCHANGED <<job, stage, page, waiting, answers, retry_count, boards_checked,
                     valid_nodes, outcome>>
      /\ Targets' = Targets /\ b \in Boards
  BY TargetsAreIds, BoardLeaves, IdsKept
<1>2. Enumeration /\ job.tool = "flash" /\ \A x : Id(x) = x /\ NodeId(x) = x
  BY DEF CleanRun, Tools, Id, NodeId
<1>3. /\ inbox[b] = <<Current>> /\ Head(inbox[b]) = Current
      /\ Current.op = "ping" /\ Current.to = Targets
  <2>1. inbox[b] = <<Current>>
    BY <1>1, <1>2, BoardLeaves DEF Enumeration
  <2>2. Current.op = "ping" /\ Current.to = Targets
    BY <1>2 DEF Current, destinations, Targets
  <2> HIDE DEF Current
  <2> QED BY <2>1, <2>2
<1>4. Current \in Command /\ class[b]
  BY <1>1, <1>3, BoardEffect DEF Clean
<1> DEFINE reply == [src |-> NodeId(b)', answer |-> [code |-> "success",
                                                     of |-> "ping", page |-> Current.page]]
<1>5. rx' = Append(rx, reply) /\ reply.src = b
  <2>1. Obeyed(b, Current)
    BY <1>1, <1>2, <1>3, <1>4, BoardObeys DEF Addressed
  <2>2. NodeId(b)' = b
    BY <1>1, <1>2 DEF NodeId
  <2> QED BY <1>3, <2>1, <2>2 DEF Obeyed
<1> HIDE DEF reply, Current
<1>6. Current' = Current /\ Rounds' = Rounds /\ Missing' = Missing
  BY <1>1 DEF Current, destinations, Rounds, Missing
<1>7. /\ inbox'[b] = <<>> /\ \A x \in Targets \ {b} : inbox'[x] = inbox[x]
  <2>1. inbox'[b] = Tail(<<Current>>)
    BY <1>1, <1>3, BoardLeaves
  <2> QED BY <1>1, <2>1, TargetsAreIds, BoardLeaves
<1>8. /\ Len(rx) \in Nat /\ Len(rx') = Len(rx) + 1 /\ rx'[Len(rx) + 1] = reply
      /\ \A i \in 1..Len(rx) : i \in 1..Len(rx') /\ rx'[i] = rx[i]
      /\ \A i \in 1..Len(rx') : i \in 1..Len(rx) \/ i = Len(rx) + 1
      /\ Len(rx) + 1 \in 1..Len(rx')
  BY <1>5, RxAppended
<1>9. Missing \in Int /\ Pending(b) /\ ~Pending(b)' /\ \A x \in Targets \ {b} : Pending(x)' = Pending(x)
  BY <1>3, <1>7, IdsCounted DEF Pending, Missing, Rounds, Clean, TypeOK
<1>10. Enumeration'
  <2>1. /\ retry_count' <= ENUMERATION_RETRIES /\ (waiting' => retry_count' > 0)
        /\ DOMAIN answers' \subseteq Targets' /\ Cardinality(DOMAIN answers') = Rounds'
        /\ ~(Targets' \subseteq DOMAIN answers')
    BY <1>1, <1>2, <1>6 DEF Enumeration
  <2>2. \A x \in Targets' : inbox'[x] \in {<<>>, <<Current'>>}
    BY <1>1, <1>2, <1>6, <1>7 DEF Enumeration
  <2>3. \A i \in 1..Len(rx') : rx'[i].src \in Targets'
    BY <1>1, <1>2, <1>5, <1>8 DEF Enumeration
  <2>4. ASSUME NEW i \in 1..Len(rx'), i <= Missing'
        PROVE  /\ rx'[i].src \notin DOMAIN answers'
               /\ \A j \in 1..Len(rx') : j < i => rx'[i].src # rx'[j].src
    <3>1. CASE i \in 1..Len(rx)
      BY <1>1, <1>2, <1>6, <1>8, <2>4, <3>1 DEF Enumeration
    <3>2. CASE i = Len(rx) + 1
      <4>1. Len(rx) < Missing
        BY <1>6, <1>8, <1>9, <2>4, <3>2
      <4>2. ~Replying(b) /\ b \notin DOMAIN answers
        BY <1>2, <1>9, <4>1 DEF Enumeration
      <4>3. \A j \in 1..Len(rx) : rx[j].src # b
        BY <1>2, <4>2 DEF Replying
      <4> QED BY <1>1, <1>5, <1>8, <3>2, <4>2, <4>3
    <3> QED BY <1>8, <3>1, <3>2
  <2>5. retry_count # 0
    BY <1>2, <1>9 DEF Enumeration
  <2>6. ASSUME Len(rx') < Missing'
        PROVE  /\ retry_count <= 1
               /\ \A x \in Targets :
                    /\ Pending(x)' => ~Replying(x)' /\ x \notin DOMAIN answers'
                    /\ retry_count = 1 => Pending(x)' \/ Replying(x)' \/ x \in DOMAIN answers'
    <3>1. Len(rx) < Missing
      BY <1>6, <1>8, <1>9, <2>6
    <3>2. ASSUME NEW x \in Targets
          PROVE  /\ Replying(x) => Replying(x)'
                 /\ Replying(x)' => Replying(x) \/ x = b
                 /\ x = b => Replying(x)'
      <4>1. Id(x)' = x /\ Id(x) = x
        BY <1>1, <1>2 DEF Id
      <4> QED BY <1>5, <1>8, <4>1 DEF Replying
    <3> QED BY <1>1, <1>2, <1>9, <3>1, <3>2 DEF Enumeration
  <2> QED BY <1>1, <2>1, <2>2, <2>3, <2>4, <2>5, <2>6 DEF Enumeration
<1>11. Undamaged'
  BY <1>1, UndamagedKept DEF CleanRun
<1>12. Tools' /\ Progress'
  BY <1>1 DEF CleanRun, Tools, Progress, Worked
<1> QED BY <1>1, <1>10, <1>11, <1>12
        DEF CleanRun, Exchange, Counting, Unverified, Between, After, CommandStages

\* A board is ready for the command of the stage, which is sent to the ID it has.
LEMMA ReadyClean ==
  ASSUME TypeOK, Clean, CleanRun, NEW b \in Targets, Board(b),
         Counting
  PROVE  /\ b \in Boards /\ class[b] /\ Head(inbox[b]) = Current /\ Current \in Command
         /\ inbox[b] = <<Current>> /\ Worked(b, stage, page, FALSE)
         /\ Addressed(b, Current) /\ ~Replying(b) /\ ~Got(b)
         /\ stage \in {"erase", "write"} => page \in PageNumbers
<1>1. b \in Boards /\ inbox[b] # <<>>
  BY TargetsAreIds, BoardLeaves
<1>2. inbox[b] \in {<<>>, <<Current>>} /\ Pending(b) /\ ~Replying(b) /\ ~Got(b)
  BY <1>1 DEF CleanRun, Exchange, Pending
<1>3. inbox[b] = <<Current>> /\ Head(inbox[b]) = Current
  <2> HIDE DEF Current
  <2> QED BY <1>1, <1>2
<1>4. Current \in Command
  BY <1>1, <1>3, BoardEffect
<1>5. Worked(b, stage, page, FALSE)
  BY <1>2 DEF CleanRun, Progress, Counting
<1>6. NodeId(b) \in ToSet(destinations)
  <2>1. b \in ToSet(job.ids)
    BY DEF Targets
  <2>2. CASE job.tool # "change_id"
    BY <2>1, <2>2 DEF NodeId, destinations
  <2>3. CASE job.tool = "change_id" /\ stage = "update"
    BY <1>5, <2>1, <2>3 DEF NodeId, destinations, Worked
  <2>4. CASE job.tool = "change_id" /\ stage = "save"
    <3>1. NodeId(b) = NewId /\ destinations = <<NewId>>
      BY <1>5, <2>1, <2>4 DEF NodeId, destinations, Worked
    <3> QED BY <3>1 DEF ToSet
  <2>5. job.tool = "change_id" => stage \in {"update", "save"}
    BY DEF CleanRun, Tools, CommandStages, Counting
  <2> QED BY <2>2, <2>3, <2>4, <2>5
<1>7. Addressed(b, Current)
  BY <1>6 DEF Addressed, Current
<1>8. stage \in {"erase", "write"} => page \in PageNumbers
  BY FlashToolAssumption DEF TypeOK, PageNumbers
<1> QED BY <1>1, <1>2, <1>3, <1>4, <1>5, <1>7, <1>8 DEF Clean

\* What it has done then.
LEMMA WorkedOn ==
  ASSUME TypeOK, NEW b \in Boards, Worked(b, stage, page, FALSE), Obeyed(b, Current),
         stage \in CommandStages \cup {"verify"}, UNCHANGED <<job, stage, page>>,
         stage \in {"erase", "write"} => page \in PageNumbers
  PROVE  Worked(b, stage, page, TRUE)'
<1>1. Current.op = stage /\ Current.page = page
  BY DEF Current
<1> HIDE DEF Current
<1>2. /\ flash \in [Boards -> [PageNumbers -> {"old", "blank", "image", "bad"}]]
      /\ ram \in [Boards -> {"old", "new"}] /\ saved \in [Boards -> {"old", "new"}]
      /\ page \in Nat /\ \A q \in PageNumbers : q \in Nat
  BY FlashToolAssumption DEF TypeOK, PageNumbers
<1>3. CASE stage = "erase"
  <2>1. flash' = [flash EXCEPT ![b] = [flash[b] EXCEPT ![page] = "blank"]]
    BY <1>1, <1>3 DEF Obeyed, SetPage
  <2>2. \A q \in PageNumbers : flash'[b][q] = IF q = page THEN "blank" ELSE flash[b][q]
    BY <1>2, <2>1
  <2> QED BY <1>2, <1>3, <2>2 DEF Worked
<1>4. CASE stage = "write"
  <2>1. IF StoredPage(page)
        THEN flash' = [flash EXCEPT ![b] = [flash[b] EXCEPT ![page] = "image"]]
        ELSE flash' = flash
    BY <1>1, <1>4 DEF Obeyed, SetPage
  <2>2. flash[b][page] = "blank" /\ \A q \in PageNumbers : Wanted(q)' = Wanted(q)
    BY <1>2, <1>4 DEF Worked, Wanted, StoredPage
  <2>3. \A q \in PageNumbers : flash'[b][q] = IF q = page THEN Wanted(page) ELSE flash[b][q]
    BY <1>2, <2>1, <2>2 DEF Wanted
  <2> HIDE DEF Wanted
  <2> QED BY <1>2, <1>4, <2>2, <2>3 DEF Worked
<1>5. CASE stage = "update"
  BY <1>1, <1>2, <1>5 DEF Obeyed, Worked, AsTold, Wanted, StoredPage
<1>6. CASE stage = "save"
  BY <1>1, <1>2, <1>6 DEF Obeyed, Worked, AsTold, Wanted, StoredPage
<1>7. CASE stage = "verify"
  BY <1>1, <1>2, <1>7 DEF Obeyed, Worked, AsTold, Wanted, StoredPage
<1> QED BY <1>3, <1>4, <1>5, <1>6, <1>7 DEF CommandStages

LEMMA ObeyedClean ==
  ASSUME TypeOK, Clean', Clean, CleanRun, NEW b \in Targets, Board(b),
         Counting
  PROVE  CleanRun'
<1>1. /\ UNCHANGED <<job, stage, page, waiting, answers, boards_checked, valid_nodes, outcome>>
      /\ Targets' = Targets /\ Ids' = Ids /\ \A x : Id(x)' = Id(x)
      /\ stage \in CommandStages \cup {"verify"} /\ stage \notin {"ping", "run", "over"}
      /\ waiting /\ (stage = "verify" => job.dropped = {}) /\ Counting' = Counting
  BY TargetsAreIds, BoardLeaves, IdsKept DEF Counting, CommandStages
<1>2. /\ b \in Boards /\ class[b] /\ Head(inbox[b]) = Current /\ Current \in Command
      /\ inbox[b] = <<Current>> /\ Worked(b, stage, page, FALSE)
      /\ Addressed(b, Current) /\ ~Replying(b) /\ ~Got(b)
      /\ stage \in {"erase", "write"} => page \in PageNumbers
  BY ReadyClean
<1>3. Current.op = stage /\ Current.page = page
  BY DEF Current
<1>4. Obeyed(b, Current) /\ (stage = "verify" => Holds(b))
  <2>1. stage = "write" => flash[b][page] = "blank"
    <3>1. page \in Nat
      BY FlashToolAssumption DEF TypeOK
    <3> QED BY <1>2, <3>1 DEF Worked
  <2>2. stage = "verify" => Holds(b)
    BY <1>1, <1>2, AsToldHolds DEF Worked, CleanRun, Tools
  <2>3. Current.op \notin {"damaged", "run"}
    BY <1>1, <1>3 DEF CommandStages
  <2> HIDE DEF Current
  <2> QED BY <1>2, <1>3, <2>1, <2>2, <2>3, BoardObeys
<1>5. NodeId(b)' = Id(b)
  <2>1. CASE job.tool # "change_id"
    BY <1>1, <2>1 DEF NodeId, Id
  <2>2. CASE job.tool = "change_id"
    <3>1. stage \in {"update", "save"}
      BY <1>1, <2>2 DEF CleanRun, Tools, CommandStages
    <3>2. ram'[b] = "new"
      BY <1>2, <1>3, <1>4, <3>1 DEF Obeyed, Worked, TypeOK
    <3> QED BY <1>1, <2>2, <3>2 DEF NodeId, Id, Targets
  <2> QED BY <2>1, <2>2
<1> DEFINE code == IF stage = "verify" THEN "crc_image" ELSE "success"
           reply == [src |-> Id(b), answer |-> [code |-> code, of |-> stage, page |-> page]]
<1>6. rx' = Append(rx, reply) /\ reply.src = Id(b) /\ reply.answer.code = code
  BY <1>3, <1>4, <1>5 DEF Obeyed
<1> HIDE DEF reply, code, Current
<1>7. /\ Len(rx) \in Nat /\ Len(rx') = Len(rx) + 1 /\ rx'[Len(rx) + 1] = reply
      /\ \A i \in 1..Len(rx) : i \in 1..Len(rx') /\ rx'[i] = rx[i]
      /\ \A i \in 1..Len(rx') : i \in 1..Len(rx) \/ i = Len(rx) + 1
      /\ Len(rx) + 1 \in 1..Len(rx')
  BY <1>6, RxAppended
<1>8. Current' = Current /\ Have' = Have /\ \A x : Got(x)' = Got(x)
  BY <1>1 DEF Current, destinations, Have, Got
<1>9. /\ inbox'[b] = <<>>
      /\ \A x \in Targets \ {b} : /\ inbox'[x] = inbox[x] /\ flash'[x] = flash[x]
                                  /\ ram'[x] = ram[x] /\ saved'[x] = saved[x]
  <2>1. b \in Boards /\ inbox[b] = <<Current>> /\ Targets \subseteq Boards
    BY <1>2, TargetsAreIds
  <2>2. /\ inbox'[b] = Tail(inbox[b])
        /\ \A x \in Boards \ {b} : /\ inbox'[x] = inbox[x] /\ flash'[x] = flash[x]
                                   /\ ram'[x] = ram[x] /\ saved'[x] = saved[x]
    BY <2>1, BoardLeaves
  <2> QED BY <2>1, <2>2
<1>10. Exchange'
  <2>1. ASSUME NEW x \in Targets
        PROVE  /\ inbox'[x] \in {<<>>, <<Current'>>}
               /\ Pending(x)' \/ Replying(x)' \/ Got(x)'
               /\ ~(Pending(x)' /\ Replying(x)') /\ ~(Replying(x)' /\ Got(x)')
               /\ ~(Pending(x)' /\ Got(x)')
    <3>1. /\ inbox[x] \in {<<>>, <<Current>>}
          /\ Pending(x) \/ Replying(x) \/ Got(x)
          /\ ~(Pending(x) /\ Replying(x)) /\ ~(Replying(x) /\ Got(x)) /\ ~(Pending(x) /\ Got(x))
      BY DEF CleanRun, Exchange
    <3>2. CASE x = b
      <4>1. Replying(b)'
        BY <1>1, <1>6, <1>7 DEF Replying
      <4>2. ~Pending(b)' /\ ~Got(b)'
        BY <1>2, <1>8, <1>9 DEF Pending
      <4> QED BY <1>9, <3>2, <4>1, <4>2
    <3>3. CASE x # b
      <4>1. Id(x) # Id(b)
        BY <3>3, IdsCounted DEF Clean
      <4>2. Replying(x)' <=> Replying(x)
        BY <1>1, <1>6, <1>7, <4>1 DEF Replying
      <4>3. Pending(x)' <=> Pending(x)
        BY <1>9, <3>3 DEF Pending
      <4> QED BY <1>8, <1>9, <3>1, <3>3, <4>2, <4>3
    <3> QED BY <3>2, <3>3
  <2>2. ASSUME NEW i \in 1..Len(rx')
        PROVE  /\ rx'[i].src \in Ids'
               /\ rx'[i].answer.code = code
               /\ \A j \in 1..Len(rx') : j < i => rx'[i].src # rx'[j].src
    <3>1. CASE i \in 1..Len(rx)
      <4>1. /\ rx[i].src \in Ids /\ rx[i].answer.code = code
            /\ \A j \in 1..Len(rx) : j < i => rx[i].src # rx[j].src
        BY <3>1 DEF CleanRun, Exchange, code
      <4>2. \A j \in 1..Len(rx') : j < i => j \in 1..Len(rx)
        BY <1>7, <3>1
      <4> QED BY <1>1, <1>7, <3>1, <4>1, <4>2
    <3>2. CASE i = Len(rx) + 1
      <4>1. \A j \in 1..Len(rx) : rx[j].src # Id(b)
        BY <1>2 DEF Replying
      <4>2. Id(b) \in Ids
        BY DEF Ids
      <4>3. \A j \in 1..Len(rx') : j < i => j \in 1..Len(rx)
        BY <1>7, <3>2
      <4> QED BY <1>1, <1>6, <1>7, <3>2, <4>1, <4>2, <4>3
    <3> QED BY <1>7, <3>1, <3>2
  <2>3. /\ Have' \subseteq Ids'
        /\ stage' = "verify" => Cardinality(valid_nodes') = boards_checked'
        /\ \A s \in DOMAIN answers' : answers'[s].code = "success"
    BY <1>1, <1>8 DEF CleanRun, Exchange
  <2>4. code = IF stage' = "verify" THEN "crc_image" ELSE "success"
    BY <1>1 DEF code
  <2> QED BY <1>1, <2>1, <2>2, <2>3, <2>4 DEF Exchange
<1>11. Progress'
  <2>1. Worked(b, stage, page, TRUE)'
    BY <1>1, <1>2, <1>4, WorkedOn
  <2>2. ASSUME NEW x \in Targets \ {b} PROVE Worked(x, stage, page, waiting /\ ~Pending(x))'
    <3>1. Worked(x, stage, page, waiting /\ ~Pending(x))
      BY DEF CleanRun, Progress
    <3>2. Pending(x)' <=> Pending(x)
      BY <1>9, <2>2 DEF Pending
    <3> QED BY <1>1, <1>9, <2>2, <3>1, <3>2 DEF Worked, AsTold, Wanted, StoredPage
  <2>3. waiting' /\ ~Pending(b)'
    BY <1>1, <1>9 DEF Pending
  <2> QED BY <1>1, <2>1, <2>2, <2>3 DEF Progress
<1>12. Undamaged'
  BY <1>2, UndamagedKept DEF CleanRun
<1>13. Tools'
  BY <1>1 DEF CleanRun, Tools
<1> QED BY <1>1, <1>10, <1>11, <1>12, <1>13 DEF CleanRun, Enumeration, Unverified, Between, After

\* A board tells that it does not hold the image.
LEMMA ObeyedUnverified ==
  ASSUME TypeOK, Clean', Clean, CleanRun, NEW b \in Targets, Board(b),
         stage = "verify", waiting, job.dropped # {}
  PROVE  CleanRun'
<1>1. /\ UNCHANGED <<job, stage, page, waiting, answers, boards_checked, valid_nodes, outcome>>
      /\ Targets' = Targets /\ Targets \subseteq Boards
      /\ inbox[b] # <<>> /\ inbox'[b] = Tail(inbox[b])
      /\ \A x \in Targets \ {b} : inbox'[x] = inbox[x]
  BY TargetsAreIds, BoardLeaves, IdsKept
<1>2. job.tool = "flash" /\ Unverified /\ Current' = Current
  BY <1>1 DEF CleanRun, Tools, Current, destinations
<1>3. Current.op = "verify" /\ Current.to = Targets
  BY <1>2 DEF Current, destinations, Targets
<1> HIDE DEF Current
<1>4. inbox[b] = <<Current>> /\ Head(inbox[b]) = Current /\ inbox'[b] = <<>>
  <2>1. inbox[b] = <<Current>>
    BY <1>1, <1>2 DEF Unverified
  <2> QED BY <1>1, <2>1
<1>5. Current \in Command /\ class[b] /\ Addressed(b, Current)
  <2>1. NodeId(b) = b
    BY <1>2 DEF NodeId
  <2> QED BY <1>1, <1>3, <1>4, <2>1, BoardEffect DEF Clean, Addressed
<1>6. ~Holds(b)
  BY <1>2, AsToldHolds DEF CleanRun, Progress, Worked
<1>7. Obeyed(b, Current)
  BY <1>1, <1>3, <1>4, <1>5, BoardObeys
<1>8. UNCHANGED <<flash, saved>>
  BY <1>3, <1>7 DEF Obeyed
<1>9. PICK reply : rx' = Append(rx, reply) /\ reply.answer.code = "crc_other"
  BY <1>3, <1>6, <1>7 DEF Obeyed
<1>10. Unverified'
  <2>1. \A x \in Targets : inbox'[x] \in {<<>>, <<Current'>>}
    BY <1>1, <1>2, <1>4 DEF Unverified
  <2>2. \A i \in 1..Len(rx') : rx'[i].answer.code = "crc_other"
    BY <1>2, <1>9, RxAppended DEF Unverified
  <2> QED BY <1>1, <1>2, <2>1, <2>2 DEF Unverified
<1>11. Progress'
  BY <1>1, <1>8 DEF CleanRun, Progress, Worked, AsTold, Wanted, StoredPage
<1>12. Undamaged'
  BY <1>1, UndamagedKept DEF CleanRun
<1>13. Tools'
  BY <1>1 DEF CleanRun, Tools
<1> QED BY <1>1, <1>10, <1>11, <1>12, <1>13
        DEF CleanRun, Enumeration, Exchange, Counting, Between, After, CommandStages

---------------------------------------------------------------------------
(* The theorem *)

LEMMA InitCleanInv == Init => CleanInv
<1> SUFFICES ASSUME Init, Clean PROVE CleanRun
  BY DEF CleanInv
<1>1. TypeOK
  BY InitIInv DEF IInv
<1>2. /\ stage = (IF job.tool = "flash" THEN "ping" ELSE "update")
      /\ waiting = FALSE /\ retry_count = 0 /\ rx = <<>> /\ page = 0
      /\ boards_checked = 0 /\ valid_nodes = {} /\ DOMAIN answers = {}
      /\ \A b \in Boards : inbox[b] = <<>> /\ ram[b] = "old"
  BY NoAnswersOK DEF Init
<1>3. Targets \subseteq Boards
  BY <1>1, TargetsAreIds
<1>4. Enumeration
  <2>1. Cardinality(Targets) = Len(job.ids) /\ Len(job.ids) \in Nat \ {0}
    BY <1>1, IdsCounted DEF Clean
  <2>2. Cardinality({}) = 0 /\ Targets # {}
    BY <2>1, FS_EmptySet
  <2>3. ENUMERATION_RETRIES \in Nat
    BY FlashToolAssumption
  <2>4. \A i \in 1..Len(rx) : FALSE
    BY <1>2
  <2>5. \A b \in Targets : inbox[b] = <<>> /\ ~Pending(b)
    BY <1>2, <1>3 DEF Pending
  <2> QED BY <1>2, <2>2, <2>3, <2>4, <2>5 DEF Enumeration, Rounds
<1>5. Between
  BY <1>2, <1>3 DEF Between, Pending
<1>6. Progress
  BY <1>2, <1>3 DEF Progress, Worked
<1>7. Undamaged /\ Tools
  BY <1>2 DEF Undamaged, Tools, CommandStages
<1> QED BY <1>2, <1>4, <1>5, <1>6, <1>7 DEF CleanRun, Exchange, Counting, Unverified, After

LEMMA NextCleanInv ==
  IInv /\ IInv' /\ ConfigInv /\ CleanInv /\ [Next]_vars => CleanInv'
<1> SUFFICES ASSUME IInv, IInv', ConfigInv, CleanInv, [Next]_vars, Clean' PROVE CleanRun'
  BY DEF CleanInv
<1>1. TypeOK /\ TypeOK' /\ Clean /\ CleanRun
  BY CleanBefore DEF IInv, CleanInv
<1>2. CASE Ping
  BY <1>1, <1>2, PingClean
<1>3. CASE PingAnswered
  BY <1>1, <1>3, PingAnsweredClean
<1>4. CASE PingTimedOut
  BY <1>1, <1>4, PingTimedOutClean
<1>5. CASE Send
  BY <1>1, <1>5, SendClean
<1>6. CASE Receive
  BY <1>1, <1>6, ReceiveClean
<1>7. CASE Retry
  BY <1>1, <1>7, RetryClean
<1>8. CASE FlashCommandDone
  BY <1>1, <1>8, FlashCommandDoneClean
<1>9. CASE ConfigCommandDone
  BY <1>1, <1>9, ConfigCommandDoneClean
<1>10. CASE Verify
  BY <1>1, <1>10, VerifyClean
<1>11. CASE CheckReply
  BY <1>1, <1>11, CheckReplyClean, CheckReplyUnverified
<1>12. CASE Verified
  BY <1>1, <1>12, VerifiedClean
<1>13. CASE Run
  BY <1>1, <1>13, RunClean
<1>14. ASSUME NEW b \in Boards, Board(b) PROVE CleanRun'
  <2>1. CASE b \notin Targets
    BY <1>1, <1>14, <2>1, BystanderClean
  <2>2. CASE b \in Targets /\ stage = "ping"
    BY <1>1, <1>14, <2>2, PongClean
  <2>3. CASE b \in Targets /\ stage # "ping" /\ (stage = "over" \/ ~waiting)
    BY <1>1, <1>14, <2>3, LeftoverClean
  <2>4. CASE b \in Targets /\ stage \in CommandStages \cup {"verify"} /\ waiting
    BY <1>1, <1>14, <2>4, ObeyedClean, ObeyedUnverified DEF Counting
  <2>5. stage \in {"ping", "over", "run", "verify"} \cup CommandStages /\ (stage = "run" => ~waiting)
    BY <1>1 DEF TypeOK, Stages, CleanRun, Tools
  <2> QED BY <2>1, <2>2, <2>3, <2>4, <2>5
<1>15. ASSUME NEW b \in Boards, Reset(b) PROVE FALSE
  BY <1>1, <1>15, NoCost DEF Reset, Clean
<1>16. CASE UNCHANGED vars
  BY <1>1, <1>16 DEF CleanRun, Undamaged, Enumeration, Exchange, Counting, Unverified, Between,
     After, Progress, Tools, Worked, AsTold, Wanted, StoredPage, Pending, Replying, Got, Have,
     Id, Ids, Targets, Current, destinations, Rounds, Missing, vars, client, memory
<1> QED BY <1>2, <1>3, <1>4, <1>5, <1>6, <1>7, <1>8, <1>9, <1>10, <1>11, <1>12, <1>13, <1>14,
           <1>15, <1>16 DEF Next, Tool

\* As long as nothing goes wrong, each command is on its way to a board, or its answer is
\* on its way back, or was read, and the boards have done what they were told up to then
\* (utils.py:224-296, bootloader_flash.py:76-384, change_id.py:13-40).
THEOREM CleanInvariant == Spec => []CleanInv
<1>1. Init => IInv /\ ConfigInv /\ CleanInv
  BY InitIInv, InitConfigInv, InitCleanInv
<1>2. (IInv /\ ConfigInv /\ CleanInv) /\ [Next]_vars => (IInv /\ ConfigInv /\ CleanInv)'
  BY NextIInv, NextConfigInv, NextCleanInv
<1> QED BY <1>1, <1>2, PTL DEF Spec

\* If nothing goes wrong, the tools do what they are asked: they end with success and the
\* boards have saved their configuration (bootloader_flash.py:436-506, write_config.py:42-60,
\* change_id.py:13-40), for any number of boards that is not more than the rounds of pings.
\* But an image that has a page the boards do not store, inside the last sector of the flash
\* memory (flash_writer.c:226-242), ends with a failed verification.
THEOREM CleanSucceeds == Spec => []CleanRunSucceeds
<1>1. CleanInv /\ IInv => CleanRunSucceeds
  BY DEF CleanInv, Clean, CleanRun, After, Progress, Worked, IInv, TypeOK, CleanRunSucceeds
<1>2. Spec => []IInv
  BY ChecksumInvariant
<1> QED BY <1>1, <1>2, CleanInvariant, PTL
=============================================================================
