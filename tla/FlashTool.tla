------------------------------ MODULE FlashTool ------------------------------
(***************************************************************************)
(* The client's tools that change boards: bootloader_flash,                *)
(* bootloader_write_config and bootloader_change_id                        *)
(* (client/cvra_bootloader), with write_command_retry() (utils.py), and    *)
(* several boards that lose, damage or answer late what they are sent.     *)
(*                                                                         *)
(* The boards are what Exchange, FlashWriter and ConfigStore say of them,  *)
(* told by their replies: a datagram arrives, is damaged (and complained   *)
(* about by every board that received it, addressed or not) or is lost; a  *)
(* page of the image is as it was, blank, written, or bad.                 *)
(***************************************************************************)
EXTENDS Integers, Sequences, FiniteSets, SequencesExt

CONSTANTS Boards,          \* the IDs of the boards on the bus
          NewId,           \* the ID bootloader_change_id gives
          Jobs,            \* tools, the IDs they are called with, and the pages of the
                           \* image that begin inside the last sector of the flash
          Pages,           \* number of pages of the image
          ENUMERATION_RETRIES,
          EraseRetries,    \* retry_limit of an erase: 5
          ConfigRetries,   \* retry_limit of a configuration command: 3
          MaxFaults        \* bound: everything below that goes wrong

ASSUME FlashToolAssumption ==
  /\ IsFiniteSet(Boards) /\ NewId \notin Boards
  /\ Jobs \subseteq [tool : {"flash", "write_config", "change_id"}, ids : Seq(Boards),
                     dropped : SUBSET (1..Pages)]
  /\ \A j \in Jobs : /\ j.ids # <<>> /\ (j.tool = "change_id" => Len(j.ids) = 1)
                     /\ j.tool # "flash" => j.dropped = {}
  /\ Pages \in Nat \ {0}
  /\ {ENUMERATION_RETRIES, EraseRetries, ConfigRetries, MaxFaults} \subseteq Nat

VARIABLES
  job, stage, page,       \* what is to be done, and how far it is
  waiting,                \* has the command of this stage been sent?
  answers,                \* IDs -> the last reply of each
  retry_count,            \* in enumerate_online_nodes(): pings sent
  rx,                     \* rx_queue: replies received and not read
  boards_checked, valid_nodes,
  outcome                 \* how the tool ended

VARIABLES
  inbox,                  \* datagrams a board has not dealt with
  class,                  \* is it of the device class of the image?
  flash,                  \* pages of the application
  ram, saved,             \* its configuration: "old", or "new" as the tool wants it
  running                 \* has it started the application?

\* Auxiliary variables.
VARIABLES
  unheeded,               \* a stage was left with answers that do not tell that it was done
  lapsed,                 \* boards that were reset before they saved their configuration,
                          \* or whose flash memory failed when they did
  faults

client == <<job, stage, page, waiting, answers, retry_count, boards_checked, valid_nodes,
            outcome, unheeded>>
memory == <<class, flash, ram, saved, running, lapsed>>
vars == <<client, rx, inbox, memory, faults>>

PageNumbers == 1..Pages
CommandStages == {"erase", "write", "update", "save"}
Stages == {"ping", "verify", "run", "over"} \cup CommandStages

Command == [op : {"ping", "verify", "run", "damaged"} \cup CommandStages,
            page : 0..Pages, to : SUBSET (Boards \cup {NewId})]

\* `of' is what a reply is the reply to, for the auxiliary variables.
Codes == {"success", "failed", "failed_then_success", "complaint", "erase_refused",
          "write_refused", "not_erased", "crc_image", "crc_other"}
Answer == [code : Codes, of : {"ping", "verify", "damaged"} \cup CommandStages,
           page : 0..Pages]
Reply == [src : Boards \cup {NewId}, answer : Answer]

TypeOK ==
  /\ job \in Jobs /\ stage \in Stages /\ page \in 0..Pages
  /\ stage \in {"erase", "write"} <=> page > 0
  /\ waiting \in BOOLEAN
  /\ DOMAIN answers \subseteq Boards \cup {NewId}
  /\ \A s \in DOMAIN answers : answers[s] \in Answer
  /\ retry_count \in Nat /\ boards_checked \in Nat
  /\ valid_nodes \subseteq Boards \cup {NewId}
  /\ outcome \in {"none", "done", "aborted", "offline", "not_verified", "crashed"}
  /\ stage = "over" <=> outcome # "none"
  /\ rx \in Seq(Reply)
  /\ inbox \in [Boards -> Seq(Command)]
  /\ class \in [Boards -> BOOLEAN]
  /\ flash \in [Boards -> [PageNumbers -> {"old", "blank", "image", "bad"}]]
  /\ ram \in [Boards -> {"old", "new"}] /\ saved \in [Boards -> {"old", "new"}]
  /\ running \in [Boards -> BOOLEAN]
  /\ unheeded \in BOOLEAN /\ lapsed \subseteq Boards
  /\ faults \in 0..MaxFaults

\* A board answers to the ID in its RAM.
NodeId(b) == IF job.tool = "change_id" /\ b \in ToSet(job.ids) /\ ram[b] = "new"
             THEN NewId ELSE b

\* The destinations of the commands of a stage.
destinations ==
  IF job.tool = "change_id" /\ stage = "save" THEN <<NewId>> ELSE job.ids

Targets == ToSet(job.ids)

NoAnswers == <<>>

Init ==
  /\ job \in Jobs
  /\ stage = (IF job.tool = "flash" THEN "ping" ELSE "update")
  /\ page = 0 /\ waiting = FALSE /\ answers = NoAnswers /\ retry_count = 0 /\ rx = <<>>
  /\ boards_checked = 0 /\ valid_nodes = {} /\ outcome = "none"
  /\ inbox = [b \in Boards |-> <<>>]
  /\ class \in [Boards -> BOOLEAN]
  /\ \A b \in Boards : class[b] \/ (job.tool = "flash" /\ b \in Targets)   \* else irrelevant
  /\ flash = [b \in Boards |-> [p \in PageNumbers |-> "old"]]
  /\ ram = [b \in Boards |-> "old"] /\ saved = [b \in Boards |-> "old"]
  /\ running = [b \in Boards |-> FALSE]
  /\ unheeded = FALSE /\ lapsed = {} /\ faults = 0

Cost(n) == faults' = faults + n /\ faults' <= MaxFaults

---------------------------------------------------------------------------
(* Sending *)

\* Is a board late?  The client sleeps before it sends, and waits for seconds
\* before it takes a reply for lost.
Late == IF \E b \in Boards : inbox[b] # <<>> THEN 1 ELSE 0

\* write_command(): all boards read the datagram, whoever it is sent to.
write_command(to) ==
  LET command == [op |-> stage, page |-> page, to |-> to]
      damaged == [op |-> "damaged", page |-> 0, to |-> {}]
  IN \E arrives, garbled \in SUBSET Boards :
       /\ arrives \cap garbled = {}
       /\ inbox' = [b \in Boards |->
                      CASE b \in arrives -> Append(inbox[b], command)
                        [] b \in garbled -> Append(inbox[b], damaged)
                        [] OTHER -> inbox[b]]
       /\ Cost(Late + Cardinality(Boards \ arrives))

---------------------------------------------------------------------------
(* enumerate_online_nodes() *)

End(result) ==
  /\ stage' = "over" /\ outcome' = result
  /\ page' = 0 /\ waiting' = FALSE /\ answers' = NoAnswers /\ retry_count' = 0
  /\ boards_checked' = 0 /\ valid_nodes' = {}

\* Mutant: the stages after the pages go on with their number.
Begin_PageKept(s, p) ==
  /\ stage' = s /\ page' = IF p = 0 THEN page ELSE p
  /\ waiting' = FALSE /\ answers' = NoAnswers /\ retry_count' = 0
  /\ UNCHANGED <<boards_checked, valid_nodes, outcome>>

\* The first command of stage s, page p, is to be sent.
Begin(s, p) ==
  /\ stage' = s /\ page' = p
  /\ waiting' = FALSE /\ answers' = NoAnswers /\ retry_count' = 0
  /\ UNCHANGED <<boards_checked, valid_nodes, outcome>>

Ping ==
  /\ stage = "ping" /\ ~waiting /\ retry_count < ENUMERATION_RETRIES
  /\ write_command(Targets)
  /\ waiting' = TRUE /\ retry_count' = retry_count + 1
  /\ UNCHANGED <<job, stage, page, answers, boards_checked, valid_nodes, outcome, unheeded,
                 rx, memory>>

Remember(reply) ==
  [s \in DOMAIN answers \cup {reply.src} |->
     IF s = reply.src THEN reply.answer ELSE answers[s]]

\* The next stage if all are online, or the next round, or the end.
Enumerated(replies) ==
  \/ Targets \subseteq DOMAIN replies /\ Begin("erase", 1)
  \/ /\ ~(Targets \subseteq DOMAIN replies)
     /\ \/ retry_count = ENUMERATION_RETRIES /\ End("offline")
        \/ /\ retry_count < ENUMERATION_RETRIES
           /\ waiting' = FALSE /\ answers' = replies
           /\ UNCHANGED <<stage, page, retry_count, boards_checked, valid_nodes, outcome>>

\* One reply is read in each round.
PingAnswered ==
  /\ stage = "ping" /\ waiting /\ rx # <<>>
  /\ rx' = Tail(rx)
  /\ Enumerated(Remember(Head(rx)))
  /\ UNCHANGED <<job, unheeded, inbox, memory, faults>>

PingTimedOut ==
  /\ stage = "ping" /\ waiting /\ rx = <<>>
  /\ Enumerated(answers)
  /\ Cost(Late)
  /\ UNCHANGED <<job, unheeded, rx, inbox, memory>>

---------------------------------------------------------------------------
(* write_command_retry() *)

\* Mutant: the reception buffer is not cleared.
Cleared_Not == rx

\* The reception buffer after it was cleared.
Cleared == <<>>

Send ==
  /\ stage \in CommandStages /\ ~waiting
  /\ rx' = Cleared
  /\ write_command(ToSet(destinations))
  /\ waiting' = TRUE
  /\ UNCHANGED <<job, stage, page, answers, retry_count, boards_checked, valid_nodes, outcome,
                 unheeded, memory>>

\* Mutant: the first answer will do.
Complete_One == answers # NoAnswers

\* Mutant: one answer more than there are boards.
Complete_More == Cardinality(DOMAIN answers) > Len(destinations)

\* The answers are counted, whoever they are from.
Complete == Cardinality(DOMAIN answers) >= Len(destinations)

Receive ==
  /\ stage \in CommandStages /\ waiting /\ ~Complete
  /\ rx # <<>> /\ rx' = Tail(rx)
  /\ answers' = Remember(Head(rx))
  /\ UNCHANGED <<job, stage, page, waiting, retry_count, boards_checked, valid_nodes, outcome,
                 unheeded, inbox, memory, faults>>

retry_limit == IF stage = "erase" THEN EraseRetries ELSE ConfigRetries

timedout_boards == ToSet(destinations) \ DOMAIN answers

TimedOut ==
  /\ stage \in CommandStages /\ waiting /\ ~Complete
  /\ rx = <<>> /\ timedout_boards # {}

Retry ==
  /\ TimedOut
  /\ \/ stage = "write" /\ UNCHANGED retry_count      \* retry_forever
     \/ stage # "write" /\ retry_count < retry_limit /\ retry_count' = retry_count + 1
  /\ write_command(timedout_boards)
  /\ UNCHANGED <<job, stage, page, waiting, answers, boards_checked, valid_nodes, outcome,
                 unheeded, rx, memory>>

\* error_exit, or the answers there are.
GiveUp == TimedOut /\ stage # "write" /\ retry_count = retry_limit

---------------------------------------------------------------------------
(* flash_image(), config_update_and_save() and change_id.py *)

CodesGiven == {answers[s].code : s \in DOMAIN answers}

\* Of an erase or a write, the codes of the answers are looked at: unpackb() raises
\* an exception on a reply of two objects.
Crash == "failed_then_success" \in CodesGiven

\* Mutant: a board of another class is not taken for a fatal error.
Fatal_SameClass == stage = "write" /\ "not_erased" \in CodesGiven

\* The fatal codes are those of the stage; any other one is printed as unrecognized.
Fatal ==
  \/ stage = "erase" /\ "erase_refused" \in CodesGiven
  \/ stage = "write" /\ CodesGiven \cap {"write_refused", "not_erased"} # {}

\* To all boards.
Again == "complaint" \in CodesGiven

Advance ==
  \/ stage = "erase" /\ page < Pages /\ Begin("erase", page + 1)
  \/ stage = "erase" /\ page = Pages /\ Begin("write", 1)
  \/ stage = "write" /\ page < Pages /\ Begin("write", page + 1)
  \/ stage = "write" /\ page = Pages /\ Begin("update", 0)
  \/ stage = "update" /\ Begin("save", 0)
  \/ stage = "save" /\ job.tool = "flash" /\ Begin("verify", 0)
  \/ stage = "save" /\ job.tool # "flash" /\ End("done")

\* Is it an answer to the command of this stage and, where the tool does not look,
\* does it tell that the command was carried out?
Heeds(answer) ==
  /\ answer.of = stage /\ answer.page = page
  /\ stage \in {"update", "save"} => answer.code = "success"

Left == unheeded' = (unheeded \/ \E s \in DOMAIN answers : ~Heeds(answers[s]))

Evaluate ==
  \/ Crash /\ End("crashed") /\ UNCHANGED unheeded
  \/ ~Crash /\ Fatal /\ End("aborted") /\ UNCHANGED unheeded
  \/ ~Crash /\ ~Fatal /\ Again /\ Begin(stage, page) /\ UNCHANGED unheeded
  \/ ~Crash /\ ~Fatal /\ ~Again /\ Advance /\ Left

\* What the boards answer to the update and to the saving of the configuration is
\* not looked at.
FlashCommandDone ==
  /\ stage \in {"erase", "write"} /\ waiting
  /\ \/ Complete /\ UNCHANGED faults
     \/ GiveUp /\ Cost(Late)
  /\ Evaluate
  /\ UNCHANGED <<job, rx, inbox, memory>>

ConfigCommandDone ==
  /\ stage \in {"update", "save"} /\ waiting
  /\ \/ Complete /\ Advance /\ Left /\ UNCHANGED faults
     \/ GiveUp /\ End("aborted") /\ Cost(Late) /\ UNCHANGED unheeded
  /\ UNCHANGED <<job, rx, inbox, memory>>

---------------------------------------------------------------------------
(* verify_flash_write() and run_application() *)

Verify ==
  /\ stage = "verify" /\ ~waiting
  /\ write_command(Targets)
  /\ waiting' = TRUE
  /\ UNCHANGED <<job, stage, page, answers, retry_count, boards_checked, valid_nodes, outcome,
                 unheeded, rx, memory>>

\* Mutant: whatever a board answers, it is valid.
Valid_Answered(reply) == {reply.src}

Valid(reply) == IF reply.answer.code = "crc_image" THEN {reply.src} ELSE {}

\* Every reply counts, whatever it is a reply to.
CheckReply ==
  /\ stage = "verify" /\ waiting /\ boards_checked < Len(job.ids)
  /\ rx # <<>> /\ rx' = Tail(rx)
  /\ \/ Head(rx).answer.code = "failed_then_success" /\ End("crashed")
     \/ /\ Head(rx).answer.code # "failed_then_success"
        /\ boards_checked' = boards_checked + 1
        /\ valid_nodes' = valid_nodes \cup Valid(Head(rx))
        /\ UNCHANGED <<stage, page, waiting, answers, retry_count, outcome>>
  /\ UNCHANGED <<job, unheeded, inbox, memory, faults>>

\* Without the option --run, this is the end.
Verified ==
  /\ stage = "verify" /\ boards_checked = Len(job.ids)
  /\ \/ valid_nodes # Targets /\ End("not_verified")
     \/ valid_nodes = Targets /\ End("done")
     \/ valid_nodes = Targets /\ Begin("run", 0)
  /\ UNCHANGED <<job, unheeded, rx, inbox, memory, faults>>

Run ==
  /\ stage = "run"
  /\ write_command(Targets)
  /\ End("done")
  /\ UNCHANGED <<job, unheeded, rx, memory>>

---------------------------------------------------------------------------
(* The boards *)

\* A board replies; the reply may get lost.
Answers(b, answer) ==
  \/ rx' = Append(rx, [src |-> NodeId(b)', answer |-> answer]) /\ UNCHANGED faults
  \/ Cost(1) /\ UNCHANGED rx

\* Pages and code of an erase and a write.  The driver may fail: see FlashWriter.
SetPage(b, p, content) == flash' = [flash EXCEPT ![b][p] = content]

Erased(b, p, code) ==
  \/ ~class[b] /\ code = "erase_refused" /\ UNCHANGED flash
  \/ class[b] /\ code = "success" /\ SetPage(b, p, "blank")

EraseFails(b, p, code) ==
  /\ class[b]
  /\ \/ code = "failed_then_success" /\ SetPage(b, p, "blank")
     \/ code = "success" /\ SetPage(b, p, "bad")

\* Is a write of this page carried out?  Inside the last sector it is given up before
\* anything is programmed, and answered like any other.
StoredPage(p) == p \notin job.dropped

Written(b, p, code) ==
  \/ ~class[b] /\ code = "write_refused" /\ UNCHANGED flash
  \/ class[b] /\ flash[b][p] # "blank" /\ code = "not_erased" /\ UNCHANGED flash
  \/ /\ class[b] /\ flash[b][p] = "blank" /\ code = "success"
     /\ IF StoredPage(p) THEN SetPage(b, p, "image") ELSE UNCHANGED flash

WriteFails(b, p, code) ==
  /\ class[b] /\ flash[b][p] = "blank" /\ StoredPage(p)
  /\ code = "success" /\ SetPage(b, p, "bad")

Holds(b) == \A p \in PageNumbers : flash[b][p] = "image"

Config(b, op, code) ==
  \/ op = "update" /\ code = "success" /\ ram' = [ram EXCEPT ![b] = "new"]
       /\ UNCHANGED saved
  \/ op = "save" /\ code = "success" /\ saved' = [saved EXCEPT ![b] = ram[b]]
       /\ UNCHANGED ram

\* A datagram that is damaged, sent to others, or read-only.
Reads(b, command, code) ==
  \/ command.op = "damaged" /\ code = "complaint"
  \/ command.op = "ping" /\ code = "success"
  \/ command.op = "verify" /\ code = (IF Holds(b) THEN "crc_image" ELSE "crc_other")

Execute(b, command) ==
  \E code \in Codes :
    /\ \/ command.op = "erase" /\ Erased(b, command.page, code) /\ UNCHANGED <<ram, saved>>
       \/ command.op = "write" /\ Written(b, command.page, code) /\ UNCHANGED <<ram, saved>>
       \/ Config(b, command.op, code) /\ UNCHANGED flash
       \/ Reads(b, command, code) /\ UNCHANGED <<flash, ram, saved>>
    /\ Answers(b, [code |-> code, of |-> command.op, page |-> command.page])

\* The pages of the configuration differ when a save fails: the board starts with
\* either from then on.  It reports success if what it finds in each is valid, be it
\* what was there before: see ConfigStore.
SaveFails(b, code) ==
  /\ code \in {"failed", "success"}
  /\ \E kept \in {"old", "new"} : saved' = [saved EXCEPT ![b] = kept]
  /\ lapsed' = lapsed \cup {b}

\* An operation on the flash memory fails.
ExecuteBadly(b, command) ==
  \E code \in Codes :
    /\ \/ /\ \/ command.op = "erase" /\ EraseFails(b, command.page, code)
             \/ command.op = "write" /\ WriteFails(b, command.page, code)
          /\ UNCHANGED <<saved, lapsed>>
       \/ command.op = "save" /\ SaveFails(b, code) /\ UNCHANGED flash
    /\ rx' = Append(rx, [src |-> NodeId(b),
                         answer |-> [code |-> code, of |-> command.op, page |-> command.page]])
    /\ Cost(1) /\ UNCHANGED ram

\* command_jump_to_application() starts the application if its CRC is that of the
\* configuration; in any case the board is reset.
Jump(b) ==
  /\ running' = [running EXCEPT ![b] = Holds(b) /\ ram[b] = "new"]
  /\ ram' = [ram EXCEPT ![b] = saved[b]]
  /\ UNCHANGED <<rx, flash, saved, faults>>

Addressed(b, command) == command.op = "damaged" \/ NodeId(b) \in command.to

Board(b) ==
  /\ inbox[b] # <<>> /\ inbox' = [inbox EXCEPT ![b] = Tail(@)]
  /\ UNCHANGED <<client, class>>
  /\ LET command == Head(inbox[b])
     IN \/ /\ Addressed(b, command)
           /\ \/ Execute(b, command) /\ UNCHANGED <<running, lapsed>>
              \/ ExecuteBadly(b, command) /\ UNCHANGED running
              \/ command.op = "run" /\ Jump(b) /\ UNCHANGED lapsed
        \/ /\ ~Addressed(b, command)
           /\ UNCHANGED <<rx, flash, ram, saved, running, lapsed, faults>>

\* The power of a board fails while the tool is at work; it stays in the bootloader.
Reset(b) ==
  /\ stage # "over"
  /\ Cost(1)
  /\ inbox' = [inbox EXCEPT ![b] = <<>>]
  /\ ram' = [ram EXCEPT ![b] = saved[b]]
  /\ lapsed' = IF ram[b] # saved[b] THEN lapsed \cup {b} ELSE lapsed
  /\ UNCHANGED <<client, rx, class, flash, saved, running>>

Tool == \/ Ping \/ PingAnswered \/ PingTimedOut
        \/ Send \/ Receive \/ Retry \/ FlashCommandDone \/ ConfigCommandDone
        \/ Verify \/ CheckReply \/ Verified \/ Run

Next == \/ Tool
        \/ \E b \in Boards : Board(b)
        \/ \E b \in Boards : Reset(b)

\* The tool and the boards go on.
Spec == Init /\ [][Next]_vars /\ WF_vars(Tool) /\ \A b \in Boards : WF_vars(Board(b))

---------------------------------------------------------------------------
(* Properties *)

\* bootloader_flash.py:104 ("if not, the flash write and checksum process will fail
\* anyway"): whatever was lost, late, counted for the wrong command or skipped, when
\* the tool reports success or starts the application, all boards hold the image.
VerifiedMeansStored ==
  (job.tool = "flash" /\ (outcome = "done" \/ stage = "run")) =>
    \A b \in Targets : Holds(b)

\* When a tool reports success, a board has saved its configuration, unless it was
\* reset before it did or its flash memory failed it then (it may have said "success"
\* all the same), or an answer was taken that was not one to the command, or told that
\* it failed: what was lost, late or sent again never is the reason alone.
SavedWhenDone ==
  outcome = "done" =>
    \A b \in Targets : saved[b] = "new" \/ b \in lapsed \/ unheeded

\* A board of another device class keeps its configuration, although that command
\* does not name the class, with the same exception.
WrongClassKeepsConfig ==
  \A b \in Boards : ~class[b] => ram[b] = "old" \/ unheeded

Duplicates == Cardinality(Targets) < Len(job.ids)

\* If nothing goes wrong, the tools do what they are asked, as long as there are no
\* more boards than rounds of pings, and none is named twice.  But an image with a page
\* that begins inside the last sector is never verified, although every erase and every
\* write of it reported success.
CleanRunSucceeds ==
  (outcome # "none" /\ faults = 0 /\ (\A b \in Boards : class[b]) /\ ~Duplicates
     /\ Len(job.ids) <= ENUMERATION_RETRIES)
  => /\ outcome = IF job.dropped = {} THEN "done" ELSE "not_verified"
     /\ \A b \in Targets : saved[b] = "new"

\* A tool comes to its end, but for the verification, which waits for a lost reply,
\* and when a board is named twice: it never gives two answers.  (A write is sent again
\* without a limit: the tool leaves it because things go wrong a finite number of times
\* here.  A board that is silent for good keeps it there.)
OnlyVerificationHangs ==
  <>(stage = "over" \/ (stage = "verify" /\ faults > 0) \/ Duplicates)
=============================================================================
