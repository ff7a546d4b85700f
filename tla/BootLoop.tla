------------------------------ MODULE BootLoop ------------------------------
(***************************************************************************)
(* One board from reset to application: the reset handler and the boot     *)
(* argument it finds in RAM (boot.s, boot_arg.c), the main loop of the     *)
(* bootloader (bootloader.c) with its two timeouts (timeout_timer.c), and  *)
(* the dispatch of commands (execute_datagram_commands in command.c).      *)
(*                                                                         *)
(* A datagram takes Frames frames, of which only the first has the start   *)
(* bit.  Frames reach the loop in any order, with any of them missing, as  *)
(* several senders and a lossy bus may deliver them; the reader accepts a  *)
(* datagram exactly when all of its frames came in order (its CRC).  The   *)
(* millisecond interrupt may come between any two steps of the loop.       *)
(*                                                                         *)
(* The application in flash, and what the configuration says of it (size   *)
(* and CRC), are members of Images: the CRC matches when they are equal.   *)
(***************************************************************************)
EXTENDS Integers

CONSTANTS TimeLimit,        \* time_ms is a uint32_t: 2^32
          BootTimeout,      \* BOOTLOADER_TIMEOUT
          DatagramTimeout,  \* DATAGRAM_TIMEOUT
          MaxLag,           \* bound: milliseconds one turn of the loop takes
          Frames,           \* frames of a datagram
          Images,           \* contents of the application area
          Lengths           \* bytes of the replies to queries

ASSUME TimesAssumption ==
  /\ BootTimeout \in Nat \ {0} /\ DatagramTimeout \in Nat \ {0} /\ MaxLag \in Nat \ {0}
  /\ TimeLimit \in Nat
  /\ TimeLimit > BootTimeout + 2 * MaxLag
  /\ TimeLimit > DatagramTimeout + 2 * MaxLag
  /\ Frames \in Nat /\ Frames > 1
  /\ Lengths \subseteq Nat \ {0}

\* Arguments of reboot_system(), and a RAM without the magic value.
StartBootloader == 0
NoTimeout == 1
StartApplication == 2
StartStBootloader == 3
Arguments == 0..3
NoMagic == 4

\* Codes of error.h.
ERROR_UNSPECIFIED == 0
SUCCESS == 1
ERROR_CORRUPT_DATAGRAM == 2
ERROR_DATAGRAM_TIMEOUT == 6

\* Commands by what they do to the board: "query" stands for all that only
\* reply, "write_flash" for erasing and writing however they end (FlashWriter
\* has their replies), "refused" for a command with a wrong version, an unknown
\* index or an undecodable one.
Commands == {"query", "write_flash", "config_update", "config_save", "get_status",
             "jump", "refused"}

\* ERR_INVALID_COMMAND, ERR_COMMAND_NOT_FOUND, ERR_INVALID_COMMAND_SET_VERSION:
\* what the dispatcher returns, negated, for a command it refuses.
RefusalCodes == {3, 4, 5}

Datagrams == Commands \cup {"for_other_boards"}
Empty == [dg |-> "none", n |-> 0]
Garbage == [dg |-> "garbage", n |-> 0]

VARIABLES
  ram_arg,                    \* the boot argument at ram_begin
  pc,                         \* where the processor is
  arg,                        \* the argument of bootloader_main()
  time_ms,
  bootloader_timeout_enabled, bootloader_timeout_start_ms,
  datagram_timeout_running, datagram_timeout_start_ms,
  dt,                         \* frames read of the current datagram
  command,                    \* the datagram being executed
  output_buf,                 \* the last reply: its kind, and the code if it is an
                              \* error or a status ("nothing": not initialized)
  reply_length,               \* uint8_t
  status,
  app, saved, config          \* application area, configuration in flash, in RAM

\* Auxiliary variables.
VARIABLES
  lag,                        \* milliseconds since this turn of the loop began
  uptime, silence,            \* while the timeouts run, up to them: since
                              \* bootloader_timeout_start(), since the last frame
  heard,                      \* was a command for this board read since the reset?
  granted                     \* may the next reset start the application?

timer == <<time_ms, bootloader_timeout_enabled, bootloader_timeout_start_ms,
           datagram_timeout_running, datagram_timeout_start_ms, uptime, silence>>
dialogue == <<dt, command, output_buf, reply_length, status, heard>>
flash == <<app, saved>>
vars == <<ram_arg, pc, arg, timer, lag, dialogue, flash, config, granted>>

Replies == [to : {"nothing", "command", "error"}, code : 0..255]
Nothing == [to |-> "nothing", code |-> 0]

Running == {"start", "top", "datagram", "read", "execute", "respond"}

TypeOK ==
  /\ ram_arg \in Arguments \cup {NoMagic}
  /\ pc \in {"reset", "app", "st_bootloader"} \cup Running
  /\ arg \in {StartBootloader, NoTimeout}
  /\ time_ms \in 0..TimeLimit-1
  /\ bootloader_timeout_start_ms \in 0..TimeLimit-1
  /\ datagram_timeout_start_ms \in 0..TimeLimit-1
  /\ bootloader_timeout_enabled \in BOOLEAN /\ datagram_timeout_running \in BOOLEAN
  /\ dt \in {Empty, Garbage} \cup [dg : Datagrams, n : 1..Frames-1]
  /\ command \in Commands \cup {"none"}
  /\ output_buf \in Replies /\ reply_length \in 0..255 /\ status \in 0..255
  /\ app \in Images /\ saved \in Images /\ config \in Images
  /\ lag \in 0..MaxLag /\ uptime \in 0..BootTimeout /\ silence \in 0..DatagramTimeout
  /\ heard \in BOOLEAN /\ granted \in BOOLEAN

---------------------------------------------------------------------------
(* Time *)

\* Mutant: times are compared without regard to the overflow of the counter.
Since_NoWrap(start) == time_ms - start

\* Milliseconds since start, in unsigned arithmetic.
Since(start) == (time_ms - start) % TimeLimit

\* Mutant: the very millisecond of the timeout must be caught.
bootloader_timeout_reached_Exact == Since(bootloader_timeout_start_ms) = BootTimeout

bootloader_timeout_reached == Since(bootloader_timeout_start_ms) >= BootTimeout
datagram_timeout_reached == Since(datagram_timeout_start_ms) >= DatagramTimeout

\* Mutant: the counter does not overflow.
NextMs_NoWrap == time_ms + 1

NextMs == (time_ms + 1) % TimeLimit

Lesser(x, y) == IF x < y THEN x ELSE y

systick_handler ==
  /\ pc \in Running
  /\ lag < MaxLag /\ lag' = lag + 1
  /\ time_ms' = NextMs
  /\ uptime' = IF bootloader_timeout_enabled THEN Lesser(uptime + 1, BootTimeout) ELSE 0
  /\ silence' = IF datagram_timeout_running THEN Lesser(silence + 1, DatagramTimeout) ELSE 0
  /\ UNCHANGED <<ram_arg, pc, arg, bootloader_timeout_enabled,
                 bootloader_timeout_start_ms, datagram_timeout_running,
                 datagram_timeout_start_ms, dialogue, flash, config, granted>>

---------------------------------------------------------------------------
(* Reset *)

\* The processor is reset, and bootloader_startup() gives all variables their initial
\* values: only ram_begin and the flash keep theirs.
Forget ==
  /\ pc' = "reset"
  /\ arg' = StartBootloader
  /\ time_ms' = 0 /\ lag' = 0 /\ uptime' = 0 /\ silence' = 0
  /\ bootloader_timeout_enabled' = FALSE /\ bootloader_timeout_start_ms' = 0
  /\ datagram_timeout_running' = FALSE /\ datagram_timeout_start_ms' = 0
  /\ dt' = Empty /\ command' = "none" /\ output_buf' = Nothing
  /\ reply_length' = 0 /\ status' = 0 /\ heard' = FALSE
  /\ config' = saved

reboot_system(a) ==
  /\ ram_arg' = a
  /\ Forget

Init ==
  /\ ram_arg = NoMagic
  /\ pc = "reset" /\ arg = StartBootloader
  /\ time_ms = 0 /\ lag = 0 /\ uptime = 0 /\ silence = 0
  /\ bootloader_timeout_enabled = FALSE /\ bootloader_timeout_start_ms = 0
  /\ datagram_timeout_running = FALSE /\ datagram_timeout_start_ms = 0
  /\ dt = Empty /\ command = "none" /\ output_buf = Nothing
  /\ reply_length = 0 /\ status = 0 /\ heard = FALSE
  /\ app \in Images /\ saved \in Images /\ config = saved
  /\ granted = FALSE

\* Mutant: the application is started without a look at its CRC.
JumpArgument_Unchecked == StartApplication

\* The argument command_jump_to_application reboots with.
JumpArgument == IF app = config THEN StartApplication ELSE NoTimeout

command_jump_to_application ==
  /\ reboot_system(JumpArgument)
  /\ granted' = (app = config)
  /\ UNCHANGED flash

\* Mutant: the argument stays in RAM.
Cleared_Kept == ram_arg

\* What the reset handler leaves at ram_begin.
Cleared == NoMagic

reset_handler ==
  /\ pc = "reset"
  /\ ram_arg' = Cleared
  /\ \/ /\ ram_arg = StartApplication
        /\ pc' = "app" /\ UNCHANGED arg
     \/ /\ ram_arg = StartStBootloader
        /\ pc' = "st_bootloader" /\ UNCHANGED arg
     \/ /\ ram_arg \notin {StartApplication, StartStBootloader}
        /\ pc' = "start"
        /\ arg' = IF ram_arg = NoMagic THEN StartBootloader ELSE ram_arg
  /\ granted' = FALSE
  /\ UNCHANGED <<timer, lag, dialogue, flash, config>>

\* platform_main(), and bootloader_main() up to the loop.
bootloader_main ==
  /\ pc = "start"
  /\ bootloader_timeout_enabled' = (arg # NoTimeout)
  /\ bootloader_timeout_start_ms' = time_ms
  /\ uptime' = 0 /\ lag' = 0
  /\ pc' = "top"
  /\ UNCHANGED <<ram_arg, arg, time_ms, datagram_timeout_running,
                 datagram_timeout_start_ms, silence, dialogue, flash, config, granted>>

\* A bus fault, say in a command that reads beyond the end of flash.
fault_handler ==
  /\ pc \in Running
  /\ reboot_system(NoTimeout)
  /\ granted' = FALSE
  /\ UNCHANGED flash

\* The reset pin or a watchdog: RAM survives.  A loss of power: it does not.
HardwareReset ==
  /\ ram_arg' \in {ram_arg, NoMagic}
  /\ Forget
  /\ UNCHANGED <<flash, granted>>

\* The application restarts the board with an argument of its choice.
ApplicationReboots ==
  /\ pc = "app"
  /\ \E a \in Arguments : reboot_system(a) /\ granted' = (a = StartApplication)
  /\ UNCHANGED flash

---------------------------------------------------------------------------
(* The main loop: timeouts *)

TimeoutJump ==
  /\ pc = "top"
  /\ bootloader_timeout_enabled /\ bootloader_timeout_reached
  /\ command_jump_to_application

NoJump ==
  /\ pc = "top"
  /\ ~(bootloader_timeout_enabled /\ bootloader_timeout_reached)
  /\ pc' = "datagram"
  /\ UNCHANGED <<ram_arg, arg, timer, lag, dialogue, flash, config, granted>>

\* return_error_datagram() and set_status()
ErrorReply(code) ==
  /\ output_buf' = [to |-> "error", code |-> code]
  /\ status' = code

DatagramTimeOut ==
  /\ pc = "datagram"
  /\ datagram_timeout_running /\ datagram_timeout_reached
  /\ ErrorReply(ERROR_DATAGRAM_TIMEOUT)
  /\ dt' = Empty
  /\ datagram_timeout_running' = FALSE
  /\ pc' = "read"
  /\ UNCHANGED <<ram_arg, arg, time_ms, bootloader_timeout_enabled,
                 bootloader_timeout_start_ms, datagram_timeout_start_ms, lag, uptime,
                 silence, command, reply_length, heard, flash, config, granted>>

NoTimeOut ==
  /\ pc = "datagram"
  /\ ~(datagram_timeout_running /\ datagram_timeout_reached)
  /\ pc' = "read"
  /\ UNCHANGED <<ram_arg, arg, timer, lag, dialogue, flash, config, granted>>

---------------------------------------------------------------------------
(* The main loop: frames *)

\* Another turn of the loop.
Continue == pc' = "top" /\ lag' = 0

\* No frame, or one with the ID of another board.
NoFrame ==
  /\ pc = "read"
  /\ Continue
  /\ UNCHANGED <<ram_arg, arg, timer, dialogue, flash, config, granted>>

\* The reader after frame n of datagram d.
Received(d, n) ==
  IF n = 1 THEN [dg |-> d, n |-> 1]
  ELSE IF dt = [dg |-> d, n |-> n - 1] THEN [dg |-> d, n |-> n]
  ELSE Garbage

\* Mutant: only a start frame resets the timeout.
datagram_timeout_reset_StartOnly(n) ==
  datagram_timeout_start_ms' = IF n = 1 THEN time_ms ELSE datagram_timeout_start_ms

\* datagram_timeout_reset() on frame n.
datagram_timeout_reset(n) == datagram_timeout_start_ms' = time_ms

\* Frame n of datagram d for this board.
Frame(d, n) ==
  /\ pc = "read"
  /\ datagram_timeout_reset(n)
  /\ silence' = 0
  /\ UNCHANGED <<ram_arg, arg, time_ms, bootloader_timeout_start_ms, uptime, flash,
                 config, granted>>

\* The datagram goes on.  What garbage announces is anyone's guess.
Incomplete ==
  \E d \in Datagrams, n \in 1..Frames :
    /\ Frame(d, n)
    /\ Received(d, n).n < Frames
    /\ dt' = Received(d, n)
    /\ IF n = 1 THEN datagram_timeout_running' = TRUE /\ status' = ERROR_UNSPECIFIED
                ELSE UNCHANGED <<datagram_timeout_running, status>>
    /\ Continue
    /\ UNCHANGED <<bootloader_timeout_enabled, command, output_buf, reply_length, heard>>

\* Complete or short, and not valid.
Corrupt ==
  \E d \in Datagrams, n \in 2..Frames :
    /\ Frame(d, n)
    /\ Received(d, n) = Garbage
    /\ n = Frames \/ dt # Empty
    /\ dt' = Empty
    /\ datagram_timeout_running' = FALSE
    /\ ErrorReply(ERROR_CORRUPT_DATAGRAM)
    /\ Continue
    /\ UNCHANGED <<bootloader_timeout_enabled, command, reply_length, heard>>

\* Complete, valid, and for other boards only.
ForOthers ==
  /\ Frame("for_other_boards", Frames)
  /\ Received("for_other_boards", Frames).n = Frames
  /\ dt' = Empty
  /\ datagram_timeout_running' = FALSE
  /\ status' = SUCCESS
  /\ Continue
  /\ UNCHANGED <<bootloader_timeout_enabled, command, output_buf, reply_length, heard>>

\* Mutant: a command does not keep the board in the bootloader.
EnabledAfterCommand_Kept == bootloader_timeout_enabled

\* Is the bootloader timeout enabled once a command has been read?
EnabledAfterCommand == FALSE

\* Complete, valid, and for this board.
ForThisBoard ==
  \E d \in Commands :
    /\ Frame(d, Frames)
    /\ Received(d, Frames).n = Frames
    /\ dt' = Empty
    /\ datagram_timeout_running' = FALSE
    /\ status' = SUCCESS
    /\ bootloader_timeout_enabled' = EnabledAfterCommand
    /\ command' = d /\ heard' = TRUE
    /\ pc' = "execute"
    /\ UNCHANGED <<lag, output_buf, reply_length>>

---------------------------------------------------------------------------
(* execute_datagram_commands *)

Jump ==
  /\ pc = "execute" /\ command = "jump"
  /\ command_jump_to_application

Replied(code, length) ==
  /\ output_buf' = [to |-> "command", code |-> code]
  /\ reply_length' = length % 256
  /\ pc' = "respond"
  /\ UNCHANGED <<ram_arg, arg, timer, lag, dt, command, status, heard, granted>>

Query ==
  /\ pc = "execute" /\ command = "query"
  /\ \E length \in Lengths : Replied(SUCCESS, length)
  /\ UNCHANGED <<flash, config>>

GetStatus ==
  /\ pc = "execute" /\ command = "get_status"
  /\ Replied(status, 2)
  /\ UNCHANGED <<flash, config>>

WriteFlash ==
  /\ pc = "execute" /\ command = "write_flash"
  /\ app' \in Images
  /\ Replied(SUCCESS, 1)
  /\ UNCHANGED <<saved, config>>

ConfigUpdate ==
  /\ pc = "execute" /\ command = "config_update"
  /\ config' \in Images
  /\ Replied(SUCCESS, 1)
  /\ UNCHANGED flash

ConfigSave ==
  /\ pc = "execute" /\ command = "config_save"
  /\ saved' = config
  /\ Replied(SUCCESS, 1)
  /\ UNCHANGED <<app, config>>

\* The handler is not reached, and output_buf holds what it held before.
Refuse ==
  /\ pc = "execute" /\ command = "refused"
  /\ \E code \in RefusalCodes : reply_length' = (-code) % 256
  /\ pc' = "respond"
  /\ UNCHANGED <<ram_arg, arg, timer, lag, dt, command, output_buf, status, heard,
                 flash, config, granted>>

Respond ==
  /\ pc = "respond"
  /\ \/ reply_length > 0 /\ status' = SUCCESS /\ UNCHANGED output_buf
     \/ reply_length = 0 /\ ErrorReply(reply_length)
  /\ command' = "none" /\ reply_length' = 0
  /\ Continue
  /\ UNCHANGED <<ram_arg, arg, timer, dt, heard, flash, config, granted>>

Reset == reset_handler \/ bootloader_main
Timeouts == TimeoutJump \/ NoJump \/ DatagramTimeOut \/ NoTimeOut
Read == NoFrame \/ Incomplete \/ Corrupt \/ ForOthers \/ ForThisBoard
Execute == Jump \/ Query \/ GetStatus \/ WriteFlash \/ ConfigUpdate \/ ConfigSave
             \/ Refuse
Loop == Timeouts \/ Read \/ Execute \/ Respond

\* The vector table leads the timer interrupt to its handler, and every fault and
\* every other interrupt but that of CAN reception to fault_handler.
Exception == systick_handler \/ fault_handler

Next == Reset \/ Loop \/ Exception \/ HardwareReset \/ ApplicationReboots

Spec == Init /\ [][Next]_vars /\ WF_vars(Reset) /\ WF_vars(Loop) /\ WF_vars(systick_handler)

---------------------------------------------------------------------------
(* Properties *)

\* The application is started only when, at the last look, it matched the
\* configuration in force, or at its own request; and one request starts it
\* once, whatever resets follow ("If the application CRC does not match, the
\* bootloader should not boot it").
StartJustified == [][(pc = "reset" /\ pc' = "app") => granted]_vars

\* The bootloader leaves for the application by itself only after its full
\* timeout, and never once a command for the board was read or after it was
\* told to stay ("On power up the bootloader should wait enough time").
TimeoutJustified ==
  [][(pc = "top" /\ pc' = "reset" /\ ram_arg' = StartApplication)
       => uptime = BootTimeout /\ ~heard /\ arg # NoTimeout]_vars

\* A datagram is given up for lack of time only when no frame for this board
\* was read during the whole timeout, over any overflow of the clock.
GivenUpInTime ==
  [][(pc = "datagram" /\ pc' = "read" /\ dt # dt') => silence = DatagramTimeout]_vars

\* A board left alone leaves the bootloader.  (Left alone by floods of frames, too, which
\* may keep the loop from running: see KeepsReading of CanFifo.  Here it is fair.)
LeavesBootloader ==
  (pc = "top" /\ bootloader_timeout_enabled)
     ~> (~bootloader_timeout_enabled \/ pc \notin Running)

\* A datagram begun is finished or given up, unless its frames keep coming.
DatagramEnds ==
  (datagram_timeout_running /\ silence > 0) ~> (~datagram_timeout_running \/ silence = 0)

\* The comment in bootloader_main ("A negative return value represents an error
\* code"): a command the dispatcher refuses is answered by an error.
RefusalsReported ==
  [][(pc = "respond" /\ pc' = "top" /\ command = "refused") => output_buf'.to = "error"]_vars

\* get_status() of the client ("Returns the destination node's last response
\* code"): after an error reply the status is the code of that error.
StatusReported ==
  [][(pc = "execute" /\ pc' = "respond" /\ command = "get_status" /\ output_buf.to = "error")
       => output_buf'.code = output_buf.code]_vars
=============================================================================
