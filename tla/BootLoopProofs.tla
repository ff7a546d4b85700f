--------------------------- MODULE BootLoopProofs ---------------------------
(***************************************************************************)
(* Proofs about BootLoop, for every range of the clock, every pair of      *)
(* timeouts below it and every number of frames and images.                *)
(***************************************************************************)
EXTENDS BootLoop, TLAPS

LEMMA Times ==
  /\ BootTimeout \in Nat /\ BootTimeout > 0
  /\ DatagramTimeout \in Nat /\ DatagramTimeout > 0
  /\ MaxLag \in Nat /\ MaxLag > 0
  /\ TimeLimit \in Nat /\ TimeLimit > 1
  /\ TimeLimit > BootTimeout /\ TimeLimit > DatagramTimeout
  /\ Frames \in Nat /\ Frames > 1
  /\ Lengths \subseteq Nat
  BY TimesAssumption

---------------------------------------------------------------------------
(* The clock *)

\* What the counter of the clock can hold.
LEMMA ClockRange ==
  ASSUME NEW T \in Nat, T > 0, NEW t \in Nat
  PROVE  t % T \in 0..T-1
  BY Z3

\* The difference of two readings of the clock.
LEMMA ClockDifference ==
  ASSUME NEW T \in Nat, T > 1, NEW t \in 0..T-1, NEW s \in 0..T-1
  PROVE  (t - s) % T = IF t >= s THEN t - s ELSE t - s + T
  BY Z3

\* What a tick does to the time since a reading, over the overflow too.
LEMMA ClockTick ==
  ASSUME NEW T \in Nat, T > 1, NEW t \in 0..T-1, NEW s \in 0..T-1,
         (t - s) % T < T - 1
  PROVE  /\ (t + 1) % T \in 0..T-1
         /\ (((t + 1) % T) - s) % T = ((t - s) % T) + 1
  <1>1. (t + 1) % T = IF t + 1 = T THEN 0 ELSE t + 1
    BY Z3
  <1>2. (t + 1) % T \in 0..T-1
    BY <1>1
  <1>3. (((t + 1) % T) - s) % T =
          IF (t + 1) % T >= s THEN ((t + 1) % T) - s ELSE ((t + 1) % T) - s + T
    BY <1>2, ClockDifference
  <1>4. (t - s) % T = IF t >= s THEN t - s ELSE t - s + T
    BY ClockDifference
  <1> QED
    BY <1>1, <1>2, <1>3, <1>4

---------------------------------------------------------------------------
(* Type correctness *)

\* The type invariant in two parts.
FlagTypes ==
  /\ bootloader_timeout_enabled \in BOOLEAN /\ datagram_timeout_running \in BOOLEAN
  /\ heard \in BOOLEAN /\ granted \in BOOLEAN

OtherTypes ==
  /\ ram_arg \in Arguments \cup {NoMagic}
  /\ pc \in {"reset", "app", "st_bootloader"} \cup Running
  /\ arg \in {StartBootloader, NoTimeout}
  /\ time_ms \in 0..TimeLimit-1
  /\ bootloader_timeout_start_ms \in 0..TimeLimit-1
  /\ datagram_timeout_start_ms \in 0..TimeLimit-1
  /\ dt \in {Empty, Garbage} \cup [dg : Datagrams, n : 1..Frames-1]
  /\ command \in Commands \cup {"none"}
  /\ output_buf \in Replies /\ reply_length \in 0..255 /\ status \in 0..255
  /\ app \in Images /\ saved \in Images /\ config \in Images
  /\ lag \in 0..MaxLag /\ uptime \in 0..BootTimeout /\ silence \in 0..DatagramTimeout

LEMMA TypeParts == TypeOK <=> FlagTypes /\ OtherTypes
  BY DEF TypeOK, FlagTypes, OtherTypes

LEMMA Buffers ==
  /\ Nothing \in Replies
  /\ \A kind \in {"command", "error"}, code \in 0..255 :
       [to |-> kind, code |-> code] \in Replies
  BY DEF Nothing, Replies

LEMMA ReceivedType ==
  ASSUME NEW d \in Datagrams, NEW n \in 1..Frames, Received(d, n).n < Frames
  PROVE  Received(d, n) \in {Garbage} \cup [dg : Datagrams, n : 1..Frames-1]
  BY Times DEF Received, Garbage

LEMMA RepliedType ==
  ASSUME OtherTypes, NEW code \in 0..255, NEW length \in Nat, Replied(code, length)
  PROVE  /\ output_buf' \in Replies /\ reply_length' \in 0..255
         /\ pc' \in Running
         /\ UNCHANGED <<ram_arg, arg, timer, lag, dt, command, status>>
  <1>1. length % 256 \in 0..255
    OBVIOUS
  <1> QED
    BY <1>1, Buffers DEF Replied, OtherTypes, Running

LEMMA ErrorReplyType ==
  ASSUME NEW code \in 0..255, ErrorReply(code)
  PROVE  output_buf' \in Replies /\ status' \in 0..255
  BY Buffers DEF ErrorReply

LEMMA TypeInit == Init => TypeOK
  <1>1. Init => FlagTypes
    BY DEF Init, FlagTypes
  <1>2. Init => OtherTypes
    <2> SUFFICES ASSUME Init PROVE OtherTypes
      OBVIOUS
    <2>1. /\ time_ms \in 0..TimeLimit-1
          /\ bootloader_timeout_start_ms \in 0..TimeLimit-1
          /\ datagram_timeout_start_ms \in 0..TimeLimit-1
          /\ lag \in 0..MaxLag /\ uptime \in 0..BootTimeout
          /\ silence \in 0..DatagramTimeout
      BY Times DEF Init
    <2>2. output_buf \in Replies /\ reply_length \in 0..255 /\ status \in 0..255
      <3>1. output_buf = Nothing /\ reply_length = 0 /\ status = 0
        BY DEF Init
      <3>2. Nothing \in Replies
        BY Buffers
      <3> QED
        BY <3>1, <3>2
    <2> QED
      BY <2>1, <2>2 DEF Init, OtherTypes, NoMagic, Arguments, StartBootloader
  <1> QED
    BY <1>1, <1>2, TypeParts

LEMMA FlagsNext == FlagTypes /\ [Next]_vars => FlagTypes'
  <1> SUFFICES ASSUME FlagTypes, [Next]_vars PROVE FlagTypes'
    OBVIOUS
  <1>1. CASE Reset
    BY <1>1 DEF Reset, reset_handler, bootloader_main, FlagTypes, timer, dialogue
  <1>2. CASE systick_handler
    BY <1>2 DEF systick_handler, FlagTypes, dialogue
  <1>3. CASE TimeoutJump \/ Jump \/ fault_handler \/ HardwareReset \/ ApplicationReboots
    BY <1>3 DEF TimeoutJump, Jump, command_jump_to_application, fault_handler,
       HardwareReset, ApplicationReboots, reboot_system, Forget, FlagTypes
  <1>4. CASE NoJump \/ DatagramTimeOut \/ NoTimeOut
    BY <1>4 DEF NoJump, DatagramTimeOut, NoTimeOut, FlagTypes, timer, dialogue
  <1>5. CASE NoFrame
    BY <1>5 DEF NoFrame, FlagTypes, timer, dialogue
  <1>6. CASE Incomplete
    BY <1>6 DEF Incomplete, Frame, FlagTypes
  <1>7. CASE Corrupt \/ ForOthers
    BY <1>7 DEF Corrupt, ForOthers, Frame, FlagTypes
  <1>8. CASE ForThisBoard
    BY <1>8 DEF ForThisBoard, Frame, EnabledAfterCommand, FlagTypes
  <1>9. CASE Query \/ GetStatus \/ WriteFlash \/ ConfigUpdate \/ ConfigSave
    BY <1>9 DEF Query, GetStatus, WriteFlash, ConfigUpdate, ConfigSave, Replied,
       FlagTypes, timer
  <1>10. CASE Refuse \/ Respond
    BY <1>10 DEF Refuse, Respond, FlagTypes, timer
  <1>11. CASE UNCHANGED vars
    BY <1>11 DEF vars, timer, dialogue, FlagTypes
  <1> QED
    BY <1>1, <1>2, <1>3, <1>4, <1>5, <1>6, <1>7, <1>8, <1>9, <1>10, <1>11
       DEF Next, Loop, Exception, Timeouts, Read, Execute

LEMMA OthersForget ==
  ASSUME OtherTypes, Forget, ram_arg' \in Arguments \cup {NoMagic},
         app' \in Images, saved' \in Images
  PROVE  OtherTypes'
  <1>1. /\ pc' = "reset" /\ arg' = StartBootloader
        /\ dt' = Empty /\ command' = "none"
        /\ output_buf' \in Replies /\ reply_length' \in 0..255 /\ status' \in 0..255
        /\ config' \in Images
    <2>1. output_buf' = Nothing /\ config' = saved
      BY DEF Forget
    <2>2. output_buf' \in Replies /\ config' \in Images
      BY <2>1, Buffers DEF OtherTypes
    <2> QED
      BY <2>2 DEF Forget
  <1>2. /\ time_ms' \in 0..TimeLimit-1
        /\ bootloader_timeout_start_ms' \in 0..TimeLimit-1
        /\ datagram_timeout_start_ms' \in 0..TimeLimit-1
        /\ lag' \in 0..MaxLag /\ uptime' \in 0..BootTimeout
        /\ silence' \in 0..DatagramTimeout
    BY Times DEF Forget
  <1> QED
    BY <1>1, <1>2 DEF OtherTypes

LEMMA OthersNext == OtherTypes /\ [Next]_vars => OtherTypes'
  <1> SUFFICES ASSUME OtherTypes, [Next]_vars PROVE OtherTypes'
    OBVIOUS
  <1>1. CASE systick_handler
    <2>1. NextMs \in 0..TimeLimit-1
      <3>1. time_ms + 1 \in Nat
        BY DEF OtherTypes
      <3> QED
        BY <3>1, Times, ClockRange DEF NextMs
    <2>2. \A x \in Nat, y \in Nat : Lesser(x, y) \in 0..y
      BY DEF Lesser
    <2> QED
      BY <1>1, <2>1, <2>2, Times DEF systick_handler, OtherTypes, dialogue, flash
  <1>2. CASE reset_handler
    BY <1>2 DEF reset_handler, OtherTypes, timer, dialogue, flash, Cleared, NoMagic,
       Arguments, NoTimeout, StartBootloader, StartApplication, StartStBootloader,
       Running
  <1>3. CASE bootloader_main
    BY <1>3, Times DEF bootloader_main, OtherTypes, dialogue, flash, Running
  <1>4. CASE TimeoutJump \/ Jump
    BY <1>4, OthersForget DEF TimeoutJump, Jump, command_jump_to_application,
       reboot_system, JumpArgument, Arguments, StartApplication, NoTimeout, flash,
       OtherTypes
  <1>5. CASE fault_handler
    BY <1>5, OthersForget DEF fault_handler, reboot_system, Arguments, NoTimeout, flash,
       OtherTypes
  <1>6. CASE HardwareReset
    BY <1>6, OthersForget DEF HardwareReset, flash, OtherTypes
  <1>7. CASE ApplicationReboots
    BY <1>7, OthersForget DEF ApplicationReboots, reboot_system, flash, OtherTypes
  <1>8. CASE NoJump \/ NoTimeOut
    BY <1>8 DEF NoJump, NoTimeOut, OtherTypes, timer, dialogue, flash, Running
  <1>9. CASE DatagramTimeOut
    <2>1. output_buf' \in Replies /\ status' \in 0..255
      <3>1. ErrorReply(ERROR_DATAGRAM_TIMEOUT)
        BY <1>9 DEF DatagramTimeOut
      <3>2. ERROR_DATAGRAM_TIMEOUT \in 0..255
        BY DEF ERROR_DATAGRAM_TIMEOUT
      <3> QED
        BY <3>1, <3>2, ErrorReplyType
    <2> QED
      BY <1>9, <2>1 DEF DatagramTimeOut, OtherTypes, flash, Running
  <1>10. CASE NoFrame
    BY <1>10, Times DEF NoFrame, Continue, OtherTypes, timer, dialogue, flash, Running
  <1>11. CASE Incomplete
    <2>1. PICK d \in Datagrams, n \in 1..Frames :
            /\ Frame(d, n) /\ Received(d, n).n < Frames /\ dt' = Received(d, n)
            /\ status' = ERROR_UNSPECIFIED \/ UNCHANGED status
            /\ Continue
            /\ UNCHANGED <<command, output_buf, reply_length>>
      BY <1>11 DEF Incomplete
    <2>2. dt' \in {Garbage} \cup [dg : Datagrams, n : 1..Frames-1]
      BY <2>1, ReceivedType
    <2>3. status' \in 0..255
      BY <2>1 DEF OtherTypes, ERROR_UNSPECIFIED
    <2> QED
      BY <2>1, <2>2, <2>3, Times DEF Frame, datagram_timeout_reset, Continue, OtherTypes,
         flash, Running
  <1>12. CASE Corrupt
    <2>1. output_buf' \in Replies /\ status' \in 0..255
      <3>1. ErrorReply(ERROR_CORRUPT_DATAGRAM)
        BY <1>12 DEF Corrupt
      <3>2. ERROR_CORRUPT_DATAGRAM \in 0..255
        BY DEF ERROR_CORRUPT_DATAGRAM
      <3> QED
        BY <3>1, <3>2, ErrorReplyType
    <2>2. /\ pc' = "top" /\ lag' = 0 /\ dt' = Empty
          /\ datagram_timeout_start_ms' = time_ms /\ silence' = 0
          /\ UNCHANGED <<ram_arg, arg, time_ms, bootloader_timeout_start_ms, uptime, flash,
                         config, command, reply_length>>
      BY <1>12 DEF Corrupt, Frame, datagram_timeout_reset, Continue
    <2> QED
      BY <2>1, <2>2, Times DEF OtherTypes, flash, Running
  <1>13. CASE ForOthers
    BY <1>13, Times DEF ForOthers, Frame, datagram_timeout_reset, SUCCESS, Continue,
       OtherTypes, flash, Running
  <1>14. CASE ForThisBoard
    BY <1>14, Times DEF ForThisBoard, Frame, datagram_timeout_reset, SUCCESS,
       OtherTypes, flash, Running
  <1>15. CASE Query
    <2>1. PICK length \in Lengths : Replied(SUCCESS, length)
      BY <1>15 DEF Query
    <2>2. length \in Nat /\ SUCCESS \in 0..255
      BY Times DEF SUCCESS
    <2>3. app' \in Images /\ saved' \in Images /\ config' \in Images
      BY <1>15 DEF Query, OtherTypes, flash
    <2>4. /\ output_buf' \in Replies /\ reply_length' \in 0..255
          /\ pc' \in Running
          /\ UNCHANGED <<ram_arg, arg, timer, lag, dt, command, status>>
      BY <2>1, <2>2, RepliedType
    <2> QED
      BY <2>3, <2>4 DEF OtherTypes, timer
  <1>16. CASE GetStatus
    <2>1. Replied(status, 2) /\ status \in 0..255
      BY <1>16 DEF GetStatus, OtherTypes
    <2>2. app' \in Images /\ saved' \in Images /\ config' \in Images
      BY <1>16 DEF GetStatus, OtherTypes, flash
    <2>3. /\ output_buf' \in Replies /\ reply_length' \in 0..255
          /\ pc' \in Running
          /\ UNCHANGED <<ram_arg, arg, timer, lag, dt, command, status>>
      BY <2>1, RepliedType
    <2> QED
      BY <2>2, <2>3 DEF OtherTypes, timer
  <1>17. CASE WriteFlash \/ ConfigUpdate \/ ConfigSave
    <2>1. Replied(SUCCESS, 1) /\ SUCCESS \in 0..255
      BY <1>17 DEF WriteFlash, ConfigUpdate, ConfigSave, SUCCESS
    <2>2. app' \in Images /\ saved' \in Images /\ config' \in Images
      BY <1>17 DEF WriteFlash, ConfigUpdate, ConfigSave, OtherTypes, flash
    <2>3. /\ output_buf' \in Replies /\ reply_length' \in 0..255
          /\ pc' \in Running
          /\ UNCHANGED <<ram_arg, arg, timer, lag, dt, command, status>>
      BY <2>1, RepliedType
    <2> QED
      BY <2>2, <2>3 DEF OtherTypes, timer
  <1>18. CASE Refuse
    <2>1. \A code \in RefusalCodes : (-code) % 256 \in 0..255
      BY DEF RefusalCodes
    <2> QED
      BY <1>18, <2>1 DEF Refuse, OtherTypes, timer, flash, Running
  <1>19. CASE Respond
    <2>1. output_buf' \in Replies /\ status' \in 0..255
      <3>1. CASE status' = SUCCESS /\ UNCHANGED output_buf
        BY <3>1 DEF SUCCESS, OtherTypes
      <3>2. CASE ErrorReply(reply_length)
        BY <3>2, ErrorReplyType DEF OtherTypes
      <3> QED
        BY <1>19, <3>1, <3>2 DEF Respond
    <2>2. /\ command' = "none" /\ reply_length' = 0 /\ Continue
          /\ UNCHANGED <<ram_arg, arg, timer, dt, flash, config>>
      BY <1>19 DEF Respond
    <2> QED
      BY <2>1, <2>2, Times DEF Continue, OtherTypes, timer, flash, Running
  <1>20. CASE UNCHANGED vars
    BY <1>20 DEF vars, timer, dialogue, flash, OtherTypes
  <1> QED
    BY <1>1, <1>2, <1>3, <1>4, <1>5, <1>6, <1>7, <1>8, <1>9, <1>10, <1>11, <1>12, <1>13,
       <1>14, <1>15, <1>16, <1>17, <1>18, <1>19, <1>20
       DEF Next, Reset, Loop, Exception, Timeouts, Read, Execute

LEMMA TypeNext == TypeOK /\ [Next]_vars => TypeOK'
  BY FlagsNext, OthersNext, TypeParts DEF TypeOK, FlagTypes, OtherTypes

\* Every variable of the board keeps its type: the clock and the times saved from
\* it stay below TimeLimit, lengths and codes are bytes.
THEOREM TypeCorrect == Spec => []TypeOK
  BY TypeInit, TypeNext, PTL DEF Spec

---------------------------------------------------------------------------
(* The inductive invariant *)

\* The argument that starts the application stands in RAM only on a grant.
StartGranted == ram_arg = StartApplication => granted

\* The argument in RAM does not outlive the reset it was written for.
ArgumentUsedUp == pc # "reset" => ram_arg = NoMagic

\* Outside the loop no timeout runs and no command was heard.
OutsideLoop ==
  pc \in {"reset", "start", "app", "st_bootloader"}
    => ~bootloader_timeout_enabled /\ ~datagram_timeout_running /\ ~heard

\* What keeps the board in the bootloader also stops its timeout.
Undecided == bootloader_timeout_enabled => ~heard /\ arg # NoTimeout

\* While a timeout runs, the clock shows what time has really passed.
UptimeMeasured ==
  bootloader_timeout_enabled /\ uptime < BootTimeout
    => Since(bootloader_timeout_start_ms) = uptime

SilenceMeasured ==
  datagram_timeout_running /\ silence < DatagramTimeout
    => Since(datagram_timeout_start_ms) = silence

BInv ==
  /\ TypeOK
  /\ StartGranted /\ ArgumentUsedUp /\ OutsideLoop /\ Undecided
  /\ UptimeMeasured /\ SilenceMeasured

LEMMA BInvInit == Init => BInv
  <1> SUFFICES ASSUME Init PROVE BInv
    OBVIOUS
  <1>1. TypeOK
    BY TypeInit
  <1>2. ~bootloader_timeout_enabled /\ ~datagram_timeout_running /\ ~heard
    BY DEF Init
  <1>3. StartGranted /\ ArgumentUsedUp
    BY DEF Init, StartGranted, ArgumentUsedUp, NoMagic, StartApplication
  <1> QED
    BY <1>1, <1>2, <1>3 DEF BInv, OutsideLoop, Undecided, UptimeMeasured,
       SilenceMeasured

\* The steps of a turn of the loop that neither reset the board nor read a frame.
LEMMA QuietSteps ==
  ASSUME NoJump \/ DatagramTimeOut \/ NoTimeOut \/ NoFrame \/ Query \/ GetStatus
           \/ WriteFlash \/ ConfigUpdate \/ ConfigSave \/ Refuse \/ Respond
  PROVE  /\ pc \notin {"reset", "start", "app", "st_bootloader"}
         /\ pc' \notin {"reset", "start", "app", "st_bootloader"}
         /\ UNCHANGED <<ram_arg, granted, arg, heard, time_ms,
                        bootloader_timeout_enabled, bootloader_timeout_start_ms, uptime,
                        datagram_timeout_start_ms, silence>>
         /\ datagram_timeout_running' = datagram_timeout_running
              \/ datagram_timeout_running' = FALSE
  <1>1. CASE NoJump \/ DatagramTimeOut \/ NoTimeOut \/ NoFrame
    BY <1>1 DEF NoJump, DatagramTimeOut, NoTimeOut, NoFrame, Continue, timer, dialogue
  <1>2. CASE Query \/ GetStatus \/ WriteFlash \/ ConfigUpdate \/ ConfigSave
    BY <1>2 DEF Query, GetStatus, WriteFlash, ConfigUpdate, ConfigSave, Replied, timer
  <1>3. CASE Refuse \/ Respond
    BY <1>3 DEF Refuse, Respond, Continue, timer
  <1> QED
    BY <1>1, <1>2, <1>3

\* The steps that read a frame.
LEMMA FrameSteps ==
  ASSUME Incomplete \/ Corrupt \/ ForOthers \/ ForThisBoard
  PROVE  /\ pc \notin {"reset", "start", "app", "st_bootloader"}
         /\ pc' \notin {"reset", "start", "app", "st_bootloader"}
         /\ datagram_timeout_start_ms' = time_ms /\ silence' = 0
         /\ UNCHANGED <<ram_arg, granted, arg, time_ms, bootloader_timeout_start_ms,
                        uptime>>
         /\ \/ UNCHANGED <<bootloader_timeout_enabled, heard>>
            \/ bootloader_timeout_enabled' = FALSE
  <1>1. CASE Incomplete
    BY <1>1 DEF Incomplete, Frame, datagram_timeout_reset, Continue
  <1>2. CASE Corrupt \/ ForOthers
    BY <1>2 DEF Corrupt, ForOthers, Frame, datagram_timeout_reset, Continue
  <1>3. CASE ForThisBoard
    BY <1>3 DEF ForThisBoard, Frame, datagram_timeout_reset, EnabledAfterCommand
  <1> QED
    BY <1>1, <1>2, <1>3

\* The steps that reset the board.
LEMMA ResetSteps ==
  ASSUME TimeoutJump \/ Jump \/ fault_handler \/ HardwareReset \/ ApplicationReboots
  PROVE  /\ pc' = "reset"
         /\ ~bootloader_timeout_enabled' /\ ~datagram_timeout_running' /\ ~heard'
  BY DEF TimeoutJump, Jump, command_jump_to_application, fault_handler, HardwareReset,
     ApplicationReboots, reboot_system, Forget

LEMMA StepKinds ==
  ASSUME [Next]_vars
  PROVE  \/ systick_handler \/ reset_handler \/ bootloader_main
         \/ NoJump \/ DatagramTimeOut \/ NoTimeOut \/ NoFrame \/ Query \/ GetStatus
              \/ WriteFlash \/ ConfigUpdate \/ ConfigSave \/ Refuse \/ Respond
         \/ Incomplete \/ Corrupt \/ ForOthers \/ ForThisBoard
         \/ TimeoutJump \/ Jump \/ fault_handler \/ HardwareReset \/ ApplicationReboots
         \/ UNCHANGED vars
  BY DEF Next, Reset, Loop, Exception, Timeouts, Read, Execute

LEMMA StartGrantedNext == BInv /\ [Next]_vars => StartGranted'
  <1> SUFFICES ASSUME BInv, [Next]_vars, ram_arg' = StartApplication PROVE granted'
    BY DEF StartGranted
  <1>1. CASE ram_arg' = ram_arg /\ granted' = granted
    BY <1>1 DEF BInv, StartGranted
  <1>2. CASE systick_handler
    BY <1>1, <1>2 DEF systick_handler
  <1>3. CASE reset_handler
    BY <1>3 DEF reset_handler, Cleared, NoMagic, StartApplication
  <1>4. CASE bootloader_main
    BY <1>1, <1>4 DEF bootloader_main
  <1>5. CASE TimeoutJump \/ Jump
    <2>1. ram_arg' = JumpArgument /\ granted' = (app = config)
      BY <1>5 DEF TimeoutJump, Jump, command_jump_to_application, reboot_system
    <2>2. app = config
      BY <2>1 DEF JumpArgument, StartApplication, NoTimeout
    <2> QED
      BY <2>1, <2>2
  <1>6. CASE fault_handler
    BY <1>6 DEF fault_handler, reboot_system, StartApplication, NoTimeout
  <1>7. CASE HardwareReset
    BY <1>1, <1>7 DEF HardwareReset, StartApplication, NoMagic
  <1>8. CASE ApplicationReboots
    BY <1>8 DEF ApplicationReboots, reboot_system
  <1>9. CASE UNCHANGED vars
    BY <1>1, <1>9 DEF vars
  <1> QED
    BY <1>1, <1>2, <1>3, <1>4, <1>5, <1>6, <1>7, <1>8, <1>9, StepKinds, QuietSteps,
       FrameSteps

LEMMA ArgumentUsedUpNext == BInv /\ [Next]_vars => ArgumentUsedUp'
  <1> SUFFICES ASSUME BInv, [Next]_vars, pc' # "reset" PROVE ram_arg' = NoMagic
    BY DEF ArgumentUsedUp
  <1>1. CASE pc # "reset" /\ ram_arg' = ram_arg
    BY <1>1 DEF BInv, ArgumentUsedUp
  <1>2. CASE systick_handler
    BY <1>1, <1>2 DEF systick_handler, Running
  <1>3. CASE reset_handler
    BY <1>3 DEF reset_handler, Cleared
  <1>4. CASE bootloader_main
    BY <1>1, <1>4 DEF bootloader_main
  <1>5. CASE UNCHANGED vars
    BY <1>1, <1>5 DEF vars
  <1> QED
    BY <1>1, <1>2, <1>3, <1>4, <1>5, StepKinds, QuietSteps, FrameSteps, ResetSteps

LEMMA OutsideLoopNext == BInv /\ [Next]_vars => OutsideLoop'
  <1> SUFFICES ASSUME BInv, [Next]_vars,
                      pc' \in {"reset", "start", "app", "st_bootloader"}
               PROVE  ~bootloader_timeout_enabled' /\ ~datagram_timeout_running' /\ ~heard'
    BY DEF OutsideLoop
  <1>1. CASE /\ pc \in {"reset", "start", "app", "st_bootloader"}
             /\ UNCHANGED <<bootloader_timeout_enabled, datagram_timeout_running, heard>>
    BY <1>1 DEF BInv, OutsideLoop
  <1>2. CASE systick_handler
    BY <1>1, <1>2 DEF systick_handler, dialogue
  <1>3. CASE reset_handler
    BY <1>1, <1>3 DEF reset_handler, timer, dialogue
  <1>4. CASE bootloader_main
    BY <1>4 DEF bootloader_main
  <1>5. CASE UNCHANGED vars
    BY <1>1, <1>5 DEF vars, timer, dialogue
  <1> QED
    BY <1>1, <1>2, <1>3, <1>4, <1>5, StepKinds, QuietSteps, FrameSteps, ResetSteps

LEMMA UndecidedNext == BInv /\ [Next]_vars => Undecided'
  <1> SUFFICES ASSUME BInv, [Next]_vars, bootloader_timeout_enabled'
               PROVE  ~heard' /\ arg' # NoTimeout
    BY DEF Undecided
  <1>1. CASE UNCHANGED <<bootloader_timeout_enabled, heard, arg>>
    BY <1>1 DEF BInv, Undecided
  <1>2. CASE systick_handler
    BY <1>1, <1>2 DEF systick_handler, dialogue
  <1>3. CASE reset_handler
    BY <1>3 DEF reset_handler, timer, BInv, OutsideLoop
  <1>4. CASE bootloader_main
    BY <1>4 DEF bootloader_main, dialogue, BInv, OutsideLoop
  <1>5. CASE UNCHANGED vars
    BY <1>1, <1>5 DEF vars, timer, dialogue
  <1> QED
    BY <1>1, <1>2, <1>3, <1>4, <1>5, StepKinds, QuietSteps, FrameSteps, ResetSteps

LEMMA UptimeNext == BInv /\ [Next]_vars => UptimeMeasured'
  <1> SUFFICES ASSUME BInv, [Next]_vars, bootloader_timeout_enabled',
                      uptime' < BootTimeout
               PROVE  Since(bootloader_timeout_start_ms)' = uptime'
    BY DEF UptimeMeasured
  <1>1. CASE UNCHANGED <<bootloader_timeout_enabled, time_ms,
                         bootloader_timeout_start_ms, uptime>>
    BY <1>1 DEF BInv, UptimeMeasured, Since
  <1>2. CASE systick_handler
    <2>1. /\ bootloader_timeout_enabled /\ uptime \in Nat /\ uptime + 1 < BootTimeout
          /\ uptime' = uptime + 1
          /\ time_ms' = (time_ms + 1) % TimeLimit
          /\ bootloader_timeout_start_ms' = bootloader_timeout_start_ms
      BY <1>2, Times DEF systick_handler, NextMs, Lesser, BInv, TypeOK
    <2>2. (time_ms - bootloader_timeout_start_ms) % TimeLimit = uptime
      BY <2>1, Times DEF BInv, UptimeMeasured, Since
    <2>3. uptime < TimeLimit - 1
      BY <2>1, Times
    <2> QED
      BY <2>1, <2>2, <2>3, ClockTick, Times DEF Since, BInv, TypeOK
  <1>3. CASE reset_handler
    BY <1>3 DEF reset_handler, timer, BInv, OutsideLoop
  <1>4. CASE bootloader_main
    <2>1. (time_ms - time_ms) % TimeLimit = 0
      BY ClockDifference, Times DEF BInv, TypeOK
    <2> QED
      BY <1>4, <2>1 DEF bootloader_main, Since
  <1>5. CASE UNCHANGED vars
    BY <1>1, <1>5 DEF vars, timer
  <1> QED
    BY <1>1, <1>2, <1>3, <1>4, <1>5, StepKinds, QuietSteps, FrameSteps, ResetSteps

LEMMA SilenceNext == BInv /\ [Next]_vars => SilenceMeasured'
  <1> SUFFICES ASSUME BInv, [Next]_vars, datagram_timeout_running',
                      silence' < DatagramTimeout
               PROVE  Since(datagram_timeout_start_ms)' = silence'
    BY DEF SilenceMeasured
  <1>1. CASE UNCHANGED <<datagram_timeout_running, time_ms, datagram_timeout_start_ms,
                         silence>>
    BY <1>1 DEF BInv, SilenceMeasured, Since
  <1>2. CASE systick_handler
    <2>1. /\ datagram_timeout_running /\ silence \in Nat /\ silence + 1 < DatagramTimeout
          /\ silence' = silence + 1
          /\ time_ms' = (time_ms + 1) % TimeLimit
          /\ datagram_timeout_start_ms' = datagram_timeout_start_ms
      BY <1>2, Times DEF systick_handler, NextMs, Lesser, BInv, TypeOK
    <2>2. (time_ms - datagram_timeout_start_ms) % TimeLimit = silence
      BY <2>1, Times DEF BInv, SilenceMeasured, Since
    <2>3. silence < TimeLimit - 1
      BY <2>1, Times
    <2> QED
      BY <2>1, <2>2, <2>3, ClockTick, Times DEF Since, BInv, TypeOK
  <1>3. CASE reset_handler \/ bootloader_main
    BY <1>3 DEF reset_handler, bootloader_main, timer, BInv, OutsideLoop
  <1>4. CASE Incomplete \/ Corrupt \/ ForOthers \/ ForThisBoard
    <2>1. (time_ms - time_ms) % TimeLimit = 0
      BY ClockDifference, Times DEF BInv, TypeOK
    <2> QED
      BY <1>4, <2>1, FrameSteps DEF Since
  <1>5. CASE UNCHANGED vars
    BY <1>1, <1>5 DEF vars, timer
  <1> QED
    BY <1>1, <1>2, <1>3, <1>4, <1>5, StepKinds, QuietSteps, ResetSteps

LEMMA BInvNext == BInv /\ [Next]_vars => BInv'
  BY TypeNext, StartGrantedNext, ArgumentUsedUpNext, OutsideLoopNext, UndecidedNext,
     UptimeNext, SilenceNext DEF BInv

LEMMA BInvCorrect == Spec => []BInv
  BY BInvInit, BInvNext, PTL DEF Spec

---------------------------------------------------------------------------
(* The theorems *)

\* The reset handler starts the application only on a grant.
THEOREM StartsJustified == Spec => StartJustified
  <1>1. BInv /\ [Next]_vars => [(pc = "reset" /\ pc' = "app") => granted]_vars
    <2> SUFFICES ASSUME BInv, Next, pc = "reset", pc' = "app" PROVE granted
      OBVIOUS
    <2>1. reset_handler
      BY StepKinds, QuietSteps, FrameSteps, ResetSteps
         DEF systick_handler, bootloader_main, vars
    <2> QED
      BY <2>1 DEF reset_handler, BInv, StartGranted
  <1> QED
    BY <1>1, BInvCorrect, PTL DEF Spec, StartJustified

\* The bootloader starts the application by itself only after its full timeout,
\* with no command heard and not told to stay.
THEOREM TimeoutsJustified == Spec => TimeoutJustified
  <1> DEFINE Fired == uptime = BootTimeout /\ ~heard /\ arg # NoTimeout
  <1>1. BInv /\ [Next]_vars =>
          [(pc = "top" /\ pc' = "reset" /\ ram_arg' = StartApplication) => Fired]_vars
    <2> SUFFICES ASSUME BInv, Next, pc = "top", pc' = "reset",
                        ram_arg' = StartApplication
                 PROVE  Fired
      OBVIOUS
    <2>1. ram_arg = NoMagic
      BY DEF BInv, ArgumentUsedUp
    <2>2. TimeoutJump \/ Jump \/ fault_handler \/ HardwareReset \/ ApplicationReboots
      BY StepKinds, QuietSteps, FrameSteps
         DEF systick_handler, reset_handler, bootloader_main, vars
    <2>3. TimeoutJump
      BY <2>1, <2>2 DEF Jump, fault_handler, HardwareReset, ApplicationReboots,
         reboot_system, NoTimeout, NoMagic, StartApplication
    <2>4. /\ bootloader_timeout_enabled
          /\ Since(bootloader_timeout_start_ms) >= BootTimeout
      BY <2>3 DEF TimeoutJump, bootloader_timeout_reached
    <2>5. uptime = BootTimeout
      BY <2>4, Times DEF BInv, UptimeMeasured, TypeOK
    <2> QED
      BY <2>4, <2>5 DEF BInv, Undecided
  <1> QED
    BY <1>1, BInvCorrect, PTL DEF Spec, TimeoutJustified

\* A datagram is given up only after a full timeout without a frame.
THEOREM GivenUpLate == Spec => GivenUpInTime
  <1>1. BInv /\ [Next]_vars =>
          [(pc = "datagram" /\ pc' = "read" /\ dt # dt') => silence = DatagramTimeout]_vars
    <2> SUFFICES ASSUME BInv, Next, pc = "datagram", pc' = "read", dt # dt'
                 PROVE  silence = DatagramTimeout
      OBVIOUS
    <2>1. DatagramTimeOut
      BY DEF Next, Reset, Loop, Exception, Timeouts, Read, Execute, systick_handler,
         reset_handler, bootloader_main, TimeoutJump, NoJump, NoTimeOut, NoFrame,
         Incomplete, Corrupt, ForOthers, ForThisBoard, Frame, Jump, Query, GetStatus, WriteFlash, ConfigUpdate,
         ConfigSave, Refuse, Respond, fault_handler, HardwareReset, ApplicationReboots,
         command_jump_to_application, reboot_system, Forget, dialogue
    <2>2. /\ datagram_timeout_running
          /\ Since(datagram_timeout_start_ms) >= DatagramTimeout
      BY <2>1 DEF DatagramTimeOut, datagram_timeout_reached
    <2> QED
      BY <2>2, Times DEF BInv, SilenceMeasured, TypeOK
  <1> QED
    BY <1>1, BInvCorrect, PTL DEF Spec, GivenUpInTime
=============================================================================
