---------------------------- MODULE FlashWriter ----------------------------
(***************************************************************************)
(* Erasing and writing the application area: command_erase_flash_page and  *)
(* command_write_flash (command.c) on the STM32F4 flash driver             *)
(* (platform/mcu/stm32f4/flash_writer.c), which remembers in RAM which     *)
(* sectors it has erased.                                                  *)
(*                                                                         *)
(* Addresses count cells of 16 KiB from the start of flash, so a sector is *)
(* 1, 4 or 8 cells and the application starts at cell 4.  A cell is Blank, *)
(* holds the Data written to it, or is Corrupt.                            *)
(***************************************************************************)
EXTENDS Naturals

CONSTANTS FlashEnd,     \* &flash_end; 32 on the STM32F446
          SectorMax,    \* FLASH_SECTOR_INDEX_MAX
          Retries,      \* FLASH_ERASE_RETRIES
          RetryLimit,   \* values of the uint8_t that counts the retries: 256
          Addresses,    \* the addresses commands name
          Sizes,        \* the sizes they name
          Blank, Data, Corrupt

AppStart == 4           \* memory_get_app_addr()

VARIABLES flash,        \* cell -> Blank, Data or Corrupt
          marked,       \* flash_sector_is_erased[]
          pc,           \* "idle", or where the command is
          addr, size,   \* its arguments
          a,            \* loop variable of flash_writer_page_write()
          retry,        \* uint8_t of command_erase_flash_page()
          reply         \* what the command writes to its reply

\* Auxiliary variables.
VARIABLES faulted,      \* did a flash operation of this command fail?
          spilled       \* sectors written by a write that began in another one
                        \* since they were last erased

vars == <<flash, marked, pc, addr, size, a, retry, reply, faulted, spilled>>

Cells == 0..FlashEnd-1
SectorIndex == 0..SectorMax-1

---------------------------------------------------------------------------
(* Helpers of the driver *)

\* Mutant: the end of the flash is not taken for a valid end of a range.
flash_address_is_valid_Strict(x) == x > 0 /\ x < FlashEnd

flash_address_is_valid(x) == x > 0 /\ x <= FlashEnd

flash_address_to_sector(x) ==
  IF ~flash_address_is_valid(x) THEN 0
  ELSE IF x < 4 THEN x
  ELSE IF x < 8 THEN 3 + x \div 4
  ELSE 4 + x \div 8

flash_get_sector_size(x) ==
  IF ~flash_address_is_valid(x) THEN 0
  ELSE IF x < 4 THEN 1
  ELSE IF x < 8 THEN 4
  ELSE 8

CellsOf(s) == {c \in Cells \ {0} : flash_address_to_sector(c) = s}

Target == addr..addr+size-1

Codes == {"before_app", "after_app", "device_class_mismatch",
          "unknown_size", "not_erased"}

\* Every reply the two commands can write.
Replies == {<<>>, <<"success">>, <<"failed", "success">>} \cup {<<c>> : c \in Codes}

ASSUME ParametersAssumption ==
  /\ FlashEnd \in Nat /\ FlashEnd > AppStart
  /\ SectorMax \in Nat
  /\ \A c \in Cells : flash_address_to_sector(c) \in SectorIndex
  /\ RetryLimit \in Nat /\ Retries \in 1..RetryLimit-1
  /\ Addresses \subseteq Nat
  /\ Sizes \subseteq 1..2        \* INPUT_BUFFER_SIZE is 32 KiB
  /\ Blank # Data /\ Blank # Corrupt /\ Data # Corrupt

TypeOK ==
  /\ flash \in [Cells -> {Blank, Data, Corrupt}]
  /\ marked \in [SectorIndex -> BOOLEAN]
  /\ pc \in {"idle", "erase", "check", "mark", "program"}
  /\ pc = "idle" => addr = 0 /\ size = 0 /\ a = 0
  /\ pc # "idle" => addr \in AppStart..FlashEnd-1
  /\ size \in Nat /\ a \in Nat
  /\ pc \in {"mark", "program"} => addr + size <= FlashEnd
  /\ retry \in 0..RetryLimit-1
  /\ reply \in Replies
  /\ faulted \in BOOLEAN
  /\ spilled \in SUBSET SectorIndex

\* A board as it leaves the programmer: bootloader and configuration in place,
\* the application area in any state of blank and used sectors.
Init ==
  /\ flash \in {f \in [Cells -> {Blank, Data}] :
                  /\ \A c \in 0..AppStart-1 : f[c] = Data
                  /\ \A s \in SectorIndex : \A c, d \in CellsOf(s) : f[c] = f[d]}
  /\ marked = [s \in SectorIndex |-> FALSE]
  /\ pc = "idle" /\ addr = 0 /\ size = 0 /\ a = 0 /\ retry = 0
  /\ reply = <<>> /\ faulted = FALSE /\ spilled = {}

\* A command is over: its locals are gone.
Finish(codes) ==
  /\ pc' = "idle"
  /\ reply' = codes
  /\ addr' = 0 /\ size' = 0 /\ a' = 0 /\ retry' = 0

---------------------------------------------------------------------------
(* command_erase_flash_page.  `match' says whether the device class of the *)
(* command is that of the board.                                           *)

\* Mutant: addresses below the application are let through.
Refusal_NoLowerBound(x, match) ==
  IF x >= FlashEnd THEN "after_app"
  ELSE IF ~match THEN "device_class_mismatch"
  ELSE "none"

\* The tests both commands begin with.
Refusal(x, match) ==
  IF x < AppStart THEN "before_app"
  ELSE IF x >= FlashEnd THEN "after_app"
  ELSE IF ~match THEN "device_class_mismatch"
  ELSE "none"

EraseCommand ==
  /\ pc = "idle"
  /\ faulted' = FALSE
  /\ \E x \in Addresses, match \in BOOLEAN :
       \/ Refusal(x, match) # "none" /\ Finish(<<Refusal(x, match)>>)
       \/ /\ Refusal(x, match) = "none"
          /\ addr' = x /\ retry' = Retries
          /\ pc' = "erase" /\ reply' = <<>>
          /\ UNCHANGED <<size, a>>
  /\ UNCHANGED <<flash, marked, spilled>>

\* flash_writer_page_erase()
page_erase_skipped ==
  /\ pc = "erase" /\ marked[flash_address_to_sector(addr)]
  /\ pc' = "check"
  /\ UNCHANGED <<flash, marked, addr, size, a, retry, reply, faulted, spilled>>

page_erase_done ==
  /\ pc = "erase"
  /\ LET s == flash_address_to_sector(addr) IN
       /\ ~marked[s]
       /\ flash' = [c \in Cells |-> IF c \in CellsOf(s) THEN Blank ELSE flash[c]]
       /\ marked' = [marked EXCEPT ![s] = TRUE]
       /\ spilled' = spilled \ {s}
  /\ pc' = "check"
  /\ UNCHANGED <<addr, size, a, retry, reply, faulted>>

\* The controller reports an error: the sector is as it was, or its first cell
\* is blank and the rest is not reliable.
page_erase_failed ==
  /\ pc = "erase"
  /\ LET s == flash_address_to_sector(addr) IN
       /\ ~marked[s]
       /\ \/ UNCHANGED flash
          \/ flash' = [c \in Cells |->
                         IF c \notin CellsOf(s) THEN flash[c]
                         ELSE IF c - 1 \in CellsOf(s) THEN Corrupt ELSE Blank]
  /\ faulted' = TRUE
  /\ pc' = "check"
  /\ UNCHANGED <<marked, addr, size, a, retry, reply, spilled>>

\* Mutant: the retries never run out.
RetriesLeft_Always == TRUE

RetriesLeft == retry > 0

\* while (!flash_page_is_erased(address, size) && retry-- > 0): size is the
\* length of the device class string, so only the cell at addr is looked at,
\* and a counter that runs out wraps before it is tested for 0.
EraseAgain ==
  /\ pc = "check" /\ flash[addr] # Blank /\ RetriesLeft
  /\ retry' = (retry + RetryLimit - 1) % RetryLimit
  /\ pc' = "erase"
  /\ UNCHANGED <<flash, marked, addr, size, a, reply, faulted, spilled>>

EraseReply ==
  /\ pc = "check"
  /\ \/ flash[addr] = Blank
     \/ ~RetriesLeft
  /\ LET left == IF flash[addr] = Blank THEN retry
                 ELSE (retry + RetryLimit - 1) % RetryLimit
     IN Finish(IF left = 0 THEN <<"failed", "success">> ELSE <<"success">>)
  /\ UNCHANGED <<flash, marked, faulted, spilled>>

---------------------------------------------------------------------------
(* command_write_flash *)

\* flash_page_is_erased(), inside the flash.
page_is_erased(x, n) == \A c \in x..x+n-1 : c < FlashEnd => flash[c] = Blank

WriteCommand ==
  /\ pc = "idle"
  /\ faulted' = FALSE
  /\ \E x \in Addresses, n \in Sizes, match, known \in BOOLEAN :
       \/ Refusal(x, match) # "none" /\ Finish(<<Refusal(x, match)>>)
       \/ Refusal(x, match) = "none" /\ ~known /\ Finish(<<"unknown_size">>)
       \/ /\ Refusal(x, match) = "none" /\ known
          /\ ~page_is_erased(x, n)
          /\ Finish(<<"not_erased">>)
       \/ /\ Refusal(x, match) = "none" /\ known
          /\ page_is_erased(x, n)
          /\ x + n <= FlashEnd        \* otherwise see ReadPastEnd
          /\ addr' = x /\ size' = n /\ a' = x
          /\ pc' = "mark" /\ reply' = <<>>
          /\ UNCHANGED retry
  /\ UNCHANGED <<flash, marked, spilled>>

\* Mutant: the sector is not marked.
Unmarked_Kept(s) == marked

Unmarked(s) == [marked EXCEPT ![s] = FALSE]

\* One turn of the loop in flash_writer_page_write() that marks the target
\* sectors as not erased.  It steps by the size of the sector from wherever in
\* the sector it is, and gives up, writing nothing, when it leaves the flash.
MarkSector ==
  /\ pc = "mark" /\ a < addr + size
  /\ marked' = Unmarked(flash_address_to_sector(a))
  /\ LET next == a + flash_get_sector_size(a) IN
       \/ /\ flash_address_is_valid(next)
          /\ a' = next
          /\ UNCHANGED <<pc, addr, size, retry, reply>>
       \/ /\ ~flash_address_is_valid(next)
          /\ Finish(<<"success">>)
  /\ UNCHANGED <<flash, faulted, spilled>>

MarkEnds ==
  /\ pc = "mark" /\ a >= addr + size
  /\ pc' = "program"
  /\ UNCHANGED <<flash, marked, addr, size, a, retry, reply, faulted, spilled>>

\* flash_program(), whose errors are not passed on.
SpilledInto ==
  {s \in SectorIndex : s # flash_address_to_sector(addr)
                       /\ CellsOf(s) \cap Target # {}}

ProgramDone ==
  /\ pc = "program"
  /\ flash' = [c \in Cells |-> IF c \notin Target THEN flash[c]
                               ELSE IF flash[c] = Blank THEN Data ELSE Corrupt]
  /\ spilled' = spilled \cup SpilledInto
  /\ Finish(<<"success">>)
  /\ UNCHANGED <<marked, faulted>>

ProgramFailed ==
  /\ pc = "program"
  /\ \/ UNCHANGED flash
     \/ flash' = [c \in Cells |-> IF c \in Target THEN Corrupt ELSE flash[c]]
  /\ spilled' = spilled \cup SpilledInto
  /\ faulted' = TRUE
  /\ Finish(<<"success">>)
  /\ UNCHANGED marked

---------------------------------------------------------------------------
(* Resets: on request, by a loss of power, or by the bus fault of a write  *)
(* command whose range leaves the flash with nothing but blank cells       *)
(* before.  What a reset in the middle of a flash operation leaves behind  *)
(* is what a failed one does.                                              *)

Reset ==
  /\ marked' = [s \in SectorIndex |-> FALSE]
  /\ Finish(<<>>)
  /\ faulted' = FALSE
  /\ UNCHANGED <<flash, spilled>>

ReadPastEnd ==
  /\ pc = "idle"
  /\ \E x \in Addresses \cap (AppStart..FlashEnd-1), n \in Sizes :
       page_is_erased(x, n) /\ x + n > FlashEnd
  /\ Reset

Erase == page_erase_skipped \/ page_erase_done \/ page_erase_failed
Check == EraseAgain \/ EraseReply
Write == MarkSector \/ MarkEnds \/ ProgramDone \/ ProgramFailed

Next == EraseCommand \/ WriteCommand \/ Erase \/ Check \/ Write
          \/ ReadPastEnd \/ Reset

Spec == Init /\ [][Next]_vars
          /\ WF_vars(Erase) /\ WF_vars(Check) /\ WF_vars(Write)

---------------------------------------------------------------------------
(* Properties *)

\* The bootloader and the configuration pages are never erased or written by
\* these commands ("The bootloader must never erase itself or its
\* configuration page").
BootloaderUntouched == \A c \in 0..AppStart-1 : flash[c] = Data

\* A sector the driver takes for erased is blank, unless a write that began in
\* another sector ran into it.
MarkSound ==
  \A s \in SectorIndex : marked[s] /\ s \notin spilled =>
    \A c \in CellsOf(s) : flash[c] = Blank

\* An erase whose flash operations worked answers "success" and leaves the
\* whole sector blank, except in a sector written across its border.
EraseWorks ==
  [][(pc = "check" /\ pc' = "idle" /\ ~faulted /\ reply' # <<>>
        /\ flash_address_to_sector(addr) \notin spilled)
       => /\ reply' = <<"success">>
          /\ \A c \in CellsOf(flash_address_to_sector(addr)) : flash[c] = Blank]_vars

\* A write whose flash operations worked stores its data, unless its last
\* sector-sized step leaves the flash: that is, unless it begins inside the
\* last sector, after its first cell.
WriteWorks ==
  [][(pc \in {"mark", "program"} /\ reply' = <<"success">> /\ ~faulted')
       => \/ \A c \in Target : flash'[c] = Data
          \/ addr + flash_get_sector_size(addr) > FlashEnd]_vars

\* Every command comes to its end, by a reply or a reset.
CommandEnds == (pc # "idle") ~> (pc = "idle")

\* PROTOCOL.markdown on writing ("Returns: True if successful"): data reported
\* as written is in the flash, if no flash operation failed.
WriteSuccessMeansStored ==
  [][(pc \in {"mark", "program"} /\ reply' = <<"success">> /\ ~faulted')
       => \A c \in Target : flash'[c] = Data]_vars

\* PROTOCOL.markdown on erasing ("Returns: True if successful"): success is
\* reported only when the cell at the address is blank.
EraseSuccessMeansErased ==
  [][(pc = "check" /\ reply' = <<"success">>) => flash[addr] = Blank]_vars
=============================================================================
