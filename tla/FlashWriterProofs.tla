------------------------- MODULE FlashWriterProofs -------------------------
(***************************************************************************)
(* Proofs about FlashWriter, for every size of the flash memory and any    *)
(* set of addresses named by commands.                                     *)
(***************************************************************************)
EXTENDS FlashWriter, TLAPS

LEMMA Parameters ==
  /\ FlashEnd \in Nat /\ FlashEnd > 4
  /\ \A c \in 0..FlashEnd-1 : flash_address_to_sector(c) \in SectorIndex
  /\ RetryLimit \in Nat /\ Retries \in 1..RetryLimit-1
  /\ Addresses \subseteq Nat /\ Sizes \subseteq 1..2
  /\ Blank # Data /\ Blank # Corrupt /\ Data # Corrupt
  BY ParametersAssumption DEF AppStart, Cells

\* An address in the application lies in the sector the driver computes for it,
\* and that sector is none of those of the bootloader and the configuration.
LEMMA AppSector ==
  ASSUME NEW x \in AppStart..FlashEnd-1
  PROVE  /\ x \in Cells
         /\ flash_address_to_sector(x) \in SectorIndex
         /\ x \in CellsOf(flash_address_to_sector(x))
         /\ flash_get_sector_size(x) \in {4, 8}
  <1>1. x \in Cells /\ x > 3 /\ x \in Nat
    BY Parameters DEF AppStart, Cells
  <1>2. flash_get_sector_size(x) \in {4, 8}
    BY <1>1, Parameters DEF flash_get_sector_size, flash_address_is_valid, Cells
  <1> QED
    BY <1>1, <1>2, Parameters DEF CellsOf, Cells

LEMMA AppSectorCells ==
  ASSUME NEW x \in AppStart..FlashEnd-1,
         NEW c \in CellsOf(flash_address_to_sector(x))
  PROVE  c \in AppStart..FlashEnd-1
  BY Parameters DEF AppStart, Cells, CellsOf, flash_address_to_sector,
     flash_address_is_valid

LEMMA RefusalNone ==
  ASSUME NEW x \in Addresses, NEW match \in BOOLEAN
  PROVE  /\ Refusal(x, match) # "none" => Refusal(x, match) \in Codes
         /\ Refusal(x, match) = "none" => x \in AppStart..FlashEnd-1
  <1>1. x \in Nat
    BY Parameters
  <1> QED
    BY <1>1, Parameters DEF Refusal, AppStart, Codes

LEMMA RetryWraps ==
  ASSUME NEW r \in 0..RetryLimit-1
  PROVE  (r + RetryLimit - 1) % RetryLimit \in 0..RetryLimit-1
  BY Parameters

---------------------------------------------------------------------------
(* Type correctness *)

LEMMA ReplyFacts ==
  /\ <<>> \in Replies /\ <<"success">> \in Replies
  /\ <<"failed", "success">> \in Replies
  /\ \A c \in Codes : <<c>> \in Replies
  /\ "unknown_size" \in Codes /\ "not_erased" \in Codes
  BY Zenon DEF Replies, Codes

LEMMA TypeInit == Init => TypeOK
  <1> SUFFICES ASSUME Init PROVE TypeOK
    OBVIOUS
  <1>1. flash \in [Cells -> {Blank, Data, Corrupt}]
    BY DEF Init
  <1>2. marked \in [SectorIndex -> BOOLEAN] /\ spilled \in SUBSET SectorIndex
    BY DEF Init
  <1>3. /\ pc = "idle" /\ addr = 0 /\ size = 0 /\ a = 0
        /\ retry \in 0..RetryLimit-1 /\ faulted = FALSE
    BY Parameters DEF Init
  <1>4. reply \in Replies
    BY ReplyFacts DEF Init
  <1> QED
    BY <1>1, <1>2, <1>3, <1>4 DEF TypeOK

LEMMA FinishType ==
  ASSUME NEW codes \in Replies, Finish(codes)
  PROVE  /\ pc' = "idle" /\ addr' = 0 /\ size' = 0 /\ a' = 0 /\ retry' = 0
         /\ size' \in Nat /\ a' \in Nat /\ retry' \in 0..RetryLimit-1
         /\ reply' \in Replies
  BY Parameters DEF Finish

LEMMA TypeStep == TypeOK /\ [Next]_vars => TypeOK'
  <1> SUFFICES ASSUME TypeOK, [Next]_vars PROVE TypeOK'
    OBVIOUS
  <1> DEFINE s == flash_address_to_sector(addr)
  <1>f. ASSUME NEW codes \in Replies, Finish(codes),
               flash' \in [Cells -> {Blank, Data, Corrupt}],
               marked' \in [SectorIndex -> BOOLEAN],
               faulted' \in BOOLEAN, spilled' \in SUBSET SectorIndex
        PROVE  TypeOK'
    BY <1>f, FinishType DEF TypeOK
  <1>1. CASE EraseCommand
    <2>0. /\ faulted' = FALSE /\ flash' = flash
          /\ marked' = marked /\ spilled' = spilled
      BY <1>1 DEF EraseCommand
    <2>1. PICK x \in Addresses, match \in BOOLEAN :
            \/ Refusal(x, match) # "none" /\ Finish(<<Refusal(x, match)>>)
            \/ /\ Refusal(x, match) = "none"
               /\ addr' = x /\ retry' = Retries
               /\ pc' = "erase" /\ reply' = <<>>
               /\ UNCHANGED <<size, a>>
      BY <1>1 DEF EraseCommand
    <2>2. CASE Refusal(x, match) # "none" /\ Finish(<<Refusal(x, match)>>)
      BY <2>0, <2>2, <1>f, RefusalNone, ReplyFacts DEF TypeOK
    <2>3. CASE Refusal(x, match) = "none" /\ addr' = x /\ retry' = Retries
               /\ pc' = "erase" /\ reply' = <<>> /\ UNCHANGED <<size, a>>
      <3>1. addr' \in AppStart..FlashEnd-1
        BY <2>3, RefusalNone
      <3>2. retry' \in 0..RetryLimit-1 /\ reply' \in Replies
        BY <2>3, ReplyFacts, Parameters
      <3> QED
        BY <2>0, <2>3, <3>1, <3>2 DEF TypeOK
    <2> QED
      BY <2>1, <2>2, <2>3
  <1>2. CASE WriteCommand
    <2>0. /\ faulted' = FALSE /\ flash' = flash
          /\ marked' = marked /\ spilled' = spilled
      BY <1>2 DEF WriteCommand
    <2>1. PICK x \in Addresses, n \in Sizes, match \in BOOLEAN, known \in BOOLEAN :
            \/ Refusal(x, match) # "none" /\ Finish(<<Refusal(x, match)>>)
            \/ Finish(<<"unknown_size">>)
            \/ Finish(<<"not_erased">>)
            \/ /\ Refusal(x, match) = "none" /\ x + n <= FlashEnd
               /\ addr' = x /\ size' = n /\ a' = x
               /\ pc' = "mark" /\ reply' = <<>> /\ UNCHANGED retry
      BY <1>2 DEF WriteCommand
    <2>2. CASE \/ Refusal(x, match) # "none" /\ Finish(<<Refusal(x, match)>>)
               \/ Finish(<<"unknown_size">>)
               \/ Finish(<<"not_erased">>)
      BY <2>0, <2>2, <1>f, RefusalNone, ReplyFacts DEF TypeOK
    <2>3. CASE /\ Refusal(x, match) = "none" /\ x + n <= FlashEnd
               /\ addr' = x /\ size' = n /\ a' = x
               /\ pc' = "mark" /\ reply' = <<>> /\ UNCHANGED retry
      <3>1. addr' \in AppStart..FlashEnd-1 /\ addr' + size' <= FlashEnd
        BY <2>3, RefusalNone
      <3>2. size' \in Nat /\ a' \in Nat /\ reply' \in Replies
        BY <2>3, ReplyFacts, Parameters
      <3> QED
        BY <2>0, <2>3, <3>1, <3>2 DEF TypeOK
    <2> QED
      BY <2>1, <2>2, <2>3
  <1>3. CASE Erase
    <2>1. pc = "erase" /\ pc' = "check" /\ s \in SectorIndex
      BY <1>3, AppSector DEF Erase, page_erase_skipped, page_erase_done,
         page_erase_failed, TypeOK
    <2>2. flash' \in [Cells -> {Blank, Data, Corrupt}]
      BY <1>3 DEF Erase, page_erase_skipped, page_erase_done,
         page_erase_failed, TypeOK
    <2> QED
      BY <1>3, <2>1, <2>2 DEF Erase, page_erase_skipped, page_erase_done,
         page_erase_failed, TypeOK
  <1>4. CASE EraseAgain
    BY <1>4, RetryWraps DEF EraseAgain, TypeOK
  <1>5. CASE EraseReply
    <2>1. PICK codes \in Replies : Finish(codes)
      BY <1>5, ReplyFacts DEF EraseReply
    <2> QED
      BY <1>5, <2>1, <1>f DEF EraseReply, TypeOK
  <1>6. CASE MarkSector
    <2>1. Unmarked(flash_address_to_sector(a)) \in [SectorIndex -> BOOLEAN]
      BY DEF Unmarked, TypeOK
    <2>2. a + flash_get_sector_size(a) \in Nat
      BY DEF flash_get_sector_size, TypeOK
    <2> QED
      BY <1>6, <2>1, <2>2, <1>f, ReplyFacts DEF MarkSector, TypeOK
  <1>7. CASE MarkEnds
    BY <1>7 DEF MarkEnds, TypeOK
  <1>8. CASE ProgramDone \/ ProgramFailed
    <2>1. SpilledInto \in SUBSET SectorIndex
      BY DEF SpilledInto
    <2>2. /\ Finish(<<"success">>)
          /\ flash' \in [Cells -> {Blank, Data, Corrupt}]
          /\ marked' = marked /\ faulted' \in BOOLEAN
          /\ spilled' = spilled \cup SpilledInto
      BY <1>8 DEF ProgramDone, ProgramFailed, TypeOK
    <2> QED
      BY <2>1, <2>2, <1>f, ReplyFacts DEF TypeOK
  <1>9. CASE Reset \/ ReadPastEnd
    BY <1>9, <1>f, ReplyFacts DEF ReadPastEnd, Reset, TypeOK
  <1>10. CASE UNCHANGED vars
    BY <1>10 DEF vars, TypeOK
  <1> QED
    BY <1>1, <1>2, <1>3, <1>4, <1>5, <1>6, <1>7, <1>8, <1>9, <1>10
       DEF Next, Check, Write

\* Every variable keeps its type; in particular no command in progress has an
\* address outside the application area.
THEOREM TypeCorrect == Spec => []TypeOK
  <1> QED
    BY TypeInit, TypeStep, PTL DEF Spec

---------------------------------------------------------------------------
(* The inductive invariant.  A write in progress has unmarked the sector it *)
(* begins in before it leaves the first turn of its loop; an erase none of  *)
(* whose flash operations failed has spent a retry only if the sector was   *)
(* marked and yet not blank, which takes a write across a sector border.    *)

\* The area of a write in progress is blank, as it was when it was looked at.
TargetBlank == pc \in {"mark", "program"} => \A c \in Target : flash[c] = Blank

WriteInProgress ==
  /\ pc \in {"mark", "program"} => size \in Sizes
  /\ pc = "mark" => \/ a = addr
                    \/ a >= addr + size /\ ~marked[flash_address_to_sector(addr)]
  /\ pc = "program" => ~marked[flash_address_to_sector(addr)]

EraseInProgress ==
  LET s == flash_address_to_sector(addr) IN
  /\ pc = "erase" /\ ~faulted => retry = Retries \/ (marked[s] /\ s \in spilled)
  /\ pc = "check" /\ ~faulted => marked[s] /\ (retry = Retries \/ s \in spilled)

\* A command in progress has written no reply yet.
Unanswered == pc # "idle" => reply = <<>>

FInv ==
  /\ TypeOK /\ BootloaderUntouched /\ MarkSound /\ TargetBlank
  /\ WriteInProgress /\ EraseInProgress /\ Unanswered

LEMMA FInvInit == Init => FInv
  <1> SUFFICES ASSUME Init PROVE FInv
    OBVIOUS
  <1>1. TypeOK
    BY TypeInit
  <1>2. BootloaderUntouched
    BY DEF Init, BootloaderUntouched
  <1>3. MarkSound
    BY DEF Init, MarkSound
  <1>4. pc = "idle"
    BY DEF Init
  <1> QED
    BY <1>1, <1>2, <1>3, <1>4 DEF FInv, TargetBlank, WriteInProgress,
       EraseInProgress, Unanswered

\* A step that leaves the flash, the marks and spilled alone keeps what is said
\* of them.
LEMMA FlashUnchanged ==
  ASSUME BootloaderUntouched, MarkSound,
         UNCHANGED <<flash, marked, spilled>>
  PROVE  BootloaderUntouched' /\ MarkSound'
  BY DEF BootloaderUntouched, MarkSound

\* A step that ends its command has only the flash to account for.
LEMMA Idle ==
  ASSUME pc' = "idle"
  PROVE  /\ TargetBlank' /\ WriteInProgress' /\ EraseInProgress'
         /\ Unanswered'
  BY DEF TargetBlank, WriteInProgress, EraseInProgress, Unanswered

\* Every cell a write programs lies in the application area.
LEMMA TargetInApp ==
  ASSUME TypeOK, pc \in {"mark", "program"}, NEW c \in Target
  PROVE  c \in AppStart..FlashEnd-1
  BY Parameters DEF TypeOK, Target, AppStart

LEMMA EraseCommandKeeps == FInv /\ EraseCommand => FInv'
  <1> SUFFICES ASSUME FInv, EraseCommand PROVE FInv'
    OBVIOUS
  <1>1. TypeOK'
    BY TypeStep DEF FInv, Next
  <1>2. BootloaderUntouched' /\ MarkSound'
    BY FlashUnchanged DEF FInv, EraseCommand
  <1>3. faulted' = FALSE /\ (pc' = "idle" \/ (/\ pc' = "erase" /\ retry' = Retries
                                              /\ reply' = <<>>))
    BY DEF EraseCommand, Finish
  <1> QED
    BY <1>1, <1>2, <1>3, Idle DEF FInv, TargetBlank, WriteInProgress,
       EraseInProgress, Unanswered

LEMMA WriteCommandKeeps == FInv /\ WriteCommand => FInv'
  <1> SUFFICES ASSUME FInv, WriteCommand PROVE FInv'
    OBVIOUS
  <1>1. TypeOK'
    BY TypeStep DEF FInv, Next
  <1>2. flash' = flash /\ BootloaderUntouched' /\ MarkSound'
    BY FlashUnchanged DEF FInv, WriteCommand
  <1>3. CASE pc' = "idle"
    BY <1>1, <1>2, <1>3, Idle DEF FInv
  <1>4. CASE pc' # "idle"
    <2>1. PICK x \in Addresses, n \in Sizes :
            /\ page_is_erased(x, n) /\ x + n <= FlashEnd
            /\ addr' = x /\ size' = n /\ a' = x /\ pc' = "mark" /\ reply' = <<>>
      BY <1>4 DEF WriteCommand, Finish
    <2>2. \A c \in x..x+n-1 : c < FlashEnd /\ flash[c] = Blank
      BY <2>1, Parameters DEF page_is_erased
    <2>3. TargetBlank'
      BY <1>2, <2>1, <2>2 DEF TargetBlank, Target
    <2> QED
      BY <1>1, <1>2, <2>1, <2>3 DEF FInv, WriteInProgress, EraseInProgress, Unanswered
  <1> QED
    BY <1>3, <1>4

LEMMA EraseKeeps == FInv /\ Erase => FInv'
  <1> SUFFICES ASSUME FInv, Erase PROVE FInv'
    OBVIOUS
  <1> DEFINE s == flash_address_to_sector(addr)
  <1>1. TypeOK'
    BY TypeStep DEF FInv, Next
  <1>2. /\ addr \in AppStart..FlashEnd-1 /\ s \in SectorIndex
        /\ pc = "erase" /\ pc' = "check"
        /\ addr' = addr /\ retry' = retry /\ reply' = reply /\ reply = <<>>
    BY AppSector DEF FInv, TypeOK, Unanswered, Erase, page_erase_skipped, page_erase_done,
       page_erase_failed
  <1>3. \A c \in Cells : c \notin CellsOf(s) => flash'[c] = flash[c]
    BY DEF FInv, TypeOK, Erase, page_erase_skipped, page_erase_done, page_erase_failed
  <1>4. BootloaderUntouched'
    <2>1. \A c \in 0..AppStart-1 : c \in Cells /\ c \notin CellsOf(s)
      BY <1>2, AppSectorCells, Parameters DEF AppStart, Cells
    <2> QED
      BY <1>3, <2>1 DEF FInv, BootloaderUntouched
  <1>5. MarkSound'
    <2> SUFFICES ASSUME NEW t \in SectorIndex, marked'[t], t \notin spilled',
                        NEW c \in CellsOf(t)
                 PROVE  flash'[c] = Blank
      BY DEF MarkSound
    <2>1. c \in Cells /\ (t # s => c \notin CellsOf(s))
      BY DEF CellsOf
    <2>2. CASE page_erase_skipped
      BY <2>2 DEF FInv, MarkSound, page_erase_skipped
    <2>3. CASE page_erase_done
      <3>1. CASE t = s
        BY <2>1, <2>3, <3>1 DEF page_erase_done
      <3>2. CASE t # s
        BY <1>3, <2>1, <2>3, <3>2 DEF FInv, TypeOK, MarkSound, page_erase_done
      <3> QED
        BY <3>1, <3>2
    <2>4. CASE page_erase_failed
      <3>1. t # s /\ marked[t] /\ t \notin spilled
        BY <2>4 DEF page_erase_failed
      <3> QED
        BY <1>3, <2>1, <3>1 DEF FInv, MarkSound
    <2> QED
      BY <2>2, <2>3, <2>4 DEF Erase
  <1>6. EraseInProgress'
    <2>1. CASE page_erase_skipped
      BY <1>2, <2>1 DEF FInv, EraseInProgress, page_erase_skipped
    <2>2. CASE page_erase_done
      BY <1>2, <2>2 DEF FInv, TypeOK, EraseInProgress, page_erase_done
    <2>3. CASE page_erase_failed
      BY <1>2, <2>3 DEF EraseInProgress, page_erase_failed
    <2> QED
      BY <2>1, <2>2, <2>3 DEF Erase
  <1> QED
    BY <1>1, <1>2, <1>4, <1>5, <1>6 DEF FInv, TargetBlank, WriteInProgress, Unanswered

LEMMA CheckKeeps == FInv /\ Check => FInv'
  <1> SUFFICES ASSUME FInv, Check PROVE FInv'
    OBVIOUS
  <1> DEFINE s == flash_address_to_sector(addr)
  <1>1. TypeOK'
    BY TypeStep DEF FInv, Next
  <1>2. BootloaderUntouched' /\ MarkSound'
    BY FlashUnchanged DEF FInv, Check, EraseAgain, EraseReply
  <1>3. CASE EraseReply
    BY <1>1, <1>2, <1>3, Idle DEF FInv, EraseReply, Finish
  <1>4. CASE EraseAgain
    <2>1. ASSUME ~faulted PROVE marked[s] /\ s \in spilled
      <3>1. marked[s]
        BY <1>4, <2>1 DEF FInv, EraseInProgress, EraseAgain
      <3>2. addr \in CellsOf(s) /\ s \in SectorIndex /\ flash[addr] # Blank
        BY <1>4, AppSector DEF FInv, TypeOK, EraseAgain
      <3> QED
        BY <3>1, <3>2 DEF FInv, MarkSound
    <2>2. EraseInProgress'
      BY <1>4, <2>1 DEF EraseAgain, EraseInProgress
    <2> QED
      BY <1>1, <1>2, <1>4, <2>2 DEF FInv, EraseAgain, TargetBlank,
         WriteInProgress, Unanswered
  <1> QED
    BY <1>3, <1>4 DEF Check

LEMMA MarkSectorKeeps == FInv /\ MarkSector => FInv'
  <1> SUFFICES ASSUME FInv, MarkSector PROVE FInv'
    OBVIOUS
  <1>1. TypeOK'
    BY TypeStep DEF FInv, Next, Write
  <1>2. BootloaderUntouched'
    BY DEF FInv, BootloaderUntouched, MarkSector
  <1>3. a = addr /\ addr \in AppStart..FlashEnd-1
    BY Parameters DEF FInv, TypeOK, WriteInProgress, MarkSector
  <1>4. /\ flash_address_to_sector(addr) \in SectorIndex
        /\ flash_get_sector_size(addr) \in {4, 8}
    BY <1>3, AppSector
  <1>5. /\ marked' = [marked EXCEPT ![flash_address_to_sector(addr)] = FALSE]
        /\ \A t \in SectorIndex : marked'[t] => marked[t]
        /\ ~marked'[flash_address_to_sector(addr)]
    BY <1>3, <1>4 DEF FInv, TypeOK, MarkSector, Unmarked
  <1>6. MarkSound'
    BY <1>5 DEF FInv, MarkSound, MarkSector
  <1>7. CASE pc' = "idle"
    BY <1>1, <1>2, <1>6, <1>7, Idle DEF FInv
  <1>8. CASE pc' # "idle"
    <2>1. /\ pc' = "mark" /\ addr' = addr /\ size' = size /\ flash' = flash
          /\ a' = addr + flash_get_sector_size(addr)
          /\ reply' = reply /\ reply = <<>>
      BY <1>3, <1>8 DEF FInv, Unanswered, MarkSector, Finish
    <2>2. size \in 1..2 /\ size \in Sizes
      BY Parameters DEF FInv, WriteInProgress, MarkSector
    <2>3. a' >= addr' + size'
      BY <1>3, <1>4, <2>1, <2>2, Parameters DEF AppStart
    <2>4. TargetBlank'
      BY <2>1 DEF FInv, TargetBlank, Target, MarkSector
    <2> QED
      BY <1>1, <1>2, <1>5, <1>6, <2>1, <2>2, <2>3, <2>4
         DEF FInv, WriteInProgress, EraseInProgress, Unanswered
  <1> QED
    BY <1>7, <1>8

LEMMA MarkEndsKeeps == FInv /\ MarkEnds => FInv'
  <1> SUFFICES ASSUME FInv, MarkEnds PROVE FInv'
    OBVIOUS
  <1>1. TypeOK'
    BY TypeStep DEF FInv, Next, Write
  <1>2. BootloaderUntouched' /\ MarkSound'
    BY FlashUnchanged DEF FInv, MarkEnds
  <1>3. TargetBlank'
    BY DEF FInv, TargetBlank, Target, MarkEnds
  <1>4. size \in 1..2 /\ size \in Sizes /\ addr \in Nat
    BY Parameters DEF FInv, TypeOK, WriteInProgress, MarkEnds, AppStart
  <1>5. ~marked[flash_address_to_sector(addr)]
    BY <1>4 DEF FInv, WriteInProgress, MarkEnds
  <1> QED
    BY <1>1, <1>2, <1>3, <1>4, <1>5 DEF FInv, MarkEnds, WriteInProgress,
       EraseInProgress, Unanswered

LEMMA ProgramKeeps == FInv /\ (ProgramDone \/ ProgramFailed) => FInv'
  <1> SUFFICES ASSUME FInv, ProgramDone \/ ProgramFailed PROVE FInv'
    OBVIOUS
  <1>1. TypeOK'
    BY TypeStep DEF FInv, Next, Write
  <1>2. /\ pc = "program" /\ pc' = "idle" /\ marked' = marked
        /\ spilled' = spilled \cup SpilledInto
    BY DEF ProgramDone, ProgramFailed, Finish
  <1>3. \A c \in Cells : c \notin Target => flash'[c] = flash[c]
    BY DEF FInv, TypeOK, ProgramDone, ProgramFailed
  <1>4. BootloaderUntouched'
    <2>1. \A c \in 0..AppStart-1 : c \in Cells /\ c \notin Target
      BY <1>2, TargetInApp, Parameters DEF FInv, AppStart, Cells
    <2> QED
      BY <1>3, <2>1 DEF FInv, BootloaderUntouched
  <1>5. MarkSound'
    <2> SUFFICES ASSUME NEW t \in SectorIndex, marked'[t], t \notin spilled',
                        NEW c \in CellsOf(t)
                 PROVE  flash'[c] = Blank
      BY DEF MarkSound
    <2>1. t # flash_address_to_sector(addr)
      BY <1>2 DEF FInv, WriteInProgress
    <2>2. t \notin spilled /\ c \notin Target
      BY <1>2, <2>1 DEF SpilledInto
    <2> QED
      BY <1>2, <1>3, <2>2 DEF FInv, MarkSound, CellsOf
  <1> QED
    BY <1>1, <1>2, <1>4, <1>5, Idle DEF FInv

LEMMA ResetKeeps == FInv /\ (Reset \/ ReadPastEnd) => FInv'
  <1> SUFFICES ASSUME FInv, Reset \/ ReadPastEnd PROVE FInv'
    OBVIOUS
  <1>0. Reset
    BY DEF ReadPastEnd
  <1>1. TypeOK'
    BY <1>0, TypeStep DEF FInv, Next
  <1>2. BootloaderUntouched' /\ MarkSound' /\ pc' = "idle"
    BY <1>0 DEF FInv, BootloaderUntouched, MarkSound, Reset, Finish
  <1> QED
    BY <1>1, <1>2, Idle DEF FInv

LEMMA FInvStep == FInv /\ [Next]_vars => FInv'
  <1> SUFFICES ASSUME FInv, UNCHANGED vars PROVE FInv'
    BY EraseCommandKeeps, WriteCommandKeeps, EraseKeeps, CheckKeeps,
       MarkSectorKeeps, MarkEndsKeeps, ProgramKeeps, ResetKeeps DEF Next, Write
  <1> QED
    BY DEF vars, FInv, TypeOK, BootloaderUntouched, MarkSound,
       TargetBlank, Target, WriteInProgress, EraseInProgress, Unanswered

LEMMA FInvCorrect == Spec => []FInv
  BY FInvInit, FInvStep, PTL DEF Spec

\* No sequence of erase and write commands, failures and resets touches the
\* sectors of the bootloader and its configuration.
THEOREM BootloaderSafe == Spec => []BootloaderUntouched
  <1>1. FInv => BootloaderUntouched
    BY DEF FInv
  <1> QED
    BY <1>1, FInvCorrect, PTL

\* The driver's memory of the sectors it erased is right, up to writes that run
\* over a sector border.
THEOREM MarksRight == Spec => []MarkSound
  <1>1. FInv => MarkSound
    BY DEF FInv
  <1> QED
    BY <1>1, FInvCorrect, PTL

\* An erase whose flash operations worked erases the whole sector and says so.
THEOREM ErasesRight == Spec => EraseWorks
  <1> DEFINE s == flash_address_to_sector(addr)
             Works == (pc = "check" /\ pc' = "idle" /\ ~faulted /\ reply' # <<>>
                         /\ s \notin spilled)
                       => /\ reply' = <<"success">>
                          /\ \A c \in CellsOf(s) : flash[c] = Blank
  <1>1. FInv /\ [Next]_vars => [Works]_vars
    <2> SUFFICES ASSUME FInv, Next, pc = "check", pc' = "idle", ~faulted,
                        reply' # <<>>, s \notin spilled
                 PROVE  /\ reply' = <<"success">>
                        /\ \A c \in CellsOf(s) : flash[c] = Blank
      OBVIOUS
    <2>1. /\ marked[s] /\ retry = Retries
          /\ s \in SectorIndex /\ addr \in CellsOf(s)
      BY AppSector DEF FInv, TypeOK, EraseInProgress
    <2>2. \A c \in CellsOf(s) : flash[c] = Blank
      BY <2>1 DEF FInv, MarkSound
    <2>3. EraseReply
      BY DEF Next, Check, Erase, Write, EraseCommand, WriteCommand, EraseAgain,
         page_erase_skipped, page_erase_done, page_erase_failed, MarkSector,
         MarkEnds, ProgramDone, ProgramFailed, ReadPastEnd, Reset, Finish
    <2>4. retry # 0
      BY <2>1, Parameters
    <2> QED
      BY <2>1, <2>2, <2>3, <2>4 DEF EraseReply, Finish
  <1> QED
    BY <1>1, FInvCorrect, PTL DEF Spec, EraseWorks

\* A write whose flash operations worked stores its data, unless it begins
\* inside the last sector.
THEOREM WritesRight == Spec => WriteWorks
  <1> DEFINE Works == (pc \in {"mark", "program"} /\ reply' = <<"success">> /\ ~faulted')
                       => \/ \A c \in Target : flash'[c] = Data
                          \/ addr + flash_get_sector_size(addr) > FlashEnd
  <1>1. FInv /\ [Next]_vars => [Works]_vars
    <2> SUFFICES ASSUME FInv, Next, pc \in {"mark", "program"},
                        reply' = <<"success">>, ~faulted'
                 PROVE  \/ \A c \in Target : flash'[c] = Data
                        \/ addr + flash_get_sector_size(addr) > FlashEnd
      OBVIOUS
    <2>1. reply = <<>> /\ reply # <<"success">>
      BY DEF FInv, Unanswered
    <2>2. pc' = "idle" /\ (MarkSector \/ ProgramDone \/ ProgramFailed)
      BY <2>1 DEF Next, Check, Erase, Write, EraseCommand, WriteCommand,
         EraseAgain, EraseReply, page_erase_skipped, page_erase_done,
         page_erase_failed, MarkSector, MarkEnds, ProgramDone, ProgramFailed,
         ReadPastEnd, Reset, Finish
    <2>3. CASE MarkSector
      <3>1. a = addr /\ addr \in AppStart..FlashEnd-1
        BY <2>3, Parameters DEF FInv, TypeOK, WriteInProgress, MarkSector
      <3>2. /\ ~flash_address_is_valid(addr + flash_get_sector_size(addr))
            /\ flash_get_sector_size(addr) \in {4, 8}
        BY <2>2, <2>3, <3>1, AppSector DEF MarkSector, FInv
      <3> QED
        BY <3>1, <3>2, Parameters DEF flash_address_is_valid, AppStart
    <2>4. CASE ProgramDone
      <3>1. \A c \in Target : c \in Cells /\ flash[c] = Blank
        BY <2>4, TargetInApp, AppSector DEF FInv, TargetBlank, ProgramDone
      <3> QED
        BY <2>4, <3>1 DEF ProgramDone
    <2>5. CASE ProgramFailed
      BY <2>5 DEF ProgramFailed
    <2> QED
      BY <2>2, <2>3, <2>4, <2>5
  <1> QED
    BY <1>1, FInvCorrect, PTL DEF Spec, WriteWorks
=============================================================================
