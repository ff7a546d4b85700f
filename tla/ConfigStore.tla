---------------------------- MODULE ConfigStore ----------------------------
(***************************************************************************)
(* The two redundant configuration pages of a board: how the bootloader    *)
(* picks one at reset (bootloader.c), how a client changes the copy in RAM *)
(* (command_config_update) and how command_config_write_to_flash rewrites  *)
(* the pages one after the other, with a reset or power loss possible      *)
(* between and inside the flash operations, and with flash operations that *)
(* fail without the driver telling its caller.                             *)
(*                                                                         *)
(* A page is Blank (all 0xFF), Corrupt (its CRC does not match its bytes)  *)
(* or holds one configuration with a matching CRC.  A configuration is its *)
(* update_count and a body that stands for all of its other fields.        *)
(***************************************************************************)
EXTENDS Naturals

CONSTANTS Body,         \* values of ID, board_name, device_class, application_*
          DefaultBody,  \* the built-in body, used when no page is valid
          CountLimit,   \* update_count is kept modulo this; 2^32 in the code
          Blank, Corrupt, None

Config == [body : Body, update_count : 0..CountLimit-1]

ASSUME ConstantsAssumption ==
  /\ CountLimit \in Nat /\ CountLimit > 1
  /\ DefaultBody \in Body
  /\ Blank # Corrupt
  /\ Blank \notin Config /\ Corrupt \notin Config /\ None \notin Config

Page == {1, 2}

Other(p) == 3 - p

VARIABLES flash,        \* page -> Blank, Corrupt or a configuration
          erased,       \* page -> flash_sector_is_erased[] of its sector
          cfg,          \* the configuration in RAM, None while the board is down
          pc,           \* where the bootloader is: "off", "idle", or in a save
          cur,          \* the page a save works on
          first,        \* the page it works on first
          strict,       \* does the save stop at the first page that fails?
          success,      \* result so far
          reply         \* last reply to "save": "none", "ok", "failed"

\* Auxiliary variables: no part of the code, and no guard reads them.
VARIABLES candidates,   \* last committed configuration and the later attempts
          faulted       \* has a flash operation of this save failed?

vars == <<flash, erased, cfg, pc, cur, first, strict, success, reply,
          candidates, faulted>>

Saving == {"erase", "program", "verify"}

TypeOK ==
  /\ flash \in [Page -> Config \cup {Blank, Corrupt}]
  /\ erased \in [Page -> BOOLEAN]
  /\ cfg \in Config \cup {None}
  /\ pc \in {"off", "idle"} \cup Saving
  /\ cfg = None <=> pc = "off"
  /\ cur \in Page /\ first \in Page
  /\ strict \in BOOLEAN /\ success \in BOOLEAN /\ faulted \in BOOLEAN
  /\ reply \in {"none", "ok", "failed"}
  /\ candidates \in SUBSET Config

---------------------------------------------------------------------------
(* Helpers *)

\* config_is_valid(): the CRC at the start of the page matches the rest of it.
config_is_valid(p) == flash[p] \in Config

SomePageValid == \E p \in Page : config_is_valid(p)

Default == [body |-> DefaultBody, update_count |-> 1]

\* Mutant: the counter does not wrap at its width.
Bumped_NoWrap(c) == [c EXCEPT !.update_count = @ + 1]

Bumped(c) == [c EXCEPT !.update_count = (@ + 1) % CountLimit]

\* config_update_from_serialized(): only the keys present in the map change.
Merged(c, keys, v) ==
  [body         |-> IF "body" \in keys THEN v.body ELSE c.body,
   update_count |-> IF "update_count" \in keys THEN v.update_count
                                               ELSE c.update_count]

\* Programming flash only clears bits: a page that is not blank keeps its
\* content when the same bytes are written and is corrupted by any others.
Programmed(old, c) == IF old \in {Blank, c} THEN c ELSE Corrupt

\* Mutant: the second page is not tried.
BootChoice_OnePage == IF config_is_valid(1) THEN flash[1] ELSE Default

\* The choice bootloader_main makes when it starts.
BootChoice ==
  IF config_is_valid(1) THEN flash[1]
  ELSE IF config_is_valid(2) THEN flash[2]
  ELSE Default

\* Mutant: page 1 first, whichever page is valid.
FirstPage_Fixed == 1

\* The page a save rewrites first: page 1, unless it is the only valid one.
FirstPage == IF ~config_is_valid(2) /\ config_is_valid(1) THEN 2 ELSE 1

\* Mutant: the driver leaves its mark set when it programs.
Unmarked_Kept(p) == erased

\* What flash_writer_page_write() does to the driver's marks.
Unmarked(p) == [erased EXCEPT ![p] = FALSE]

\* Mutant: one page is enough.
LastVerify_OnePage == TRUE

\* Is this read back the last one of the save?
LastVerify == cur # first \/ (strict /\ ~config_is_valid(cur))

Init ==
  /\ flash \in [Page -> {Blank, Corrupt}]
  /\ erased = [p \in Page |-> FALSE]
  /\ cfg = None /\ pc = "off"
  /\ cur = 1 /\ first = 1 /\ strict = FALSE /\ success = FALSE
  /\ reply = "none"
  /\ candidates = {} /\ faulted = FALSE

---------------------------------------------------------------------------
(* Start-up and the RAM copy *)

Boot ==
  /\ pc = "off"
  /\ cfg' = BootChoice
  /\ pc' = "idle"
  /\ UNCHANGED <<flash, erased, cur, first, strict, success, reply,
                 candidates, faulted>>

\* command_config_update: the received map holds `keys' with the values of v.
ConfigUpdate ==
  /\ pc = "idle"
  /\ \E keys \in SUBSET {"body", "update_count"}, v \in Config :
       cfg' = Merged(cfg, keys, v)
  /\ UNCHANGED <<flash, erased, pc, cur, first, strict, success, reply,
                 candidates, faulted>>

---------------------------------------------------------------------------
(* command_config_write_to_flash, one flash operation at a time *)

SaveBegin ==
  /\ pc = "idle"
  /\ cfg' = Bumped(cfg)
  /\ cur' = FirstPage
  /\ first' = cur'
  /\ strict' = SomePageValid
  /\ success' = TRUE
  /\ pc' = "erase"
  /\ reply' = "none"
  /\ candidates' = candidates \cup {cfg'}
  /\ faulted' = FALSE
  /\ UNCHANGED <<flash, erased>>

\* flash_writer_page_erase(): skipped when the driver believes the sector is
\* still erased; an error is seen by the driver only, which does not mark it.
EraseDone ==
  /\ pc = "erase"
  /\ flash' = IF erased[cur] THEN flash ELSE [flash EXCEPT ![cur] = Blank]
  /\ erased' = [erased EXCEPT ![cur] = TRUE]
  /\ pc' = "program"
  /\ UNCHANGED <<cfg, cur, first, strict, success, reply, candidates, faulted>>

EraseFails ==
  /\ pc = "erase" /\ ~erased[cur]
  /\ \E left \in {flash[cur], Corrupt} : flash' = [flash EXCEPT ![cur] = left]
  /\ faulted' = TRUE
  /\ pc' = "program"
  /\ UNCHANGED <<erased, cfg, cur, first, strict, success, reply, candidates>>

\* flash_writer_page_write(): clears the erased mark, then programs.
ProgramDone ==
  /\ pc = "program"
  /\ flash' = [flash EXCEPT ![cur] = Programmed(@, cfg)]
  /\ erased' = Unmarked(cur)
  /\ pc' = "verify"
  /\ UNCHANGED <<cfg, cur, first, strict, success, reply, candidates, faulted>>

ProgramFails ==
  /\ pc = "program"
  /\ \E left \in {flash[cur], Corrupt} : flash' = [flash EXCEPT ![cur] = left]
  /\ erased' = Unmarked(cur)
  /\ faulted' = TRUE
  /\ pc' = "verify"
  /\ UNCHANGED <<cfg, cur, first, strict, success, reply, candidates>>

\* The page reads back with a matching CRC, or (if no page was valid when the
\* save began) it does not matter yet: on to the second page.
VerifyFirst ==
  /\ pc = "verify" /\ cur = first
  /\ config_is_valid(cur) \/ ~strict
  /\ success' = config_is_valid(cur)
  /\ cur' = Other(cur)
  /\ pc' = "erase"
  /\ UNCHANGED <<flash, erased, cfg, first, strict, reply, candidates, faulted>>

\* Last read back, and the reply.  A save whose flash operations all worked
\* and that is reported as done is committed.
VerifyLast ==
  /\ pc = "verify"
  /\ LastVerify
  /\ success' = (success /\ config_is_valid(cur))
  /\ reply' = IF success' THEN "ok" ELSE "failed"
  /\ pc' = "idle"
  /\ candidates' = IF success' /\ ~faulted THEN {cfg} ELSE candidates
  /\ UNCHANGED <<flash, erased, cfg, cur, first, strict, faulted>>

---------------------------------------------------------------------------
(* A reset, a power loss, or the jump to the application.  RAM is lost; a  *)
(* page whose erase or programming is cut short may be corrupt.            *)

Down ==
  /\ pc # "off"
  /\ \/ UNCHANGED flash
     \/ /\ pc \in {"erase", "program"}
        /\ flash' = [flash EXCEPT ![cur] = Corrupt]
  /\ erased' = [p \in Page |-> FALSE]
  /\ cfg' = None /\ pc' = "off"
  /\ cur' = 1 /\ first' = 1 /\ strict' = FALSE /\ success' = FALSE
  /\ reply' = "none" /\ faulted' = FALSE
  /\ UNCHANGED candidates

Erase == EraseDone \/ EraseFails
Program == ProgramDone \/ ProgramFails
Verify == VerifyFirst \/ VerifyLast

Next == Boot \/ ConfigUpdate \/ SaveBegin \/ Erase \/ Program \/ Verify \/ Down

Spec == Init /\ [][Next]_vars

---------------------------------------------------------------------------
(* Properties *)

\* Once a page is valid there is a valid page at every instant, in whatever
\* order resets and failing flash operations come.  This is what the order of
\* the two updates in command_config_write_to_flash is for.
SomePageStaysValid == [][SomePageValid => SomePageValid']_vars

\* A reset never brings back a configuration that a later committed save
\* replaced: after any number of failed and interrupted saves, what the valid
\* pages hold is the last committed configuration or one a later save tried
\* to store.
OnlyCandidatesStored == \A p \in Page : config_is_valid(p) => flash[p] \in candidates

\* The reply to a save is right whenever its flash operations worked: it says
\* "ok" exactly when both pages hold the saved configuration, and it does not
\* say "failed" without a flash operation having failed.
SaveReplyRight ==
  [][(Verify /\ pc' = "idle" /\ ~faulted)
       => /\ reply' = "ok"
          /\ \A p \in Page : flash[p] = cfg]_vars

\* The driver's record of erased sectors is never wrong about a page, so no
\* save skips an erase that it needs.
ErasedMarkSound == \A p \in Page : erased[p] => flash[p] = Blank

\* The two pages implement one durable configuration with candidates.
D == INSTANCE DurableConfig WITH ram <- cfg, established <- SomePageValid
ImplementsDurable == D!ASpec

\* What PROTOCOL.markdown says of the reply ("Returns: True if successful"):
\* "ok" means that both pages hold the configuration just saved.  Not true
\* when an erase and a write fail on a page that was valid before.
OkMeansStored ==
  [][(Verify /\ reply' = "ok") => \A p \in Page : flash[p] = cfg]_vars
=============================================================================
