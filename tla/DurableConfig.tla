--------------------------- MODULE DurableConfig ---------------------------
(***************************************************************************)
(* What saving the configuration promises, without pages, CRCs or flash    *)
(* operations.  A board holds a configuration in RAM while it runs.  Flash *)
(* holds one of a set of candidates: the configuration of the last save    *)
(* that completed, and those of the saves attempted since.  A reset loads  *)
(* one of the candidates; it loads the built-in defaults only on a board   *)
(* that never stored a configuration.                                      *)
(***************************************************************************)
CONSTANTS Config,       \* every value a configuration can take
          Default,      \* the one bootloader_main fills in by itself
          None,         \* no configuration in RAM: the board is down
          Bumped(_)     \* a configuration with its update_count incremented

VARIABLES ram,          \* the configuration in force, or None
          candidates,   \* what a reset may load
          established   \* has a configuration ever reached flash?

avars == <<ram, candidates, established>>

AInit ==
  /\ ram = None
  /\ candidates = {}
  /\ established = FALSE

ABoot ==
  /\ ram = None
  /\ \/ ram' \in candidates
     \/ ~established /\ ram' = Default
  /\ UNCHANGED <<candidates, established>>

ADown ==
  /\ ram' = None
  /\ UNCHANGED <<candidates, established>>

AUpdate ==
  /\ ram # None
  /\ ram' \in Config
  /\ UNCHANGED <<candidates, established>>

AAttempt ==
  /\ ram # None
  /\ ram' = Bumped(ram)
  /\ candidates' = candidates \cup {ram'}
  /\ UNCHANGED established

ALand ==
  /\ candidates # {}
  /\ established' = TRUE
  /\ UNCHANGED <<ram, candidates>>

ACommit ==
  /\ ram \in candidates
  /\ established
  /\ candidates' = {ram}
  /\ UNCHANGED <<ram, established>>

ANext == ABoot \/ ADown \/ AUpdate \/ AAttempt \/ ALand \/ ACommit

ASpec == AInit /\ [][ANext]_avars
=============================================================================
