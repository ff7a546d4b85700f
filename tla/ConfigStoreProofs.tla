------------------------- MODULE ConfigStoreProofs -------------------------
(***************************************************************************)
(* Proofs about ConfigStore, for every set of bodies and every width of    *)
(* update_count.                                                           *)
(***************************************************************************)
EXTENDS ConfigStore, TLAPS

\* A configuration stays a configuration when its counter is incremented.
LEMMA BumpedType == ASSUME NEW c \in Config PROVE Bumped(c) \in Config
  <1>1. (c.update_count + 1) % CountLimit \in 0..CountLimit-1
    BY ConstantsAssumption DEF Config
  <1> QED
    BY <1>1 DEF Config, Bumped

\* ... and when some of its fields are replaced.
LEMMA MergedType ==
  ASSUME NEW c \in Config, NEW v \in Config, NEW keys
  PROVE  Merged(c, keys, v) \in Config
  BY DEF Config, Merged

\* What a reset loads is a configuration.
LEMMA BootChoiceType == BootChoice \in Config
  <1>1. Default \in Config
    BY ConstantsAssumption DEF Default, Config
  <1> QED
    BY <1>1 DEF BootChoice, config_is_valid

LEMMA OtherPage == \A p \in Page : /\ Other(p) \in Page /\ Other(p) # p
                                   /\ Other(Other(p)) = p
                                   /\ Page = {p, Other(p)}
  BY DEF Page, Other

---------------------------------------------------------------------------
(* Type correctness *)

LEMMA TypeInit == Init => TypeOK
  BY DEF Init, TypeOK, Page, Saving

LEMMA TypeStep == TypeOK /\ [Next]_vars => TypeOK'
  <1> SUFFICES ASSUME TypeOK, [Next]_vars PROVE TypeOK'
    OBVIOUS
  <1> USE DEF TypeOK, Saving
  <1>1. CASE Boot
    BY <1>1, BootChoiceType, ConstantsAssumption DEF Boot
  <1>2. CASE ConfigUpdate
    <2>1. cfg \in Config
      BY <1>2 DEF ConfigUpdate
    <2> QED
      BY <1>2, <2>1, MergedType, ConstantsAssumption DEF ConfigUpdate
  <1>3. CASE SaveBegin
    <2>1. cfg \in Config
      BY <1>3 DEF SaveBegin
    <2>2. cfg' \in Config
      BY <1>3, <2>1, BumpedType DEF SaveBegin
    <2>3. FirstPage \in Page /\ SomePageValid \in BOOLEAN
      BY DEF FirstPage, Page, SomePageValid
    <2> QED
      BY <1>3, <2>1, <2>2, <2>3, ConstantsAssumption DEF SaveBegin
  <1>4. CASE Erase
    BY <1>4 DEF Erase, EraseDone, EraseFails
  <1>5. CASE Program
    <2>1. cfg \in Config
      BY <1>5 DEF Program, ProgramDone, ProgramFails
    <2> QED
      BY <1>5, <2>1 DEF Program, ProgramDone, ProgramFails, Programmed, Unmarked
  <1>6. CASE Verify
    <2>1. config_is_valid(cur) \in BOOLEAN
      BY DEF config_is_valid
    <2>2. cfg \in Config
      BY <1>6 DEF Verify, VerifyFirst, VerifyLast
    <2>3. CASE VerifyFirst
      BY <2>1, <2>3, OtherPage DEF VerifyFirst
    <2>4. CASE VerifyLast
      BY <2>1, <2>2, <2>4 DEF VerifyLast
    <2> QED
      BY <1>6, <2>3, <2>4 DEF Verify
  <1>7. CASE Down
    BY <1>7 DEF Down, Page
  <1>8. CASE UNCHANGED vars
    BY <1>8 DEF vars
  <1> QED
    BY <1>1, <1>2, <1>3, <1>4, <1>5, <1>6, <1>7, <1>8 DEF Next

\* Every variable keeps its type, in particular update_count stays below its
\* width and there is a configuration in RAM exactly while the board is up.
THEOREM TypeCorrect == Spec => []TypeOK
  <1> QED
    BY TypeInit, TypeStep, PTL DEF Spec

---------------------------------------------------------------------------
(* The inductive invariant *)

\* The page a save is about to change is not the only valid one: while it is
\* being erased or programmed, either it is invalid already or the other page
\* is valid.
Redundant ==
  pc \in {"erase", "program"} =>
    (config_is_valid(cur) => config_is_valid(Other(cur)))

\* A save that stops at the first failure began with a valid page and keeps
\* the other one valid; a save that does not found no valid page, and has not
\* made the second one valid before it comes to it.
PlanKept ==
  /\ pc \in Saving /\ strict => config_is_valid(Other(cur))
  /\ pc \in Saving /\ ~strict /\ cur = first => ~config_is_valid(Other(cur))

\* As long as no flash operation of the save failed, each page is where the
\* operations done so far put it.
ProgressKept ==
  pc \in Saving /\ ~faulted =>
    /\ success
    /\ pc = "program" => flash[cur] = Blank
    /\ pc = "verify" => flash[cur] = cfg
    /\ cur # first => flash[Other(cur)] = cfg

\* What a save is about to store is a candidate.
SavedIsCandidate == pc \in Saving => cfg \in candidates

IInv ==
  /\ TypeOK
  /\ OnlyCandidatesStored
  /\ ErasedMarkSound
  /\ Redundant
  /\ PlanKept
  /\ ProgressKept
  /\ SavedIsCandidate

LEMMA IInvInit == Init => IInv
  <1> SUFFICES ASSUME Init PROVE IInv
    OBVIOUS
  <1>1. TypeOK
    BY TypeInit
  <1>2. \A p \in Page : ~config_is_valid(p)
    BY ConstantsAssumption DEF Init, config_is_valid
  <1> QED
    BY <1>1, <1>2 DEF Init, IInv, OnlyCandidatesStored, ErasedMarkSound,
       Redundant, PlanKept, ProgressKept, SavedIsCandidate, Saving

\* Which page comes first, and what is known of the other one then.
LEMMA FirstPageRedundant ==
  /\ FirstPage \in Page
  /\ SomePageValid => config_is_valid(Other(FirstPage))
  /\ ~SomePageValid => \A p \in Page : ~config_is_valid(p)
  BY DEF FirstPage, SomePageValid, Page, Other

LEMMA IInvStep == IInv /\ [Next]_vars => IInv'
  <1> SUFFICES ASSUME IInv, [Next]_vars PROVE IInv'
    OBVIOUS
  <1>t. TypeOK /\ TypeOK'
    BY TypeStep DEF IInv
  <1>a. Blank # Corrupt /\ Blank \notin Config /\ Corrupt \notin Config
    BY ConstantsAssumption
  <1> USE DEF Saving, config_is_valid
  <1>1. CASE Boot
    BY <1>1, <1>t DEF Boot, IInv, OnlyCandidatesStored, ErasedMarkSound,
       Redundant, PlanKept, ProgressKept, SavedIsCandidate
  <1>2. CASE ConfigUpdate
    BY <1>2, <1>t DEF ConfigUpdate, IInv, OnlyCandidatesStored, ErasedMarkSound,
       Redundant, PlanKept, ProgressKept, SavedIsCandidate
  <1>3. CASE SaveBegin
    <2>1. /\ UNCHANGED <<flash, erased>>
          /\ cur' = FirstPage /\ first' = FirstPage
          /\ strict' = SomePageValid /\ success' = TRUE
          /\ pc' = "erase"
          /\ candidates' = candidates \cup {cfg'}
      BY <1>3 DEF SaveBegin
    <2>2. OnlyCandidatesStored' /\ ErasedMarkSound' /\ SavedIsCandidate'
      BY <2>1 DEF IInv, OnlyCandidatesStored, ErasedMarkSound, SavedIsCandidate
    <2>3. Redundant' /\ PlanKept'
      BY <2>1, FirstPageRedundant, OtherPage DEF Redundant, PlanKept
    <2>4. ProgressKept'
      BY <2>1 DEF ProgressKept
    <2> QED
      BY <1>t, <2>2, <2>3, <2>4 DEF IInv
  <1>4. CASE Erase
    <2>1. /\ pc = "erase" /\ pc' = "program" /\ cur \in Page
          /\ UNCHANGED <<cfg, cur, first, strict, success, candidates>>
          /\ \A p \in Page \ {cur} : flash'[p] = flash[p] /\ erased'[p] = erased[p]
          /\ flash'[cur] \in {flash[cur], Blank, Corrupt}
          /\ erased'[cur] => flash'[cur] = Blank
          /\ ~faulted' => ~faulted /\ flash'[cur] = Blank
      BY <1>4, <1>t DEF Erase, EraseDone, EraseFails, TypeOK, IInv, ErasedMarkSound
    <2>2. OnlyCandidatesStored'
      BY <1>a, <2>1 DEF IInv, OnlyCandidatesStored
    <2>3. ErasedMarkSound' /\ SavedIsCandidate'
      BY <2>1 DEF IInv, ErasedMarkSound, SavedIsCandidate
    <2>4. Redundant' /\ PlanKept'
      BY <1>a, <2>1, OtherPage DEF IInv, Redundant, PlanKept
    <2>5. ProgressKept'
      BY <2>1, OtherPage DEF IInv, ProgressKept
    <2> QED
      BY <1>t, <2>2, <2>3, <2>4, <2>5 DEF IInv
  <1>5. CASE Program
    <2>1. /\ pc = "program" /\ pc' = "verify" /\ cur \in Page
          /\ UNCHANGED <<cfg, cur, first, strict, success, candidates>>
          /\ \A p \in Page \ {cur} : flash'[p] = flash[p] /\ erased'[p] = erased[p]
          /\ flash'[cur] \in {flash[cur], cfg, Corrupt}
          /\ ~erased'[cur]
          /\ ~faulted' => ~faulted /\ flash'[cur] = cfg
      BY <1>5, <1>t DEF Program, ProgramDone, ProgramFails, Programmed, Unmarked,
         TypeOK, IInv, ProgressKept
    <2>2. OnlyCandidatesStored'
      BY <1>a, <2>1 DEF IInv, OnlyCandidatesStored, SavedIsCandidate
    <2>3. ErasedMarkSound' /\ SavedIsCandidate'
      BY <2>1 DEF IInv, ErasedMarkSound, SavedIsCandidate
    <2>4. Redundant' /\ PlanKept'
      BY <1>a, <2>1, OtherPage DEF IInv, Redundant, PlanKept
    <2>5. ProgressKept'
      BY <2>1, OtherPage DEF IInv, ProgressKept
    <2> QED
      BY <1>t, <2>2, <2>3, <2>4, <2>5 DEF IInv
  <1>6. CASE VerifyFirst
    <2>1. /\ pc = "verify" /\ pc' = "erase" /\ cur = first /\ cur \in Page
          /\ config_is_valid(cur) \/ ~strict
          /\ success' = config_is_valid(cur)
          /\ cur' = Other(cur)
          /\ UNCHANGED <<flash, erased, cfg, first, strict, candidates, faulted>>
      BY <1>6, <1>t DEF VerifyFirst, TypeOK
    <2>2. OnlyCandidatesStored' /\ ErasedMarkSound' /\ SavedIsCandidate'
      BY <2>1 DEF IInv, OnlyCandidatesStored, ErasedMarkSound, SavedIsCandidate
    <2>3. Redundant' /\ PlanKept'
      BY <2>1, OtherPage DEF IInv, Redundant, PlanKept
    <2>4. ProgressKept'
      BY <1>t, <2>1, OtherPage DEF IInv, ProgressKept, TypeOK
    <2> QED
      BY <1>t, <2>2, <2>3, <2>4 DEF IInv
  <1>7. CASE VerifyLast
    <2>1. /\ pc = "verify" /\ pc' = "idle" /\ cur \in Page
          /\ LastVerify
          /\ success' = (success /\ config_is_valid(cur))
          /\ candidates' = IF success' /\ ~faulted THEN {cfg} ELSE candidates
          /\ UNCHANGED <<flash, erased, cfg, cur, first, strict, faulted>>
      BY <1>7, <1>t DEF VerifyLast, TypeOK
    <2>2. ~faulted => cur # first
      BY <1>t, <2>1 DEF LastVerify, IInv, ProgressKept, SavedIsCandidate, TypeOK
    <2>3. ~faulted => \A p \in Page : flash[p] = cfg
      BY <2>1, <2>2, OtherPage DEF IInv, ProgressKept
    <2>4. OnlyCandidatesStored'
      BY <2>1, <2>3 DEF IInv, OnlyCandidatesStored
    <2>5. ErasedMarkSound' /\ SavedIsCandidate' /\ Redundant' /\ PlanKept' /\ ProgressKept'
      BY <2>1 DEF IInv, ErasedMarkSound, SavedIsCandidate, Redundant, PlanKept,
         ProgressKept
    <2> QED
      BY <1>t, <2>4, <2>5 DEF IInv
  <1>8. CASE Down
    <2>1. /\ pc' = "off" /\ UNCHANGED candidates
          /\ erased' = [p \in Page |-> FALSE]
          /\ \A p \in Page : flash'[p] \in {flash[p], Corrupt}
      BY <1>8, <1>t DEF Down, TypeOK
    <2> QED
      BY <1>t, <1>a, <2>1 DEF IInv, OnlyCandidatesStored, ErasedMarkSound,
         SavedIsCandidate, Redundant, PlanKept, ProgressKept
  <1>9. CASE UNCHANGED vars
    BY <1>9, <1>t DEF vars, IInv, OnlyCandidatesStored, ErasedMarkSound,
       SavedIsCandidate, Redundant, PlanKept, ProgressKept
  <1> QED
    BY <1>1, <1>2, <1>3, <1>4, <1>5, <1>6, <1>7, <1>8, <1>9 DEF Next, Verify

THEOREM IInvCorrect == Spec => []IInv
  <1> QED
    BY IInvInit, IInvStep, PTL DEF Spec

---------------------------------------------------------------------------
(* The properties *)

\* However saves fail or are interrupted, a valid page holds the last committed
\* configuration or one that a later save tried to store.
THEOREM StoredAreCandidates == Spec => []OnlyCandidatesStored
  <1>1. IInv => OnlyCandidatesStored
    BY DEF IInv
  <1> QED
    BY <1>1, IInvCorrect, PTL

\* The driver never takes a sector for erased that is not.
THEOREM ErasedMarksRight == Spec => []ErasedMarkSound
  <1>1. IInv => ErasedMarkSound
    BY DEF IInv
  <1> QED
    BY <1>1, IInvCorrect, PTL

\* What a step does to the validity of the pages: nothing, except that
\* programming can turn the first page ever into a valid one.
LEMMA ValidityStep ==
  ASSUME IInv, [Next]_vars
  PROVE  /\ SomePageValid => SomePageValid'
         /\ ~Program /\ ~SomePageValid => ~SomePageValid'
  <1>t. TypeOK
    BY DEF IInv
  <1>a. Blank \notin Config /\ Corrupt \notin Config
    BY ConstantsAssumption
  <1> USE DEF SomePageValid, config_is_valid
  <1>1. CASE UNCHANGED flash
    BY <1>1
  <1>2. CASE /\ pc \in {"erase", "program"}
             /\ cur \in Page
             /\ \A p \in Page \ {cur} : flash'[p] = flash[p]
             /\ flash'[cur] \in {flash[cur], Blank, Corrupt} \/ Program
    BY <1>2, <1>a, OtherPage DEF IInv, Redundant
  <1>3. CASE Erase
    BY <1>1, <1>2, <1>3, <1>t DEF Erase, EraseDone, EraseFails, TypeOK
  <1>4. CASE Program
    BY <1>2, <1>4, <1>t DEF Program, ProgramDone, ProgramFails, TypeOK
  <1>5. CASE Down
    BY <1>1, <1>2, <1>5, <1>t DEF Down, TypeOK
  <1>6. CASE Boot \/ ConfigUpdate \/ SaveBegin \/ Verify \/ UNCHANGED vars
    BY <1>1, <1>6 DEF Boot, ConfigUpdate, SaveBegin, Verify, VerifyFirst,
       VerifyLast, vars
  <1> QED
    BY <1>3, <1>4, <1>5, <1>6 DEF Next

\* Once there is a valid page there is one at every instant.
THEOREM ValidPageKept == Spec => SomePageStaysValid
  <1>1. IInv /\ [Next]_vars => [SomePageValid => SomePageValid']_vars
    BY ValidityStep
  <1> QED
    BY <1>1, IInvCorrect, PTL DEF Spec, SomePageStaysValid

\* The reply to a save whose flash operations worked is "ok", and then both
\* pages hold the configuration in RAM.
THEOREM ReplyRight == Spec => SaveReplyRight
  <1> DEFINE A == (Verify /\ pc' = "idle" /\ ~faulted)
                    => reply' = "ok" /\ \A p \in Page : flash[p] = cfg
  <1>1. IInv /\ [Next]_vars => [A]_vars
    <2> SUFFICES ASSUME IInv, Verify, pc' = "idle", ~faulted
                 PROVE  reply' = "ok" /\ \A p \in Page : flash[p] = cfg
      OBVIOUS
    <2>1. VerifyLast /\ pc = "verify" /\ pc \in Saving
      BY DEF Verify, VerifyFirst, VerifyLast, Saving
    <2>2. success /\ flash[cur] = cfg /\ cfg \in Config /\ cur \in Page
      BY <2>1 DEF IInv, ProgressKept, TypeOK
    <2>3. cur # first
      BY <2>1, <2>2 DEF VerifyLast, LastVerify, config_is_valid
    <2>4. \A p \in Page : flash[p] = cfg
      BY <2>1, <2>2, <2>3, OtherPage DEF IInv, ProgressKept
    <2> QED
      BY <2>1, <2>2, <2>4 DEF VerifyLast, config_is_valid
  <1> QED
    BY <1>1, IInvCorrect, PTL DEF Spec, SaveReplyRight

\* The two pages implement one durable configuration: every step of ConfigStore
\* is a step of DurableConfig or leaves its variables alone.
THEOREM Refinement == Spec => ImplementsDurable
  <1>1. Init => D!AInit
    BY ConstantsAssumption DEF Init, D!AInit, SomePageValid, config_is_valid
  <1>2. IInv /\ [Next]_vars => [D!ANext]_(D!avars)
    <2> SUFFICES ASSUME IInv, [Next]_vars PROVE [D!ANext]_(D!avars)
      OBVIOUS
    <2>t. TypeOK
      BY DEF IInv
    <2>a. None \notin Config
      BY ConstantsAssumption
    <2>v. SomePageValid \in BOOLEAN /\ SomePageValid' \in BOOLEAN
      BY DEF SomePageValid
    <2>1. CASE Boot
      <3>1. CASE SomePageValid
        <4>1. BootChoice \in candidates
          BY <3>1 DEF SomePageValid, BootChoice, Page, IInv, OnlyCandidatesStored
        <4> QED
          BY <2>1, <2>t, <4>1 DEF Boot, D!ANext, D!ABoot, TypeOK, SomePageValid,
             config_is_valid
      <3>2. CASE ~SomePageValid
        <4>1. BootChoice = Default
          BY <3>2 DEF SomePageValid, BootChoice, Page
        <4> QED
          BY <2>1, <2>t, <3>2, <4>1 DEF Boot, D!ANext, D!ABoot, TypeOK,
             SomePageValid, config_is_valid
      <3> QED
        BY <3>1, <3>2
    <2>2. CASE ConfigUpdate
      <3>1. cfg \in Config
        BY <2>2, <2>t DEF ConfigUpdate, TypeOK, Saving
      <3>2. cfg' \in Config
        BY <2>2, <3>1, MergedType DEF ConfigUpdate
      <3> QED
        BY <2>2, <2>a, <3>1, <3>2 DEF ConfigUpdate, D!ANext, D!AUpdate,
           SomePageValid, config_is_valid
    <2>3. CASE SaveBegin
      BY <2>3, <2>t DEF SaveBegin, D!ANext, D!AAttempt, SomePageValid,
         config_is_valid, TypeOK
    <2>4. CASE Erase
      <3>1. ~Program
        BY <2>4 DEF Erase, EraseDone, EraseFails, Program, ProgramDone, ProgramFails
      <3>2. SomePageValid' = SomePageValid
        BY <2>v, <3>1, ValidityStep
      <3> QED
        BY <2>4, <3>2 DEF Erase, EraseDone, EraseFails, D!avars
    <2>5. CASE Program
      <3>1. UNCHANGED <<cfg, candidates>> /\ candidates # {}
        BY <2>5 DEF Program, ProgramDone, ProgramFails, IInv, SavedIsCandidate,
           Saving
      <3>2. CASE SomePageValid'
        BY <3>1, <3>2, <2>v DEF D!ANext, D!ALand
      <3>3. CASE ~SomePageValid'
        BY <3>1, <3>3, <2>v, ValidityStep DEF D!avars
      <3> QED
        BY <3>2, <3>3
    <2>6. CASE VerifyFirst
      BY <2>6 DEF VerifyFirst, D!avars, SomePageValid, config_is_valid
    <2>7. CASE VerifyLast
      <3>1. UNCHANGED <<cfg, flash>> /\ cfg \in candidates /\ cur \in Page
        BY <2>7, <2>t DEF VerifyLast, IInv, SavedIsCandidate, Saving, TypeOK
      <3>2. SomePageValid' = SomePageValid
        BY <3>1 DEF SomePageValid, config_is_valid
      <3>3. CASE success' /\ ~faulted
        <4>1. SomePageValid
          BY <2>7, <3>1, <3>3 DEF VerifyLast, SomePageValid
        <4> QED
          BY <2>7, <3>1, <3>2, <3>3, <4>1 DEF VerifyLast, D!ANext, D!ACommit
      <3>4. CASE ~(success' /\ ~faulted)
        BY <2>7, <3>1, <3>2, <3>4 DEF VerifyLast, D!avars
      <3> QED
        BY <3>3, <3>4
    <2>8. CASE Down
      <3>1. ~Program
        BY <2>8 DEF Down, Program, ProgramDone, ProgramFails
      <3>2. SomePageValid' = SomePageValid
        BY <2>v, <3>1, ValidityStep
      <3> QED
        BY <2>8, <3>2 DEF Down, D!ANext, D!ADown
    <2>9. CASE UNCHANGED vars
      BY <2>9 DEF vars, D!avars, SomePageValid, config_is_valid
    <2> QED
      BY <2>1, <2>2, <2>3, <2>4, <2>5, <2>6, <2>7, <2>8, <2>9 DEF Next, Verify
  <1> QED
    BY <1>1, <1>2, IInvCorrect, PTL DEF Spec, ImplementsDurable, D!ASpec
=============================================================================
