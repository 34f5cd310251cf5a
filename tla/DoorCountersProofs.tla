-------------------------- MODULE DoorCountersProofs --------------------------
(***************************************************************************)
(* Proofs about DoorCounters for any set of doors, any number of openings, *)
(* restarts of lift and gateway, and lost saves: no opening is counted     *)
(* twice, the count telemetry shows never falls while no save is lost and  *)
(* no calculated total given up, and it is exact while the lift does not   *)
(* restart.                                                                *)
(***************************************************************************)
EXTENDS DoorCounters, TLAPS

(* The type of everything but the flag, which SMT and Zenon share out. *)
DataOK ==
    /\ count \in [Doors -> Nat]
    /\ actual \in [Doors -> Nat]
    /\ total \in [Doors -> Nat]
    /\ prev \in [Doors -> Nat]
    /\ db \in [Doors -> Nat \cup {NotPolled}]
    /\ totalFile \in [Doors -> Nat]
    /\ prevFile \in [Doors -> Nat]
    /\ pc \in {"idle", "asked", "saveTotal", "savePrev"}
    /\ shown \in [Doors -> Nat \cup {NotPolled}]
    /\ kept \in {"all", "ahead", "shed"}
    /\ losses \in 0..MaxLosses

FlagOK == reset \in BOOLEAN

Counting == SoundInv /\ ShownInv /\ NeverOvercounts

IndInv == DataOK /\ SavingInv /\ Counting

-----------------------------------------------------------------------------
(* Nothing has been counted yet. *)
LEMMA InitOK == Init => IndInv
<1> SUFFICES ASSUME Init PROVE IndInv
  OBVIOUS
<1>1. DataOK /\ SavingInv
  BY MaxLossesAssumption DEF Init, FreshMemory, DataOK, SavingInv, Zeros,
     NotPolled
<1>2. Counting
  BY DEF Init, FreshMemory, Counting, SoundInv, Sound, ShownInv,
     NeverOvercounts, Zeros, NotPolled
<1> QED
  BY <1>1, <1>2 DEF IndInv

(* Recalculating some of the doors: totals never fall, a door believed to  *)
(* have restarted was allowed to by Sound, and the flag is set whenever    *)
(* the previous counters move away from their file.                        *)
LEMMA AccumulateKeeps ==
  ASSUME IndInv, NEW ds \in SUBSET Doors, pc = "asked", Accumulate(ds),
         UNCHANGED <<liftVars, totalFile, prevFile, shown, losses>>
  PROVE  /\ total' \in [Doors -> Nat] /\ prev' \in [Doors -> Nat]
         /\ db' \in [Doors -> Nat \cup {NotPolled}]
         /\ losses = 0 => /\ Sound(total, prev)'
                          /\ NeverOvercounts'
                          /\ ~reset' => prev' = prevFile'
         /\ losses = 0 /\ kept' # "shed" =>
               \A d \in Doors :
                  /\ shown[d] <= total'[d] /\ db'[d] <= total'[d]
                  /\ shown[d] <= (IF db'[d] = NotPolled THEN totalFile ELSE db')[d]
         /\ kept' \in {"ahead", "shed"}
         /\ ds = Doors => db' = total'
<1> USE DEF IndInv, DataOK, Counting, Accumulate, Restarted, liftVars
<1>1. /\ total' \in [Doors -> Nat] /\ prev' \in [Doors -> Nat]
      /\ db' \in [Doors -> Nat \cup {NotPolled}]
  OBVIOUS
<1>2. ASSUME losses = 0 PROVE Sound(total, prev)'
  BY <1>1, <1>2 DEF SoundInv, Sound
<1>3. ASSUME losses = 0 PROVE NeverOvercounts'
  BY <1>1, <1>2, <1>3 DEF NeverOvercounts, Sound
<1>4. ASSUME losses = 0, ~reset' PROVE prev' = prevFile'
  <2>1. ~reset /\ \A d \in ds : ~Restarted(d)
    BY <1>4 DEF Restarted
  <2>2. prev' = prev
    BY <2>1
  <2> QED
    BY <2>1, <2>2, <1>4 DEF SoundInv
<1>5. ASSUME losses = 0, kept' # "shed"
      PROVE  \A d \in Doors :
                /\ shown[d] <= total'[d] /\ db'[d] <= total'[d]
                /\ shown[d] <= (IF db'[d] = NotPolled THEN totalFile ELSE db')[d]
  BY <1>1, <1>5 DEF ShownInv, NotPolled, GetAhead
<1>7. kept' \in {"ahead", "shed"}
  BY DEF GetAhead
<1>6. ASSUME ds = Doors PROVE db' = total'
  BY <1>1, <1>6
<1> QED
  BY <1>1, <1>2, <1>3, <1>4, <1>5, <1>6, <1>7

(* Environment and failing questions. *)
LEMMA LiftKeeps ==
  ASSUME IndInv,
         (\E d \in Doors : DoorOpens(d)) \/ LiftRestarts \/ AskLift \/ NoAnswer
  PROVE  IndInv'
<1> USE DEF IndInv, DataOK, SavingInv, Counting, SoundInv, Sound, ShownInv,
            NeverOvercounts, liftVars, memVars, Zeros, NotPolled
<1>1. ASSUME NEW d \in Doors, DoorOpens(d) PROVE IndInv'
  BY <1>1 DEF DoorOpens
<1>2. CASE LiftRestarts
  BY <1>2 DEF LiftRestarts
<1>3. CASE AskLift
  BY <1>3 DEF AskLift, GiveUp
<1>4. CASE NoAnswer
  BY <1>4 DEF NoAnswer
<1> QED
  BY <1>1, <1>2, <1>3, <1>4

(* The two ways the answer is taken in. *)
LEMMA CalculationKeeps ==
  ASSUME IndInv, Recalculate \/ \E ds \in SUBSET Doors : UnpackFails(ds)
  PROVE  IndInv'
<1>1. CASE Recalculate
  BY <1>1, AccumulateKeeps DEF Recalculate, IndInv, DataOK, SavingInv,
     Counting, SoundInv, Sound, ShownInv, NeverOvercounts, liftVars
<1>2. ASSUME NEW ds \in SUBSET Doors, UnpackFails(ds) PROVE IndInv'
  BY <1>2, AccumulateKeeps DEF UnpackFails, IndInv, DataOK, SavingInv,
     Counting, SoundInv, Sound, ShownInv, NeverOvercounts, liftVars
<1> QED
  BY <1>1, <1>2

(* The saves: after the first the files wait for the second, after a lost  *)
(* one nothing more is claimed.                                            *)
LEMMA SavesKeep ==
  ASSUME IndInv, SaveTotal \/ SavePrev \/ SaveTotalFails \/ SavePrevFails
  PROVE  IndInv'
<1> USE MaxLossesAssumption
    DEF IndInv, DataOK, SavingInv, Counting, SoundInv, Sound, ShownInv,
        NeverOvercounts, liftVars, memVars, Zeros, NotPolled
<1>1. CASE SaveTotal
  BY <1>1 DEF SaveTotal, AfterTotal, CatchUp
<1>2. CASE SavePrev
  BY <1>2 DEF SavePrev
<1>3. CASE SaveTotalFails
  BY <1>3 DEF SaveTotalFails, AfterTotal, CatchUp, Lose, Spoiled
<1>4. CASE SavePrevFails
  BY <1>4 DEF SavePrevFails, Lose, Spoiled
<1> QED
  BY <1>1, <1>2, <1>3, <1>4

(* Telemetry takes over what the database has. *)
LEMMA SendKeeps ==
  ASSUME IndInv, NEW ds \in SUBSET Doors, SendParams(ds)
  PROVE  IndInv'
BY DEF SendParams, IndInv, DataOK, SavingInv, Counting, SoundInv, Sound,
   ShownInv, NeverOvercounts, liftVars, memVars, NotPolled

(* A new process starts from the files. *)
LEMMA CrashKeeps ==
  ASSUME IndInv, Crash \/ CrashInSave
  PROVE  IndInv'
<1> USE MaxLossesAssumption
    DEF IndInv, DataOK, SavingInv, Counting, SoundInv, Sound, ShownInv,
        NeverOvercounts, liftVars, NewProcess, GiveUp, Zeros, NotPolled
<1>1. CASE Crash
  BY <1>1 DEF Crash
<1>2. CASE CrashInSave
  BY <1>2 DEF CrashInSave, Lose, Spoiled
<1> QED
  BY <1>1, <1>2

(* Every step keeps the inductive invariant. *)
LEMMA IndStep == IndInv /\ [Next]_vars => IndInv'
<1> SUFFICES ASSUME IndInv, [Next]_vars PROVE IndInv'
  OBVIOUS
<1>1. CASE UNCHANGED vars
  BY <1>1 DEF vars, liftVars, memVars, IndInv, DataOK, SavingInv, Counting,
     SoundInv, Sound, ShownInv, NeverOvercounts
<1> QED
  BY <1>1, LiftKeeps, CalculationKeeps, SavesKeep, SendKeeps, CrashKeeps
     DEF Next

(* The inductive invariant holds throughout. *)
THEOREM Invariance == Spec => []IndInv
BY InitOK, IndStep, PTL DEF Spec

-----------------------------------------------------------------------------
(* The counters are type correct, the flag included. *)
THEOREM TypeCorrect == Spec => []TypeOK
<1>1. Init => FlagOK
  BY Zenon DEF Init, FreshMemory, FlagOK
<1>2. FlagOK /\ [Next]_vars => FlagOK'
  <2> SUFFICES ASSUME reset \in BOOLEAN, [Next]_vars PROVE reset' \in BOOLEAN
    BY Zenon DEF FlagOK
  <2>1. CASE Recalculate \/ \E ds \in SUBSET Doors : UnpackFails(ds)
    BY <2>1, Zenon DEF Recalculate, UnpackFails, Accumulate
  <2>2. reset' = reset \/ reset' = FALSE \/ reset' = TRUE \/ Recalculate
        \/ \E ds \in SUBSET Doors : UnpackFails(ds)
    BY Zenon DEF vars, memVars, Next, DoorOpens, LiftRestarts, AskLift, NoAnswer,
       SaveTotal, SavePrev, SaveTotalFails, SavePrevFails, SendParams, Crash,
       CrashInSave, NewProcess
  <2> QED
    BY <2>1, <2>2, Zenon
<1>3. IndInv /\ FlagOK => TypeOK
  BY Zenon DEF FlagOK, IndInv, DataOK, TypeOK
<1> QED
  BY <1>1, <1>2, <1>3, Invariance, PTL DEF Spec

(* No opening is ever counted twice while no save has been lost. *)
THEOREM NoDoubleCount == Spec => []NeverOvercounts
<1>1. IndInv => NeverOvercounts
  BY DEF IndInv, Counting
<1> QED
  BY <1>1, Invariance, PTL

(* The count telemetry shows never falls while no save has been lost and   *)
(* no calculated total was given up unsaved: only _send_params() changes   *)
(* it, and what the database has is then at least what was shown.          *)
THEOREM LifetimeCountGrows == Spec => NeverFalls
<1>1. IndInv /\ [Next]_vars =>
        [losses' = 0 /\ kept' # "shed" =>
            \A d \in Doors : shown'[d] >= shown[d]]_vars
  <2> SUFFICES ASSUME IndInv, Next, losses' = 0, kept' # "shed",
                      NEW d \in Doors
               PROVE  shown'[d] >= shown[d]
    BY DEF vars
  <2> USE DEF IndInv, DataOK, NotPolled
  <2>1. ASSUME NEW ds \in SUBSET Doors, SendParams(ds)
        PROVE  shown'[d] >= shown[d]
    BY <2>1 DEF SendParams, Counting, ShownInv
  <2>2. CASE shown' = shown
    BY <2>2
  <2>3. (\E ds \in SUBSET Doors : SendParams(ds)) \/ shown' = shown
    BY DEF Next, DoorOpens, LiftRestarts, AskLift, NoAnswer, Recalculate,
       UnpackFails, SaveTotal, SavePrev, SaveTotalFails, SavePrevFails, Crash,
       CrashInSave, NewProcess
  <2> QED
    BY <2>1, <2>2, <2>3
<1> QED
  BY <1>1, Invariance, PTL DEF Spec, NeverFalls

-----------------------------------------------------------------------------
(* What the counts are worth while the lift keeps running. *)

(* The lift has counted everything, no session lies behind it, and no list *)
(* or file is ahead of it.                                                 *)
Steady ==
    /\ count = actual
    /\ prev = Zeros /\ prevFile = Zeros
    /\ \A d \in Doors : total[d] <= count[d] /\ totalFile[d] <= count[d]

(* Recalculation adds no earlier session to the counter, a save writes     *)
(* what memory has, and a restart of the gateway reads it back or finds    *)
(* zeros.                                                                  *)
LEMMA SteadyStep ==
  ASSUME IndInv, Steady, [Next]_vars, ~LiftRestarts
  PROVE  Steady'
<1> USE DEF IndInv, DataOK, Steady, Zeros, liftVars, memVars
<1>1. ASSUME NEW d \in Doors, DoorOpens(d) PROVE Steady'
  BY <1>1 DEF DoorOpens
<1>2. CASE AskLift \/ NoAnswer
  BY <1>2 DEF AskLift, NoAnswer
<1>3. ASSUME NEW ds \in SUBSET Doors, Accumulate(ds),
             UNCHANGED <<liftVars, totalFile, prevFile>>
      PROVE  Steady'
  BY <1>3 DEF Accumulate, Restarted
<1>4. CASE Recalculate \/ \E ds \in SUBSET Doors : UnpackFails(ds)
  BY <1>3, <1>4 DEF Recalculate, UnpackFails
<1>5. CASE SaveTotal \/ SaveTotalFails
  BY <1>5 DEF SaveTotal, SaveTotalFails, SavingInv, Spoiled
<1>6. CASE SavePrev \/ SavePrevFails
  BY <1>6 DEF SavePrev, SavePrevFails, Spoiled
<1>7. CASE Crash \/ CrashInSave
  BY <1>7 DEF Crash, CrashInSave, NewProcess, Spoiled
<1>8. CASE UNCHANGED vars \/ \E ds \in SUBSET Doors : SendParams(ds)
  BY <1>8 DEF vars, SendParams
<1> QED
  BY <1>1, <1>2, <1>4, <1>5, <1>6, <1>7, <1>8 DEF Next

(* As long as the lift does not restart, a poll that takes in the whole    *)
(* answer has exactly the openings that happened, however often the        *)
(* gateway restarts and whichever of its saves are lost: the files only    *)
(* matter for the lift's earlier sessions.                                 *)
THEOREM SteadyLiftIsExact ==
    Spec /\ [][~LiftRestarts]_vars =>
        []Steady /\ [][Recalculate => db' = actual]_vars
<1>1. Init => Steady
  BY DEF Init, FreshMemory, Steady, Zeros
<1>2. IndInv /\ Steady /\ [Next]_vars /\ [~LiftRestarts]_vars => Steady'
  <2>1. CASE UNCHANGED vars
    BY <2>1 DEF Steady, Zeros, vars, liftVars, memVars
  <2> QED
    BY <2>1, SteadyStep
<1>3. IndInv /\ Steady => [Recalculate => db' = actual]_vars
  <2> SUFFICES ASSUME IndInv, Steady, Recalculate PROVE db' = actual
    OBVIOUS
  <2>1. \A d \in Doors : ~Restarted(d)
    <3> SUFFICES ASSUME NEW d \in Doors PROVE ~(count[d] + prev[d] < total[d])
      BY DEF Restarted
    <3>1. prev[d] = 0 /\ total[d] <= count[d]
      BY DEF Steady, Zeros
    <3>2. count[d] \in Nat /\ total[d] \in Nat
      BY DEF IndInv, DataOK
    <3> QED
      BY <3>1, <3>2
  <2>2. prev' = prev
    BY <2>1 DEF Recalculate, Accumulate, IndInv, DataOK
  <2>3. \A d \in Doors : db'[d] = count[d] + prev[d]
    BY <2>2 DEF Recalculate, Accumulate
  <2>4. \A d \in Doors : db'[d] = actual[d]
    BY <2>3 DEF IndInv, DataOK, Steady, Zeros
  <2>5. db' = [d \in Doors |-> actual[d]]
    <3>1. db' = [d \in Doors |-> IF d \in Doors THEN total'[d] ELSE db[d]]
      BY DEF Recalculate, Accumulate
    <3> QED
      BY <3>1, <2>4
  <2> QED
    BY <2>5 DEF IndInv, DataOK
<1> QED
  BY <1>1, <1>2, <1>3, Invariance, PTL DEF Spec
=============================================================================
