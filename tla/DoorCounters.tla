----------------------------- MODULE DoorCounters -----------------------------
(***************************************************************************)
(* Lifetime door-opening counts of a 1k lift.  The lift's own counters     *)
(* start at zero whenever it restarts; the gateway adds up the sessions    *)
(* (ThousandLib.door_open_count_recalculate) and keeps the sums in two     *)
(* files, total and previous (Rs232Handler.get_door_open_count and         *)
(* get_updated_open_door_counter_parameters), so that they survive its own *)
(* restarts.                                                               *)
(*                                                                         *)
(* The steps of one poll run in one worker thread, but the process may     *)
(* end between any two of them, and the lift may restart at any time.      *)
(***************************************************************************)
EXTENDS Integers

CONSTANTS
    Doors,
    MaxOpenings,  \* bound on the openings of a door
    MaxLosses     \* bound on saves that fail or are interrupted

ASSUME MaxOpeningsAssumption == MaxOpenings \in Nat
ASSUME MaxLossesAssumption == MaxLosses \in Nat

NotPolled == -1   \* the "" of a parameter that was never polled

VARIABLES
    count,      \* the lift's counters
    actual,     \* openings that really happened
    total,      \* ThousandLib.total_open_door_counters
    prev,       \* ThousandLib.previous_open_door_counters
    reset,      \* ThousandLib.reset_saved_open_door_counter
    db,         \* ThousandLib.database[DOOR_x_OPEN_COUNT]
    totalFile, prevFile,  \* contents of the two files
    pc,         \* where in the poll the worker thread is
    shown,      \* the counts telemetry has carried last
    kept,       \* history: are all calculated totals in the file ("all"), or
                \* not yet ("ahead"), or were some given up before ("shed")
    losses      \* saves lost so far

liftVars == <<count, actual>>
memVars  == <<total, prev, reset, db>>
vars == <<liftVars, memVars, totalFile, prevFile, pc, shown, kept, losses>>

Zeros == [d \in Doors |-> 0]

(* Every counter is a natural number; only the database knows "not polled". *)
TypeOK ==
    /\ count \in [Doors -> Nat]
    /\ actual \in [Doors -> Nat]
    /\ total \in [Doors -> Nat]
    /\ prev \in [Doors -> Nat]
    /\ reset \in BOOLEAN
    /\ db \in [Doors -> Nat \cup {NotPolled}]
    /\ totalFile \in [Doors -> Nat]
    /\ prevFile \in [Doors -> Nat]
    /\ pc \in {"idle", "asked", "saveTotal", "savePrev"}
    /\ shown \in [Doors -> Nat \cup {NotPolled}]
    /\ kept \in {"all", "ahead", "shed"}
    /\ losses \in 0..MaxLosses

(* The state of a new process. *)
FreshMemory ==
    /\ total = Zeros /\ prev = Zeros
    /\ reset = TRUE
    /\ db = [d \in Doors |-> NotPolled]

(* A new gateway on a new lift: no files, which read as zeros. *)
Init ==
    /\ count = Zeros /\ actual = Zeros
    /\ FreshMemory
    /\ totalFile = Zeros /\ prevFile = Zeros
    /\ pc = "idle"
    /\ shown = [d \in Doors |-> NotPolled]
    /\ kept = "all"
    /\ losses = 0

-----------------------------------------------------------------------------
(* Environment: a door opens; the lift restarts. *)
DoorOpens(d) ==
    /\ actual[d] < MaxOpenings
    /\ count' = [count EXCEPT ![d] = @ + 1]
    /\ actual' = [actual EXCEPT ![d] = @ + 1]
    /\ UNCHANGED <<memVars, totalFile, prevFile, pc, shown, kept, losses>>

LiftRestarts ==
    /\ count # Zeros
    /\ count' = Zeros
    /\ UNCHANGED <<actual, memVars, totalFile, prevFile, pc, shown, kept, losses>>

-----------------------------------------------------------------------------
(* History only: memory gets ahead of the total file, catches up with it,  *)
(* or is given up for what the files have.                                 *)
GetAhead == kept' = IF kept = "shed" THEN kept ELSE "ahead"
CatchUp  == kept' = IF kept = "ahead" THEN "all" ELSE kept
GiveUp   == kept' = IF kept = "ahead" THEN "shed" ELSE kept

-----------------------------------------------------------------------------
(* get_door_open_count(): both lists come from the files if the reset flag *)
(* is set, which is then cleared; the lift is asked.                       *)
AskLift ==
    /\ pc = "idle"
    /\ IF reset THEN GiveUp ELSE UNCHANGED kept
    /\ total' = IF reset THEN totalFile ELSE total
    /\ prev' = IF reset THEN prevFile ELSE prev
    /\ reset' = FALSE
    /\ pc' = "asked"
    /\ UNCHANGED <<liftVars, db, totalFile, prevFile, shown, losses>>

(* The question cannot be written or its answer does not come. *)
NoAnswer ==
    /\ pc = "asked"
    /\ pc' = "idle"
    /\ UNCHANGED <<liftVars, memVars, totalFile, prevFile, shown, kept, losses>>

(* The lift's counter has fallen behind what it had shown before. *)
Restarted(d) == count[d] + prev[d] < total[d]

(* The loop of door_open_count_recalculate() over the doors ds. *)
Accumulate(ds) ==
    /\ prev' = [d \in Doors |->
                   IF d \in ds /\ Restarted(d) THEN total[d] ELSE prev[d]]
    /\ total' = [d \in Doors |->
                   IF d \in ds THEN count[d] + prev'[d] ELSE total[d]]
    /\ db' = [d \in Doors |-> IF d \in ds THEN total'[d] ELSE db[d]]
    /\ reset' = (reset \/ \E d \in ds : Restarted(d))
    /\ GetAhead

(* Mutant: a reading that has not moved is taken for a restart. *)
RecalculateTooEager ==
    /\ pc = "asked"
    /\ prev' = [d \in Doors |->
                   IF count[d] + prev[d] <= total[d] THEN total[d] ELSE prev[d]]
    /\ total' = [d \in Doors |-> count[d] + prev'[d]]
    /\ db' = total'
    /\ reset' = (reset \/ \E d \in Doors : count[d] + prev[d] <= total[d])
    /\ GetAhead
    /\ pc' = "saveTotal"
    /\ UNCHANGED <<liftVars, totalFile, prevFile, shown, losses>>

Recalculate ==
    /\ pc = "asked"
    /\ Accumulate(Doors)
    /\ pc' = "saveTotal"
    /\ UNCHANGED <<liftVars, totalFile, prevFile, shown, losses>>

(* Unpacking fails at some door: the doors before it have been             *)
(* recalculated, and nothing is saved.  The error that                     *)
(* get_updated_open_door_counter_parameters() returns is discarded by      *)
(* poll_lift(), which goes on.                                             *)
UnpackFails(ds) ==
    /\ pc = "asked"
    /\ ds # Doors
    /\ Accumulate(ds)
    /\ pc' = "idle"
    /\ UNCHANGED <<liftVars, totalFile, prevFile, shown, losses>>

-----------------------------------------------------------------------------
(* The total file is written; the poll goes on to the previous file if the *)
(* flag is set, and otherwise to the next package.                         *)
AfterTotal ==
    /\ pc' = IF reset THEN "savePrev" ELSE "idle"
    /\ CatchUp

(* Mutant: totals are only written when a restart was seen. *)
SaveTotalOnReset ==
    /\ pc = "saveTotal"
    /\ totalFile' = IF reset THEN db ELSE totalFile
    /\ AfterTotal
    /\ UNCHANGED <<liftVars, memVars, prevFile, shown, losses>>

SaveTotal ==
    /\ pc = "saveTotal"
    /\ totalFile' = db
    /\ AfterTotal
    /\ UNCHANGED <<liftVars, memVars, prevFile, shown, losses>>

SavePrev ==
    /\ pc = "savePrev"
    /\ prevFile' = prev
    /\ pc' = "idle"
    /\ UNCHANGED <<liftVars, memVars, totalFile, shown, kept, losses>>

Lose ==
    /\ losses < MaxLosses
    /\ losses' = losses + 1

(* open(..., "w") empties the file before it is written; an empty file     *)
(* reads as zeros.                                                         *)
Spoiled(file) == {file, Zeros}

(* An I/O error is logged and the poll goes on. *)
SaveTotalFails ==
    /\ pc = "saveTotal"
    /\ Lose
    /\ totalFile' \in Spoiled(totalFile)
    /\ AfterTotal
    /\ UNCHANGED <<liftVars, memVars, prevFile, shown>>

SavePrevFails ==
    /\ pc = "savePrev"
    /\ Lose
    /\ prevFile' \in Spoiled(prevFile)
    /\ pc' = "idle"
    /\ UNCHANGED <<liftVars, memVars, totalFile, shown, kept>>

-----------------------------------------------------------------------------
(* _send_params(): telemetry carries what the database has at that moment, *)
(* whatever the poll in the worker thread has done of its work and whether *)
(* it succeeded; ds are the doors of the daily list, or of the changes.    *)
(* Parameters that were never polled are left out.                         *)
SendParams(ds) ==
    /\ ds # {}
    /\ \A d \in ds : db[d] # NotPolled
    /\ shown' = [d \in Doors |-> IF d \in ds THEN db[d] ELSE shown[d]]
    /\ UNCHANGED <<liftVars, memVars, totalFile, prevFile, pc, kept, losses>>

-----------------------------------------------------------------------------
(* The gateway process ends and starts again. *)
NewProcess ==
    /\ total' = Zeros /\ prev' = Zeros
    /\ reset' = TRUE
    /\ db' = [d \in Doors |-> NotPolled]
    /\ pc' = "idle"
    /\ GiveUp
    /\ UNCHANGED <<liftVars, shown>>

(* ... before the first of the two files of this poll was touched. *)
Crash ==
    /\ pc # "savePrev"
    /\ NewProcess
    /\ UNCHANGED <<totalFile, prevFile, losses>>

(* ... while a file was being written, or between the two files. *)
CrashInSave ==
    /\ \/ /\ pc = "saveTotal"
          /\ totalFile' \in Spoiled(totalFile)
          /\ UNCHANGED prevFile
       \/ /\ pc = "savePrev"
          /\ prevFile' \in Spoiled(prevFile)
          /\ UNCHANGED totalFile
    /\ Lose
    /\ NewProcess

Next ==
    \/ \E d \in Doors : DoorOpens(d)
    \/ LiftRestarts
    \/ AskLift
    \/ NoAnswer
    \/ Recalculate
    \/ \E ds \in SUBSET Doors : UnpackFails(ds)
    \/ SaveTotal
    \/ SavePrev
    \/ SaveTotalFails
    \/ SavePrevFails
    \/ \E ds \in SUBSET Doors : SendParams(ds)
    \/ Crash
    \/ CrashInSave

Spec == Init /\ [][Next]_vars

-----------------------------------------------------------------------------
(* As long as every save has been completed, the gateway never counts an   *)
(* opening twice, across restarts of the lift and of the gateway in any    *)
(* order.  It may miss openings: a restarted lift that has caught up with  *)
(* its old counter before the next poll is not noticed.  One lost save of  *)
(* the previous counters after a saved total is enough to break it.        *)
NeverOvercounts == losses = 0 => \A d \in Doors : db[d] <= actual[d]

(* The lifetime count telemetry shows never falls, over restarts of lift   *)
(* and gateway, as long as every save has been completed and no total that *)
(* was calculated has been given up before it was saved.  The excepted     *)
(* case is real: the database is sent whatever the poll did, so a count    *)
(* may be shown that is not in the file yet, or never will be because      *)
(* unpacking failed after it; if the process then ends, or a restart of    *)
(* the lift makes the next poll reload the files, and the lift restarts,   *)
(* telemetry goes on with a smaller count although no save was lost.       *)
NeverFalls ==
    [][losses' = 0 /\ kept' # "shed" =>
          \A d \in Doors : shown'[d] >= shown[d]]_vars

-----------------------------------------------------------------------------
(* A pair of lists that can be continued: no opening is counted twice now, *)
(* nor after the restart that the pair will make the gateway believe in.   *)
Sound(t, p) ==
    \A d \in Doors :
        /\ t[d] <= actual[d]
        /\ p[d] + count[d] <= actual[d]
        /\ count[d] + p[d] < t[d] => t[d] + count[d] <= actual[d]

(* What is being saved is what was just calculated. *)
SavingInv == pc \in {"saveTotal", "savePrev"} => db = total

(* Memory and files are both sound; between the two saves the files are    *)
(* not, but their total is the one in memory.                              *)
SoundInv ==
    losses = 0 =>
        /\ Sound(total, prev)
        /\ pc # "savePrev" => Sound(totalFile, prevFile)
        /\ pc = "savePrev" => totalFile = total
        /\ ~reset => prev = prevFile

(* Nothing shown is ahead of the database, nor of the file before the      *)
(* first poll, and nothing shown or in the database is ahead of memory     *)
(* unless memory is about to be replaced.                                  *)
ShownInv ==
    losses = 0 /\ kept # "shed" =>
        \A d \in Doors :
            /\ shown[d] <= (IF db[d] = NotPolled THEN totalFile ELSE db)[d]
            /\ kept = "all" => db[d] <= totalFile[d]
            /\ \/ pc = "idle" /\ reset
               \/ shown[d] <= total[d] /\ db[d] <= total[d]
=============================================================================
