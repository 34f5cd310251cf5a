------------------------------ MODULE AhlPolling ------------------------------
(***************************************************************************)
(* How the AHL parameter cache (AhlLib.database) follows the lift's        *)
(* controller, the LCM: change flags per parameter group, the forced read  *)
(* of everything after a bind, the normal flag-driven poll, and cloud      *)
(* writes that are mirrored or read back; and what telemetry tells the     *)
(* cloud of it.                                                            *)
(*                                                                         *)
(* Polling and writing exclude each other through _handler_lock, held for  *)
(* a whole transaction (LiftProxy, BusExclusive); so one variable, step,   *)
(* says which transaction is under way.  The LCM changes at any moment.    *)
(* The lift is bound, and no AHL lib call raises: read_parameter() turns   *)
(* every communication exception into an error code.                       *)
(***************************************************************************)
EXTENDS Integers

CONSTANTS
    Params,     \* parameters of the polling table that the LCM can read
    Groups,     \* bits of PARAM_POLLING
    GroupOf,    \* the polling table: the bit each parameter is listed under
    Values,     \* parameter values
    NotSet,     \* the None of a parameter never read
    OnChange,   \* paramPush.onChange
    Daily,      \* paramPush.daily
    Faults,     \* what may fail on the bus
    MaxChanges  \* bound on value changes in the LCM, writes included

FaultKinds == {"flagRead",        \* PARAM_POLLING not read, flags kept
               "flagAnswerLost",  \* PARAM_POLLING read, its answer lost
               "paramRead",       \* a parameter of a sweep not read
               "readBack",        \* a written parameter not read back
               "writeUnacked"}    \* a write stored, its answer lost

ASSUME TableAssumption == GroupOf \in [Params -> Groups]
ASSUME NotSetAssumption == NotSet \notin Values
ASSUME PushListAssumption == OnChange \subseteq Params /\ Daily \subseteq Params
ASSUME FaultsAssumption == Faults \subseteq FaultKinds
ASSUME MaxChangesAssumption == MaxChanges \in Nat

VARIABLES
    lcm,        \* value of each parameter in the LCM
    flags,      \* groups flagged in PARAM_POLLING
    cache,      \* AhlLib.database
    force,      \* LiftProxy._force_read_all
    step,       \* the transaction that holds _handler_lock
    todo,       \* candidate_params still to be read in this sweep
    changed,    \* parameters whose cached value this sweep has changed
    target,     \* the parameter being read back
    announced,  \* value of each parameter in the last telemetry about it
    changes,    \* changes made so far
    missed      \* parameters whose reading a fault has silently skipped

lcmVars  == <<lcm, flags, changes>>
pollVars == <<force, todo, changed>>
vars == <<lcmVars, pollVars, cache, step, target, announced, missed>>

(* Every variable has its kind; the cache and telemetry hold parameter     *)
(* values or nothing, never an error code.                                 *)
TypeOK ==
    /\ lcm \in [Params -> Values]
    /\ flags \in SUBSET Groups
    /\ cache \in [Params -> Values \cup {NotSet}]
    /\ force \in BOOLEAN
    /\ step \in {"idle", "sweep", "readBack"}
    /\ todo \in SUBSET Params
    /\ changed \in SUBSET Params
    /\ target \in Params \cup {NotSet}
    /\ announced \in [Params -> Values \cup {NotSet}]
    /\ changes \in 0..MaxChanges
    /\ missed \in SUBSET Params

(* The gateway starts at any moment of the LCM's life. *)
Init ==
    /\ lcm \in [Params -> Values]
    /\ flags \in SUBSET Groups
    /\ cache = [p \in Params |-> NotSet]
    /\ force = TRUE
    /\ step = "idle"
    /\ todo = {} /\ changed = {} /\ target = NotSet
    /\ announced = [p \in Params |-> NotSet]
    /\ changes = 0
    /\ missed = {}

-----------------------------------------------------------------------------
(* The LCM. *)

(* Parameter p takes value v, whoever asked for it, and its group's flag   *)
(* is set.                                                                 *)
Store(p, v) ==
    /\ changes < MaxChanges
    /\ changes' = changes + 1
    /\ lcm' = [lcm EXCEPT ![p] = v]
    /\ flags' = flags \cup {GroupOf[p]}

LcmChange(p, v) ==
    /\ v # lcm[p]
    /\ Store(p, v)
    /\ UNCHANGED <<pollVars, cache, step, target, announced, missed>>

(* A restarted LCM flags every group ("power-on change flags"). *)
LcmRestart ==
    /\ changes < MaxChanges
    /\ changes' = changes + 1
    /\ flags' = Groups
    /\ UNCHANGED <<lcm, pollVars, cache, step, target, announced, missed>>

-----------------------------------------------------------------------------
(* The poll: LiftProxy.poll_params() -> AhlLib.poll_params(). *)

DecodeChangeFlags(mask) == {p \in Params : GroupOf[p] \in mask}

(* Mutant: the pending flag is given up before the sweep it asks for. *)
ForcedPollClearsFirst(ackRead) ==
    /\ step = "idle" /\ force
    /\ ackRead \/ "flagRead" \in Faults
    /\ flags' = IF ackRead THEN {} ELSE flags
    /\ todo' = DecodeChangeFlags(Groups)
    /\ force' = FALSE
    /\ step' = "sweep"
    /\ UNCHANGED <<lcm, changes, changed, cache, target, announced, missed>>

(* Cold start: PARAM_POLLING is read only to clear it, a failure of that   *)
(* read is only logged, and every parameter is read.                       *)
ForcedPoll(ackRead) ==
    /\ step = "idle" /\ force
    /\ ackRead \/ "flagRead" \in Faults
    /\ flags' = IF ackRead THEN {} ELSE flags
    /\ todo' = DecodeChangeFlags(Groups)
    /\ step' = "sweep"
    /\ UNCHANGED <<lcm, changes, force, changed, cache, target, announced, missed>>

(* The flags are read, which clears them, and their groups are swept.  A   *)
(* failed read, or a mask of 0, ends the poll with nothing changed.        *)
NormalPoll ==
    /\ step = "idle" /\ ~force
    /\ flags # {}
    /\ flags' = {}
    /\ todo' = DecodeChangeFlags(flags)
    /\ step' = "sweep"
    /\ UNCHANGED <<lcm, changes, force, changed, cache, target, announced, missed>>

(* The LCM has answered and cleared its flags, but the answer is lost:     *)
(* read_parameter() asks again, is told 0, and the poll ends.              *)
FlagAnswerLost ==
    /\ "flagAnswerLost" \in Faults
    /\ step = "idle" /\ ~force
    /\ flags # {}
    /\ flags' = {}
    /\ missed' = missed \cup DecodeChangeFlags(flags)
    /\ UNCHANGED <<lcm, changes, pollVars, cache, step, target, announced>>

(* A candidate is read; set_param() notes it if its value is new.  The     *)
(* order of the sweep is left open.                                        *)
ReadParam(p) ==
    /\ step = "sweep" /\ p \in todo
    /\ todo' = todo \ {p}
    /\ cache' = [cache EXCEPT ![p] = lcm[p]]
    /\ changed' = IF cache[p] = lcm[p] THEN changed ELSE changed \cup {p}
    /\ missed' = missed \ {p}
    /\ UNCHANGED <<lcmVars, force, step, target, announced>>

(* Three tries failed: the sweep goes on with the next candidate. *)
ReadFails(p) ==
    /\ "paramRead" \in Faults
    /\ step = "sweep" /\ p \in todo
    /\ todo' = todo \ {p}
    /\ missed' = missed \cup {p}
    /\ UNCHANGED <<lcmVars, force, changed, cache, step, target, announced>>

(* Telemetry carries the cached values of ps that are set. *)
SendParams(ps) ==
    announced' = [p \in Params |-> IF p \in ps /\ cache'[p] # NotSet
                                   THEN cache'[p] ELSE announced[p]]

(* Mutant: the flags are cleared after the forced sweep, not before it. *)
AckAfterSweep ==
    /\ step = "sweep" /\ todo = {}
    /\ flags' = IF force THEN {} ELSE flags
    /\ force' = FALSE
    /\ changed' = {}
    /\ step' = "idle"
    /\ UNCHANGED cache
    /\ SendParams(changed \cap OnChange)
    /\ UNCHANGED <<lcm, changes, todo, target, missed>>

(* Mutant: what changed is kept for a later push that no poll makes. *)
PushPutOff ==
    /\ step = "sweep" /\ todo = {}
    /\ force' = FALSE
    /\ step' = "idle"
    /\ UNCHANGED <<lcmVars, todo, changed, cache, target, announced, missed>>

(* The sweep is over: the pending flag is cleared, the lock released, the  *)
(* supervisor told, and the on-change part of what changed is pushed.      *)
PollEnds ==
    /\ step = "sweep" /\ todo = {}
    /\ force' = FALSE
    /\ changed' = {}
    /\ step' = "idle"
    /\ UNCHANGED cache
    /\ SendParams(changed \cap OnChange)
    /\ UNCHANGED <<lcmVars, todo, target, missed>>

DailyPush ==
    /\ UNCHANGED cache
    /\ SendParams(Daily)
    /\ UNCHANGED <<lcmVars, pollVars, step, target, missed>>

-----------------------------------------------------------------------------
(* Cloud writes.  The LCM may clamp or transform what it is asked to store. *)

(* Mutant: a write is mirrored but no event is pushed for it. *)
WriteNotPushed(p, v, stored) ==
    /\ step = "idle"
    /\ Store(p, stored)
    /\ cache' = [cache EXCEPT ![p] = v]
    /\ UNCHANGED <<pollVars, step, target, announced, missed>>

(* write_param() and push_param_event(): the value asked for is mirrored   *)
(* into the cache and pushed.                                              *)
WriteParam(p, v, stored) ==
    /\ step = "idle"
    /\ Store(p, stored)
    /\ cache' = [cache EXCEPT ![p] = v]
    /\ SendParams({p})
    /\ UNCHANGED <<pollVars, step, target, missed>>

(* Either kind of write whose answer is lost on all three tries reports an *)
(* error and leaves the cache alone.                                       *)
WriteUnacked(p, stored) ==
    /\ "writeUnacked" \in Faults
    /\ step = "idle"
    /\ Store(p, stored)
    /\ UNCHANGED <<pollVars, cache, step, target, announced, missed>>

(* write_read_param(): the write, then the read-back under the same lock. *)
WriteReadParam(p, stored) ==
    /\ step = "idle"
    /\ Store(p, stored)
    /\ step' = "readBack"
    /\ target' = p
    /\ UNCHANGED <<pollVars, cache, announced, missed>>

ReadBack ==
    /\ step = "readBack"
    /\ cache' = [cache EXCEPT ![target] = lcm[target]]
    /\ SendParams({target})
    /\ step' = "idle"
    /\ target' = NotSet
    /\ missed' = missed \ {target}
    /\ UNCHANGED <<lcmVars, pollVars>>

(* "on failure the cache is left for the next poll cycle to correct" *)
ReadBackFails ==
    /\ "readBack" \in Faults
    /\ step = "readBack"
    /\ step' = "idle"
    /\ target' = NotSet
    /\ UNCHANGED <<lcmVars, pollVars, cache, announced, missed>>

-----------------------------------------------------------------------------
LcmStep ==
    \/ \E p \in Params, v \in Values : LcmChange(p, v)
    \/ LcmRestart

PollStep ==
    \/ \E ackRead \in BOOLEAN : ForcedPoll(ackRead)
    \/ NormalPoll
    \/ \E p \in Params : ReadParam(p)
    \/ PollEnds

WriteStep ==
    \/ \E p \in Params, v, stored \in Values : WriteParam(p, v, stored)
    \/ \E p \in Params, stored \in Values : WriteUnacked(p, stored)
    \/ \E p \in Params, stored \in Values : WriteReadParam(p, stored)
    \/ ReadBack
    \/ ReadBackFails

Next ==
    \/ LcmStep
    \/ PollStep
    \/ FlagAnswerLost
    \/ \E p \in Params : ReadFails(p)
    \/ DailyPush
    \/ WriteStep

Spec == Init /\ [][Next]_vars

(* The polling loop runs for ever and a transaction always ends; a flag    *)
(* read that fails is repeated by the next cycle.                          *)
Fairness == WF_vars(PollStep) /\ WF_vars(ReadBack \/ ReadBackFails)

FairSpec == Spec /\ Fairness

-----------------------------------------------------------------------------
Stale(p) == cache[p] # lcm[p]

(* p's group is flagged, p waits in the running sweep, or a full read is   *)
(* pending.                                                                *)
Pending(p) == GroupOf[p] \in flags \/ p \in todo \/ (force /\ step # "sweep")

(* A cached value that is not the LCM's will be looked at again, unless a  *)
(* lost flag answer or a failed read of a sweep has skipped this parameter *)
(* since: clamped writes, unanswered writes, failed read-backs and changes *)
(* in the middle of a sweep are all "left for the next poll cycle to       *)
(* correct".                                                               *)
StaleIsPending == \A p \in Params : Stale(p) => Pending(p) \/ p \in missed

(* What the comments on the read-back and on the retries of the Modbus     *)
(* handler promise: nothing is skipped ("app-level retry handles the rare  *)
(* miss").                                                                 *)
NothingMissed == \A p \in Params : Stale(p) => Pending(p)

(* _polling_loop(): when the pending cold-start flag has been given up,    *)
(* "the db is fully populated", but for parameters that could not be read. *)
ColdStartComplete ==
    ~force => \A p \in Params : cache[p] # NotSet \/ p \in missed

(* The cloud is never left with an old value of an on-change parameter:    *)
(* either the last telemetry about it carries the cached value, or the     *)
(* running sweep has it on its list to push.                               *)
AnnouncedCurrent ==
    \A p \in OnChange : announced[p] # cache[p] => p \in changed

(* The poller has nothing to do: no transaction, no cold start, no flag. *)
Quiet == step = "idle" /\ ~force /\ flags = {}

(* Whenever the poller has nothing to do, cache and cloud have the LCM's   *)
(* values, but for parameters a fault has skipped: there is no quiet state *)
(* that a later change would have to repair.                               *)
SettledWhenQuiet ==
    Quiet => \A p \in Params \ missed :
                 cache[p] = lcm[p] /\ (p \in OnChange => announced[p] = lcm[p])

(* What makes the three inductive: the sweep's variables are empty outside *)
(* a sweep, a parameter is noted as changed only with a value, and a       *)
(* forced sweep has read every parameter it no longer has to do.           *)
Bookkeeping ==
    /\ step # "sweep" => todo = {} /\ changed = {}
    /\ step = "readBack" => target \in Params
    /\ \A p \in changed : cache[p] # NotSet

SweepCovers ==
    force /\ step = "sweep" =>
        \A p \in Params : p \in todo \/ cache[p] # NotSet \/ p \in missed

(* When the LCM stops changing, cache and cloud settle on its values,      *)
(* whatever was clamped, unanswered or not read back before; only a        *)
(* parameter that was skipped may keep an old one.                         *)
Converges ==
    <>[](\A p \in Params \ missed :
             cache[p] = lcm[p] /\ (p \in OnChange => announced[p] = lcm[p]))
=============================================================================
