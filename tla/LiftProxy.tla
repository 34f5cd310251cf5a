------------------------------ MODULE LiftProxy ------------------------------
(***************************************************************************)
(* The lift proxy (src/src/liftApi/lift_proxy.py): one asyncio task that   *)
(* identifies the attached lift, first in LiftProxy.create() and then in   *)
(* the background loop, and binds a handler + lib pair, while the polling  *)
(* loop, the daily loop, the heartbeat and the cloud's direct methods use  *)
(* whatever pair is bound.                                                 *)
(*                                                                         *)
(* A step of the model is the code a task runs between two awaits.  A call *)
(* through asyncio.to_thread is two steps: the thread starts on a handler  *)
(* (bus[t] names it) and later ends.  Parameter values, payloads and       *)
(* logging are left out; AhlPolling models the values.                     *)
(***************************************************************************)
EXTENDS Naturals

CONSTANTS
    Callers,      \* direct-method calls in progress at the same time
    MaxAttempts   \* IDENTIFY_MAX_RETRIES

ASSUME CallersAssumption == {"ident", "poll", "free"} \cap Callers = {}
ASSUME MaxAttemptsAssumption == MaxAttempts \in Nat \ {0}

LiftTypes == {"unknown", "AHL", "1k"}
Families  == {"AHL", "1k"}
Handlers  == {"modbus", "rs232"}
Libs      == {"AhlOld", "AhlNew", "Thousand"}  \* AhlLib with its polling table
Ops       == {"read", "write", "writeRead"}
Tasks     == {"ident", "poll"} \cup Callers

VARIABLES
    lift,        \* the lift on the wire: family, firmware, answering or not
    stage,       \* "create", then "run", then "down" after a cancellation
    attempts,    \* identification rounds create() has used up
    pc,          \* await point of each task
    op,          \* the operation a direct method is executing
    bus,         \* handler each task's worker thread is using
    lock,        \* holder of _handler_lock
    found,       \* result of the last identify_lift()
    handler, lib, liftType,   \* _handler, _lib, _lift_type
    candidates,  \* which of _modbus_handler, _rs232_handler are not None
    thousandLib, \* whether _thousand_lib is not None
    force,       \* _force_read_all
    sweep,       \* the force argument of the lib call in progress
    swept,       \* a forced lib call has returned since the bind
    closed,      \* handlers whose port has been closed
    tag,         \* EventSender.lift_type
    twin,        \* gw.liftType as the cloud last received it
    sent         \* last telemetry message: its tag, and the type bound then

envVars   == <<lift, stage>>
identVars == <<attempts, found>>
bindVars  == <<handler, lib, liftType, candidates, thousandLib>>
pollVars  == <<force, sweep, swept>>
cloudVars == <<tag, twin, sent>>
taskVars  == <<pc, op, bus, lock>>
vars == <<envVars, identVars, bindVars, pollVars, cloudVars, taskVars, closed>>

IdentPCs  == {"modbus", "rs232", "lock", "detect", "close", "sleep",
              "created", "report", "announce", "done"}
WorkPCs   == {"off", "idle", "lock", "bus", "readBack", "push"}

StateOK ==
    /\ lift \in [family: Families, newTable: BOOLEAN, up: BOOLEAN]
    /\ stage \in {"create", "run", "down"}
    /\ attempts \in 0..MaxAttempts
    /\ pc \in [Tasks -> IdentPCs \cup WorkPCs \cup {"cancelled"}]
    /\ op \in [Callers -> Ops \cup {"none"}]
    /\ bus \in [Tasks -> Handlers \cup {"none"}]
    /\ lock \in Tasks \cup {"free"}
    /\ found \in LiftTypes
    /\ handler \in Handlers \cup {"none"}
    /\ lib \in Libs \cup {"none"}
    /\ liftType \in LiftTypes
    /\ candidates \in SUBSET Handlers
    /\ closed \in SUBSET Handlers
    /\ tag \in LiftTypes
    /\ twin \in LiftTypes \cup {"previousBoot"}
    /\ sent \in [tag: LiftTypes, lift: LiftTypes]

FlagsOK ==
    /\ thousandLib \in BOOLEAN
    /\ force \in BOOLEAN /\ sweep \in BOOLEAN /\ swept \in BOOLEAN

(* Every field, await point and message is of the kind the code gives it,  *)
(* and create() counts no more than MaxAttempts rounds.                    *)
TypeOK == StateOK /\ FlagsOK

-----------------------------------------------------------------------------
(* Task t moves to await point p, its worker thread now on handler h. *)
Await(t, p, h) ==
    /\ pc'  = [pc  EXCEPT ![t] = p]
    /\ bus' = [bus EXCEPT ![t] = h]

(* _create_handlers() has built both handlers and the shared 1k lib, and   *)
(* create()'s first identification round is on the Modbus bus.             *)
Init ==
    /\ lift \in [family: Families, newTable: BOOLEAN, up: BOOLEAN]
    /\ lift.newTable => lift.family = "AHL"
    /\ stage = "create"
    /\ attempts = 0
    /\ pc = [t \in Tasks |-> IF t = "ident" THEN "modbus" ELSE "off"]
    /\ op = [c \in Callers |-> "none"]
    /\ bus = [t \in Tasks |-> IF t = "ident" THEN "modbus" ELSE "none"]
    /\ lock = "free"
    /\ found = "unknown"
    /\ handler = "none" /\ lib = "none" /\ liftType = "unknown"
    /\ candidates = Handlers /\ thousandLib = TRUE
    /\ force = TRUE /\ sweep = FALSE /\ swept = FALSE
    /\ closed = {}
    /\ tag = "unknown" /\ twin = "previousBoot"
    /\ sent = [tag |-> "unknown", lift |-> "unknown"]

-----------------------------------------------------------------------------
(* Environment: the lift controller is powered on or off. *)
LiftPower(on) ==
    /\ lift.up # on
    /\ lift' = [lift EXCEPT !.up = on]
    /\ UNCHANGED <<stage, identVars, bindVars, pollVars, cloudVars, taskVars,
                   closed>>

(* A handler answers NO_ERR only when its own lift family is attached and  *)
(* up; even then the read may fail.                                        *)
Answers(h) ==
    /\ lift.up
    /\ lift.family = (IF h = "modbus" THEN "AHL" ELSE "1k")

-----------------------------------------------------------------------------
(* Identification: _try_identify() -> identify_lift() -> _bind(). *)

(* The loop's sleep ends and a round starts on the first bus. *)
StartRound ==
    /\ pc["ident"] = "sleep"
    /\ Await("ident", "modbus", "modbus")
    /\ UNCHANGED <<envVars, identVars, bindVars, pollVars, cloudVars, op, lock,
                   closed>>

(* A handler that answers decides the family; the task goes on to _bind()  *)
(* and asks for the lock.                                                  *)
ProbeHit(h) ==
    /\ pc["ident"] = h
    /\ Answers(h)
    /\ found' = IF h = "modbus" THEN "AHL" ELSE "1k"
    /\ Await("ident", "lock", "none")
    /\ UNCHANGED <<envVars, attempts, bindVars, pollVars, cloudVars, op, lock,
                   closed>>

(* Modbus error code or exception: try RS232. *)
ModbusMiss ==
    /\ pc["ident"] = "modbus"
    /\ Await("ident", "rs232", "rs232")
    /\ UNCHANGED <<envVars, identVars, bindVars, pollVars, cloudVars, op, lock,
                   closed>>

(* A round ended without a bind.  create() sleeps and tries again while it *)
(* has attempts left and otherwise returns the UNKNOWN proxy; the          *)
(* background loop always sleeps and tries again.                          *)
RoundFailed ==
    IF stage = "create"
    THEN /\ attempts' = attempts + 1
         /\ Await("ident",
                  IF attempts + 1 < MaxAttempts THEN "sleep" ELSE "created",
                  "none")
    ELSE /\ Await("ident", "sleep", "none")
         /\ UNCHANGED attempts

Rs232Miss ==
    /\ pc["ident"] = "rs232"
    /\ found' = "unknown"
    /\ RoundFailed
    /\ UNCHANGED <<envVars, bindVars, pollVars, cloudVars, op, lock, closed>>

(* The block of _bind() that publishes the pair: no await in it, and the   *)
(* lock is released at its end.  The loser is then closed in a thread.     *)
Publish(t, h, l, loser) ==
    /\ handler' = h
    /\ lib' = l
    /\ candidates' = {}
    /\ thousandLib' = FALSE
    /\ force' = TRUE
    /\ swept' = FALSE
    /\ liftType' = t
    /\ lock' = "free"
    /\ Await("ident", "close", loser)
    /\ UNCHANGED <<sweep>>

(* _bind(AHL) got the lock and reads parameter 127 first. *)
BindAhl ==
    /\ pc["ident"] = "lock" /\ found = "AHL" /\ lock = "free"
    /\ lock' = "ident"
    /\ Await("ident", "detect", "modbus")
    /\ UNCHANGED <<envVars, identVars, bindVars, pollVars, cloudVars, op,
                   closed>>

(* NO_ERR on parameter 127 means new firmware, LCM_ERR old firmware. *)
DetectTable ==
    /\ pc["ident"] = "detect"
    /\ Answers("modbus")
    /\ Publish("AHL", "modbus", IF lift.newTable THEN "AhlNew" ELSE "AhlOld",
               "rs232")
    /\ UNCHANGED <<envVars, identVars, cloudVars, op, closed>>

(* Mutant: an inconclusive read of parameter 127 is taken for old firmware. *)
DetectGuesses ==
    /\ pc["ident"] = "detect"
    /\ Publish("AHL", "modbus", "AhlOld", "rs232")
    /\ UNCHANGED <<envVars, identVars, cloudVars, op, closed>>

(* Mutant: an exception in a background round ends the loop. *)
DetectEndsLoop ==
    /\ pc["ident"] = "detect"
    /\ lock' = "free"
    /\ IF stage = "create" THEN RoundFailed
       ELSE Await("ident", "done", "none") /\ UNCHANGED attempts
    /\ UNCHANGED <<envVars, found, bindVars, pollVars, cloudVars, op, closed>>

(* Any other code raises: the lock is released, nothing is published, and  *)
(* the round counts as failed.                                             *)
DetectRaises ==
    /\ pc["ident"] = "detect"
    /\ lock' = "free"
    /\ RoundFailed
    /\ UNCHANGED <<envVars, found, bindVars, pollVars, cloudVars, op, closed>>

(* _bind(ONE_K): nothing to await between the lock and publication. *)
BindOneK ==
    /\ pc["ident"] = "lock" /\ found = "1k" /\ lock = "free"
    /\ Publish("1k", "rs232", "Thousand", "modbus")
    /\ UNCHANGED <<envVars, identVars, cloudVars, op, closed>>

(* Mutant: both candidates are closed after the bind. *)
BothClosed ==
    /\ pc["ident"] = "close"
    /\ closed' = Handlers
    /\ Await("ident", IF stage = "create" THEN "created" ELSE "announce", "none")
    /\ tag' = IF stage = "create" THEN tag ELSE liftType
    /\ UNCHANGED <<envVars, identVars, bindVars, pollVars, twin, sent, op, lock>>

(* Mutant: late identification leaves the telemetry tag as it was. *)
LoserClosedTagKept ==
    /\ pc["ident"] = "close"
    /\ closed' = closed \cup {bus["ident"]}
    /\ Await("ident", IF stage = "create" THEN "created" ELSE "announce", "none")
    /\ UNCHANGED <<envVars, identVars, bindVars, pollVars, cloudVars, op, lock>>

(* The loser is closed.  create() returns the bound proxy; the background  *)
(* loop goes on to _on_identified(): new telemetry tag, then the report.   *)
LoserClosed ==
    /\ pc["ident"] = "close"
    /\ closed' = closed \cup {bus["ident"]}
    /\ Await("ident", IF stage = "create" THEN "created" ELSE "announce", "none")
    /\ tag' = IF stage = "create" THEN tag ELSE liftType
    /\ UNCHANGED <<envVars, identVars, bindVars, pollVars, twin, sent, op, lock>>

(* main(): EventSender takes the type known now, the method listener and   *)
(* the heartbeat start, and proxy.run() awaits its first report.           *)
StartRun ==
    /\ pc["ident"] = "created"
    /\ stage' = "run"
    /\ tag' = liftType
    /\ pc' = [t \in Tasks |-> IF t = "ident" THEN "report"
                              ELSE IF t \in Callers THEN "idle" ELSE pc[t]]
    /\ UNCHANGED <<lift, identVars, bindVars, pollVars, twin, sent, op, bus,
                   lock, closed>>

(* The startup report arrives, or it is lost or times out; either way the  *)
(* loops start, and the background loop ends at once if a lift is bound.   *)
ReportLiftType(delivered) ==
    /\ pc["ident"] = "report"
    /\ twin' = IF delivered THEN liftType ELSE twin
    /\ pc' = [pc EXCEPT !["poll"] = "idle",
                        !["ident"] = IF liftType = "unknown" THEN "sleep"
                                     ELSE "done"]
    /\ UNCHANGED <<envVars, identVars, bindVars, pollVars, tag, sent, op, bus,
                   lock, closed>>

OnIdentified(delivered) ==
    /\ pc["ident"] = "announce"
    /\ twin' = IF delivered THEN liftType ELSE twin
    /\ Await("ident", "done", "none")
    /\ UNCHANGED <<envVars, identVars, bindVars, pollVars, tag, sent, op, lock,
                   closed>>

-----------------------------------------------------------------------------
(* Telemetry: EventSender.send_event() stamps the tag it holds now. *)
Emit == sent' = [tag |-> tag, lift |-> liftType]

(* Polling loop: poll_params(), then the push of what changed.  An unbound *)
(* proxy returns [] before it asks for the lock.                           *)
PollStart ==
    /\ pc["poll"] = "idle"
    /\ lib # "none" /\ handler # "none"
    /\ Await("poll", "lock", "none")
    /\ UNCHANGED <<envVars, identVars, bindVars, pollVars, cloudVars, op, lock,
                   closed>>

PollAcquire ==
    /\ pc["poll"] = "lock" /\ lock = "free"
    /\ lock' = "poll"
    /\ sweep' = force
    /\ Await("poll", "bus", handler)
    /\ UNCHANGED <<envVars, identVars, bindVars, force, swept, cloudVars, op,
                   closed>>

(* The lib call returned; the pending flag is cleared before the release. *)
PollReturns(toSend) ==
    /\ pc["poll"] = "bus"
    /\ force' = FALSE
    /\ swept' = (swept \/ sweep)
    /\ sweep' = FALSE
    /\ lock' = "free"
    /\ Await("poll", IF toSend THEN "push" ELSE "idle", "none")
    /\ UNCHANGED <<envVars, identVars, bindVars, cloudVars, op, closed>>

(* Mutant: the pending flag is cleared even when the lib call raises. *)
PollRaisesFlagLost ==
    /\ pc["poll"] = "bus"
    /\ lock' = "free"
    /\ force' = FALSE
    /\ Await("poll", "idle", "none")
    /\ UNCHANGED <<envVars, identVars, bindVars, sweep, swept, cloudVars, op,
                   closed>>

(* Mutant: a raising poll leaves the lock taken. *)
PollRaisesLockKept ==
    /\ pc["poll"] = "bus"
    /\ Await("poll", "idle", "none")
    /\ UNCHANGED <<envVars, identVars, bindVars, pollVars, cloudVars, op, lock,
                   closed>>

(* The lib call raised: the flag keeps its value for the next cycle. *)
PollRaises ==
    /\ pc["poll"] = "bus"
    /\ sweep' = FALSE
    /\ lock' = "free"
    /\ Await("poll", "idle", "none")
    /\ UNCHANGED <<envVars, identVars, bindVars, force, swept, cloudVars, op,
                   closed>>

PollPush ==
    /\ pc["poll"] = "push"
    /\ Emit
    /\ Await("poll", "idle", "none")
    /\ UNCHANGED <<envVars, identVars, bindVars, pollVars, tag, twin, op, lock,
                   closed>>

(* Daily loop: it pushes from the cache and takes no lock. *)
DailyPush ==
    /\ stage = "run" /\ pc["poll"] # "off" /\ lib # "none"
    /\ Emit
    /\ UNCHANGED <<envVars, identVars, bindVars, pollVars, tag, twin, taskVars,
                   closed>>

(* HeartbeatHandler sends through the same EventSender, bound or not. *)
Heartbeat ==
    /\ stage = "run"
    /\ Emit
    /\ UNCHANGED <<envVars, identVars, bindVars, pollVars, tag, twin, taskVars,
                   closed>>

-----------------------------------------------------------------------------
(* Direct methods.  An unbound proxy answers INIT_ERR and changes nothing. *)
CallStart(c, o) ==
    /\ pc[c] = "idle"
    /\ handler # "none"
    /\ op' = [op EXCEPT ![c] = o]
    /\ Await(c, "lock", "none")
    /\ UNCHANGED <<envVars, identVars, bindVars, pollVars, cloudVars, lock,
                   closed>>

CallAcquire(c) ==
    /\ pc[c] = "lock" /\ lock = "free"
    /\ lock' = c
    /\ Await(c, "bus", handler)
    /\ UNCHANGED <<envVars, identVars, bindVars, pollVars, cloudVars, op,
                   closed>>

(* Mutant: the lock is released between the write and the read-back. *)
CallReadBackUnlocked(c) ==
    /\ pc[c] = "bus" /\ op[c] = "writeRead"
    /\ lock' = "free"
    /\ Await(c, "readBack", handler)
    /\ UNCHANGED <<envVars, identVars, bindVars, pollVars, cloudVars, op,
                   closed>>

(* write_read_param(): the lock is kept from the write to the read-back. *)
CallReadBack(c) ==
    /\ pc[c] = "bus" /\ op[c] = "writeRead"
    /\ Await(c, "readBack", handler)
    /\ UNCHANGED <<envVars, identVars, bindVars, pollVars, cloudVars, op, lock,
                   closed>>

(* The transaction ends; only a write that succeeded is followed by        *)
(* push_param_event().                                                     *)
CallReturns(c, ok) ==
    /\ \/ pc[c] = "readBack"
       \/ pc[c] = "bus" /\ (op[c] # "writeRead" \/ ~ok)
    /\ lock' = "free"
    /\ Await(c, IF ok /\ op[c] # "read" THEN "push" ELSE "idle", "none")
    /\ op' = [op EXCEPT ![c] = "none"]
    /\ UNCHANGED <<envVars, identVars, bindVars, pollVars, cloudVars, closed>>

CallPush(c) ==
    /\ pc[c] = "push"
    /\ Emit
    /\ Await(c, "idle", "none")
    /\ UNCHANGED <<envVars, identVars, bindVars, pollVars, tag, twin, op, lock,
                   closed>>

-----------------------------------------------------------------------------
(* The application is cancelled: every task ends at its await point and    *)
(* the lock is released, but a worker thread runs on until it is done.     *)
Shutdown ==
    /\ stage # "down"
    /\ stage' = "down"
    /\ pc' = [t \in Tasks |-> "cancelled"]
    /\ lock' = "free"
    /\ UNCHANGED <<lift, identVars, bindVars, pollVars, cloudVars, op, bus,
                   closed>>

ThreadEnds(t) ==
    /\ stage = "down" /\ bus[t] # "none"
    /\ bus' = [bus EXCEPT ![t] = "none"]
    /\ UNCHANGED <<envVars, identVars, bindVars, pollVars, cloudVars, pc, op,
                   lock, closed>>

IdentStep ==
    \/ StartRound
    \/ \E h \in Handlers : ProbeHit(h)
    \/ ModbusMiss
    \/ Rs232Miss
    \/ BindAhl
    \/ DetectTable
    \/ DetectRaises
    \/ BindOneK
    \/ LoserClosed
    \/ StartRun
    \/ \E d \in BOOLEAN : ReportLiftType(d)
    \/ \E d \in BOOLEAN : OnIdentified(d)

PollStep ==
    \/ PollStart
    \/ PollAcquire
    \/ \E s \in BOOLEAN : PollReturns(s)
    \/ PollRaises
    \/ PollPush

CallStep(c) ==
    \/ \E o \in Ops : CallStart(c, o)
    \/ CallAcquire(c)
    \/ CallReadBack(c)
    \/ \E ok \in BOOLEAN : CallReturns(c, ok)
    \/ CallPush(c)

Next ==
    \/ \E on \in BOOLEAN : LiftPower(on)
    \/ IdentStep
    \/ PollStep
    \/ DailyPush
    \/ Heartbeat
    \/ \E c \in Callers : CallStep(c)
    \/ Shutdown
    \/ \E t \in Tasks : ThreadEnds(t)

Spec == Init /\ [][Next]_vars

(* Serial calls are bounded by timeouts and asyncio runs every ready task, *)
(* so each task that is not waiting for the lock goes on.  asyncio.Lock    *)
(* serves its waiters in order: who waits gets it.  A line that works does *)
(* not fail every probe for ever.  Nothing obliges the cloud to call.      *)
CallProgress(c) ==
    CallReadBack(c) \/ (\E ok \in BOOLEAN : CallReturns(c, ok)) \/ CallPush(c)

Fairness ==
    /\ WF_vars(IdentStep)
    /\ \A h \in Handlers : SF_vars(ProbeHit(h))
    /\ SF_vars(BindAhl) /\ SF_vars(BindOneK) /\ SF_vars(DetectTable)
    /\ WF_vars(PollStep) /\ SF_vars(PollAcquire)
    /\ \A c \in Callers : SF_vars(CallAcquire(c)) /\ WF_vars(CallProgress(c))

FairSpec == Spec /\ Fairness

-----------------------------------------------------------------------------
(* Safety. *)

(* The pair fits the attached lift: handler, lib and AHL polling table. *)
PairFor(type) ==
    IF type = "AHL"
    THEN <<"modbus", IF lift.newTable THEN "AhlNew" ELSE "AhlOld">>
    ELSE <<"rs232", "Thousand">>

(* FR-008, _bind(): at every await of every task, also after a failed      *)
(* round or a cancellation, the proxy is either wholly unbound with both   *)
(* candidates alive and open, or wholly bound to the attached lift with    *)
(* the polling table of its firmware and nothing left over.                *)
NoHalfBoundProxy ==
    \/ /\ liftType = "unknown" /\ handler = "none" /\ lib = "none"
       /\ candidates = Handlers /\ thousandLib /\ closed = {}
    \/ /\ liftType = lift.family
       /\ <<handler, lib>> = PairFor(liftType)
       /\ candidates = {} /\ ~thousandLib

(* _handler_lock and the order of _bind() keep every serial port with one  *)
(* worker thread at a time, across probing, table detection, polling,      *)
(* direct methods and the close of the loser, and also when cancelled      *)
(* tasks leave their threads behind.                                       *)
BusExclusive ==
    \A s, t \in Tasks : s # t /\ bus[s] # "none" => bus[s] # bus[t]

(* Nobody talks through a handler that has been closed: close() is         *)
(* terminal, and the bound handler would answer LINK_ERR for ever.         *)
NoClosedPortInUse ==
    /\ handler \notin closed
    /\ \A t \in Tasks : bus[t] \notin closed

(* poll_params(): the cold-start flag that _bind() arms is only ever given *)
(* up by a full read that came back; a poll that raises does not lose it.  *)
ColdStartNotLost == liftType # "unknown" /\ ~force => swept

(* User story 3 of the re-identification feature: telemetry carries the    *)
(* type of the bound lift.  EventSender holds a copy that _on_identified() *)
(* renews after the loser has been closed in a thread, so the one moment   *)
(* at which a poll, a push or a heartbeat may go out with the old tag is   *)
(* while that thread runs.                                                 *)
TaggedUnlessClosing ==
    [][sent' # sent => sent'.tag = sent'.lift \/ pc["ident"] = "close"]_vars

(* The proxy implements the abstract binding contract. *)
Binding == INSTANCE LiftBinding
           WITH NoPair <- <<"none", "none">>,
                Ports  <- Handlers,
                fits   <- PairFor(lift.family),
                pair   <- <<handler, lib>>,
                open   <- Handlers \ closed

(* LiftProxy as seen by its consumers is LiftBinding: one step publishes   *)
(* the whole pair, it never changes again, and only the loser is closed.   *)
ImplementsBinding == Binding!Spec

-----------------------------------------------------------------------------
(* The strengthening that makes the safety invariants inductive. *)

Loser == IF handler = "modbus" THEN "rs232" ELSE "modbus"

(* The awaits inside "async with _handler_lock". *)
InCritical(t) ==
    IF t = "ident" THEN pc[t] = "detect" ELSE pc[t] \in {"bus", "readBack"}

(* Which await points a task can be at in which stage. *)
PcInv ==
    /\ stage = "down" => \A t \in Tasks : pc[t] = "cancelled"
    /\ stage # "down" => /\ pc["ident"] \in IdentPCs
                         /\ \A t \in Tasks \ {"ident"} : pc[t] \in WorkPCs
    /\ stage = "create" => \A t \in Tasks \ {"ident"} : pc[t] = "off"
    /\ pc["ident"] = "created" => stage = "create"
    /\ pc["ident"] = "report" => stage = "run" /\ pc["poll"] = "off"

LockInv == \A t \in Tasks : lock = t <=> InCritical(t)

(* The handler a live task's thread is on follows from its await point. *)
ThreadInv ==
    stage # "down" =>
        /\ bus["ident"] = CASE pc["ident"] \in {"modbus", "detect"} -> "modbus"
                             [] pc["ident"] = "rs232" -> "rs232"
                             [] pc["ident"] = "close" -> Loser
                             [] OTHER -> "none"
        /\ \A t \in Tasks \ {"ident"} :
               bus[t] = IF pc[t] \in {"bus", "readBack"} THEN handler ELSE "none"

(* How far identification has come, against what the proxy has published. *)
IdentInv ==
    /\ pc["ident"] \in {"modbus", "rs232", "lock", "detect", "sleep"} =>
           liftType = "unknown"
    /\ pc["ident"] \in {"close", "announce", "done"} => liftType # "unknown"
    /\ pc["ident"] = "lock" => found = lift.family
    /\ pc["ident"] = "detect" => lift.family = "AHL"
    /\ closed \in {{}, {Loser}}
    /\ pc["ident"] = "close" => closed = {}
    /\ \A t \in Tasks \ {"ident"} :
           pc[t] \in {"lock", "bus", "readBack", "push"} => liftType # "unknown"

AttemptInv ==
    stage = "create" /\ liftType = "unknown" /\ pc["ident"] # "created" =>
        attempts < MaxAttempts

SweepInv == pc["poll"] = "bus" => sweep = force

(* The sender's copy of the type is the type, outside that moment. *)
TagInv == stage = "run" /\ pc["ident"] # "close" => tag = liftType

Safety ==
    NoHalfBoundProxy /\ BusExclusive /\ NoClosedPortInUse /\ ColdStartNotLost

Support ==
    PcInv /\ LockInv /\ ThreadInv /\ IdentInv /\ AttemptInv /\ SweepInv

IndInv == TypeOK /\ Safety /\ Support

-----------------------------------------------------------------------------
(* Liveness, under FairSpec, of a gateway that is not shut down. *)

(* FR-001: once the lift answers for good, it is identified, however many  *)
(* startup attempts were wasted before and whoever else wants the lock.    *)
IdentifiedWhenUp ==
    <>[](lift.up) => <>(liftType = lift.family \/ stage = "down")

(* FR-006, FR-007: a bound lift is announced on the telemetry tag and the  *)
(* other port is released, no matter when identification succeeded.        *)
AnnouncedAndReleased ==
    liftType # "unknown" ~>
        \/ tag = liftType /\ closed = Handlers \ {handler}
        \/ stage = "down"

(* A direct method that asked for the bus gets its answer: no deadlock and *)
(* no starvation behind polling or identification.                         *)
CallsReturn ==
    \A c \in Callers : pc[c] = "lock" ~> pc[c] \in {"idle", "cancelled"}
=============================================================================
