----------------------------- MODULE ModbusHandler -----------------------------
(***************************************************************************)
(* The Modbus handler of an AHL lift (liftApi/modbus_handler.py,           *)
(* liftApi/modbus_file_record.py): its link, the 32-bit coding of values,  *)
(* guarded writes, the retrieval of the trace log and the transfer of an   *)
(* upgrade package, over a line that loses requests and answers.           *)
(*                                                                         *)
(* One call is in progress at a time (the proxy's lock).  pc is the loop   *)
(* of the handler the call is in.  A register of 16 bits has HALF values.  *)
(***************************************************************************)
EXTENDS Integers, Sequences

CONSTANTS
    HALF,          \* 2^16, number of values of one register
    DEAD,          \* 0xDEAD, both registers of a parameter that is not readable
    Texts,         \* values as the cloud writes them
    LiftValues,    \* what the LCM answers when a guard is read
    Stored,        \* what the lift itself puts into the registers
    OSM_SUPPORT, MIN_SPEED, MAX_SPEED, VERSION_BREAK,
    TRIES,         \* max_tries of write_parameter
    LOG_RECORDS,   \* nr_records of the log type
    LOG_ERR_MAX,   \* err_cnt_max
    UP_RECORDS,    \* records of the upgrade package
    UP_TRIES       \* max_tries of write_upgrade_package

ASSUME HalfAssumption == HALF \in Nat /\ HALF > 0 /\ HALF % 2 = 0
ASSUME DeadAssumption == DEAD \in 0..(HALF - 1)
ASSUME TextsAssumption == Texts \subseteq [form : {"dec", "hex", "bad"}, v : Int]
ASSUME LiftValuesAssumption == LiftValues \subseteq Int
ASSUME GuardAssumption ==
    {OSM_SUPPORT, MIN_SPEED, MAX_SPEED, VERSION_BREAK} \subseteq Int
ASSUME BudgetAssumption ==
    /\ {TRIES, LOG_ERR_MAX, UP_TRIES} \subseteq Nat \ {0}
    /\ LOG_RECORDS \in Nat \ {0} /\ UP_RECORDS \in Nat \ {0}

-----------------------------------------------------------------------------
(* Coding of values. *)
WORD == HALF * HALF

(* ctypes.c_int32 of a bit pattern. *)
Signed(u) == IF 2 * u >= WORD THEN u - WORD ELSE u

(* parse_int_value(): a hexadecimal text is a bit pattern, a decimal one a *)
(* number.                                                                 *)
Parse(t) == IF t.form = "hex" /\ t.v >= 0 /\ t.v < WORD THEN Signed(t.v) ELSE t.v

Fits(v) == -WORD <= 2 * v /\ 2 * v < WORD

(* Mutant: the sign of what was read is lost. *)
DecodeUnsigned(r) == r[1] * HALF + r[2]

(* _pack_value() and the decoding of _validate_read_param_response(). *)
Pack(v) == <<(v \div HALF) % HALF, v % HALF>>
Decode(r) == Signed(r[1] * HALF + r[2])

Registers == (0..(HALF - 1)) \X (0..(HALF - 1))
Dead == <<DEAD, DEAD>>

ASSUME StoredAssumption == Stored # {} /\ Stored \subseteq Registers

(* Is floor f locked by the mask v?  Holds for negative masks, too. *)
Locks(v, f) == (v \div 2^(f - 1)) % 2 = 1

-----------------------------------------------------------------------------
Params == {"lock", "speed", "reset", "plain", "badAddress"}

(* "363", as the handler's constants have it, or "0363", say, which int()  *)
(* turns into the same address.                                            *)
Spellings == {"exactly", "padded"}

VARIABLES
    port,      \* does the device file exist?
    link,      \* _modbus_link
    closed,    \* _closed
    client,    \* the pymodbus client: "none", "idle" or "open"
    pc, op,    \* loop and kind of the call in progress, or of the last one
    par, text, \* arguments of a write: which parameter, and the value
    spelt,     \* is the parameter's number spelt as the handler compares it?
    seen,      \* the value this call, or the guard of this write, has read
    errs,      \* errors counted by the loop
    ret,       \* what the call returned
    reg,       \* registers of the parameter being written
    touched,   \* has the lift changed them since?
    rec,       \* record_number
    pos, data, \* the LCM's read position, records read
    saved,     \* the log a call has returned the name of
    image      \* records of the package the LCM has stored

linkVars == <<port, link, closed, client>>
writeVars == <<par, spelt, text, seen, reg, touched>>
fileVars == <<rec, pos, data, saved, image>>
vars == <<linkVars, pc, op, errs, ret, writeVars, fileVars>>

NoText == [form |-> "bad", v |-> 0]

(* Every variable is in range; in particular, what is in the registers are *)
(* register values and no loop asks for a record beyond the last.          *)
TypeOK ==
    /\ port \in BOOLEAN /\ link \in BOOLEAN /\ closed \in BOOLEAN
    /\ client \in {"none", "idle", "open"}
    /\ pc \in {"idle", "read", "guard", "write", "log", "save", "upgrade"}
    /\ op \in {"none", "read", "write", "log", "upgrade"}
    /\ par \in Params
    /\ spelt \in Spellings
    /\ text \in [form : {"dec", "hex", "bad"}, v : Int]
    /\ seen \in Int
    /\ errs \in Nat
    /\ ret \in {"none", "ok", "err", "link", "raised"}
    /\ reg \in Registers
    /\ touched \in BOOLEAN
    /\ rec \in 0..LOG_RECORDS \/ rec \in 0..UP_RECORDS
    /\ pos \in 0..LOG_RECORDS
    /\ data \in Seq(Nat)
    /\ saved \in Seq(Nat)
    /\ image \subseteq 0..(UP_RECORDS - 1)

(* __init__() sets the connection up if the port is there. *)
Init ==
    /\ port \in BOOLEAN
    /\ link = port
    /\ closed = FALSE
    /\ client = IF port THEN "open" ELSE "idle"
    /\ pc = "idle" /\ op = "none" /\ ret = "none"
    /\ par = "plain" /\ spelt = "exactly" /\ text = NoText /\ seen = 0
    /\ reg \in Stored
    /\ touched = TRUE
    /\ errs = 0 /\ rec = 0 /\ pos = 0
    /\ data = <<>> /\ saved = <<>> /\ image = {}

-----------------------------------------------------------------------------
(* Environment: the port comes and goes, the lift sets the parameter. *)
PortChanges ==
    /\ port' = ~port
    /\ UNCHANGED <<link, closed, client, pc, op, errs, ret, writeVars, fileVars>>

LiftChanges ==
    /\ touched' = TRUE
    /\ reg' \in Stored
    /\ UNCHANGED <<linkVars, pc, op, errs, ret, par, spelt, text, seen, fileVars>>

-----------------------------------------------------------------------------
Return(r) ==
    /\ ret' = r
    /\ pc' = "idle"

(* Mutant: a closed handler is set up again. *)
EnterReopens(to, o) ==
    /\ pc = "idle"
    /\ op' = o
    /\ errs' = 0 /\ seen' = 0 /\ rec' = 0 /\ data' = <<>>
    /\ IF ~port
          THEN Return("link") /\ link' = FALSE /\ UNCHANGED client
          ELSE /\ ret' = "none" /\ pc' = to
               /\ link' = TRUE
               /\ client' = IF link THEN client ELSE "open"
    /\ UNCHANGED <<port, closed>>

(* check_modbus_connection() before each call: a closed handler stays      *)
(* closed, a missing port is noted, a lost link is set up again.           *)
Enter(to, o) ==
    /\ pc = "idle"
    /\ op' = o
    /\ errs' = 0 /\ seen' = 0 /\ rec' = 0 /\ data' = <<>>
    /\ IF closed \/ ~port
          THEN /\ Return("link")
               /\ link' = (link /\ closed)
               /\ UNCHANGED client
          ELSE /\ ret' = "none" /\ pc' = to
               /\ link' = TRUE
               /\ client' = IF link THEN client ELSE "open"
    /\ UNCHANGED <<port, closed>>

(* read_parameter() inside another call looks for the port, too. *)
LooksAgain ==
    /\ link' = (link /\ port)
    /\ UNCHANGED <<port, closed, client>>

(* close(), by the proxy, between calls. *)
Close ==
    /\ pc = "idle"
    /\ ~closed
    /\ closed' = TRUE
    /\ client' = "none"
    /\ link' = FALSE
    /\ UNCHANGED <<port, pc, op, errs, ret, writeVars, fileVars>>

-----------------------------------------------------------------------------
(* read_parameter() of the parameter last written. *)
CallRead ==
    /\ Enter("read", "read")
    /\ UNCHANGED <<par, spelt, text, reg, touched, pos, saved, image>>

(* The LCM answers with the registers; 0xDEADDEAD is its error value. *)
ReadAnswered ==
    /\ pc = "read"
    /\ par # "badAddress"
    /\ IF reg = Dead
          THEN Return("err") /\ UNCHANGED seen
          ELSE Return("ok") /\ seen' = Decode(reg)
    /\ UNCHANGED <<linkVars, op, errs, par, spelt, text, reg, touched, fileVars>>

ReadUnanswered ==
    /\ pc = "read"
    /\ errs' = errs + 1
    /\ IF errs' < TRIES THEN UNCHANGED <<pc, ret>> ELSE Return("err")
    /\ UNCHANGED <<linkVars, op, writeVars, fileVars>>

(* write_parameter(): what is in the registers now is whatever the lift    *)
(* has there.  The guarded parameters are recognised by the text of their  *)
(* number, while the address is int() of it: another spelling is written   *)
(* to the same registers without a guard.  The command that makes the LCM  *)
(* reboot is a plain write; before it the disk is synchronised.            *)
CallWrite(p, w, t) ==
    /\ Enter(IF p \in {"lock", "speed", "reset"} /\ w = "exactly"
                THEN "guard" ELSE "write", "write")
    /\ par' = p
    /\ spelt' = w
    /\ text' = t
    /\ reg' \in Stored
    /\ touched' = TRUE
    /\ UNCHANGED <<pos, saved, image>>

(* _validate_inputs() refuses a text that is no number. *)
WriteInvalid ==
    /\ pc \in {"guard", "write"}
    /\ text.form = "bad"
    /\ Return("err")
    /\ UNCHANGED <<linkVars, op, errs, writeVars, fileVars>>

(* The guard's own read_parameter() fails, or is refused by the LCM. *)
GuardFails ==
    /\ pc = "guard"
    /\ text.form # "bad"
    /\ Return("err")
    /\ LooksAgain
    /\ UNCHANGED <<op, errs, writeVars, fileVars>>

(* Mutant: only masks that read as positive numbers are checked. *)
LockCheckedPositive(v) ==
    /\ par = "lock"
    /\ IF v < 1
          THEN Return("raised")
          ELSE IF Parse(text) > 0 /\ Locks(Parse(text), v)
                  THEN Return("err")
                  ELSE pc' = "write" /\ UNCHANGED ret
    /\ UNCHANGED text

(* _handle_floor_lock(): the fire floor must not be locked; a fire floor   *)
(* below 1 makes the shift raise.                                          *)
LockChecked(v) ==
    /\ par = "lock"
    /\ IF v < 1
          THEN Return("raised")
          ELSE IF Locks(Parse(text), v)
                  THEN Return("err")
                  ELSE pc' = "write" /\ UNCHANGED ret
    /\ UNCHANGED text

(* _handle_speed_config(): int() raises on a hexadecimal text. *)
SpeedChecked(v) ==
    /\ par = "speed"
    /\ IF v # OSM_SUPPORT
          THEN Return("err")
          ELSE IF text.form = "hex"
                  THEN Return("raised")
                  ELSE IF text.v < MIN_SPEED \/ text.v > MAX_SPEED
                          THEN Return("err")
                          ELSE pc' = "write" /\ UNCHANGED ret
    /\ UNCHANGED text

(* Mutant: int() of the value is not in the try. *)
ResetRaises(v) ==
    /\ par = "reset"
    /\ IF v > VERSION_BREAK
          THEN pc' = "write" /\ UNCHANGED <<ret, text>>
          ELSE IF text.form = "hex"
                  THEN Return("raised") /\ UNCHANGED text
                  ELSE /\ text' = [form |-> "dec", v |-> 2 * text.v]
                       /\ pc' = "write" /\ UNCHANGED ret

(* _handle_reset_alarms(): old LCMs want the value shifted by one bit. *)
ResetShifted(v) ==
    /\ par = "reset"
    /\ IF v > VERSION_BREAK
          THEN pc' = "write" /\ UNCHANGED <<ret, text>>
          ELSE IF text.form = "hex"
                  THEN Return("err") /\ UNCHANGED text
                  ELSE /\ text' = [form |-> "dec", v |-> 2 * text.v]
                       /\ pc' = "write" /\ UNCHANGED ret

Guard(v) ==
    /\ pc = "guard"
    /\ text.form # "bad"
    /\ port
    /\ seen' = v
    /\ LockChecked(v) \/ SpeedChecked(v) \/ ResetShifted(v)
    /\ UNCHANGED <<linkVars, op, errs, par, spelt, reg, touched, fileVars>>

(* The address is a number and the value has 32 bits; otherwise every try  *)
(* raises before anything is sent.                                         *)
CanSend == par # "badAddress" /\ Fits(Parse(text))

(* The request is stored and its acknowledgement arrives. *)
WriteAcked ==
    /\ pc = "write"
    /\ text.form # "bad"
    /\ CanSend
    /\ reg' = Pack(Parse(text))
    /\ touched' = FALSE
    /\ Return("ok")
    /\ UNCHANGED <<linkVars, op, errs, par, spelt, text, seen, fileVars>>

(* Nothing, or no acknowledgement, gets through; the next try follows. *)
WriteUnacked ==
    /\ pc = "write"
    /\ text.form # "bad"
    /\ \/ UNCHANGED reg
       \/ CanSend /\ reg' = Pack(Parse(text))
    /\ errs' = errs + 1
    /\ IF errs' < TRIES THEN UNCHANGED <<pc, ret>> ELSE Return("err")
    /\ UNCHANGED <<linkVars, op, par, spelt, text, seen, touched, fileVars>>

-----------------------------------------------------------------------------
(* A call that is not about a parameter. *)
NoParameter ==
    /\ par' = "plain" /\ spelt' = "exactly" /\ text' = NoText
    /\ reg' \in Stored /\ touched' = TRUE

(* log_generate() and generate_trace_log(). *)
CallLog ==
    /\ Enter("log", "log")
    /\ NoParameter
    /\ UNCHANGED <<pos, saved, image>>

(* Bad arguments, or an unknown type of log. *)
LogRefused ==
    /\ pc = "log"
    /\ rec = 0 /\ errs = 0
    /\ Return("err")
    /\ UNCHANGED <<linkVars, op, errs, writeVars, fileVars>>

(* The LCM sends its records one after the other; asked for record 0 it    *)
(* starts again.                                                           *)
LcmRecord == IF rec = 0 THEN 0 ELSE pos

(* _validate_read_file_response(): the first record has the file name, the *)
(* last one its own length.                                                *)
Plausible(r) ==
    /\ r < LOG_RECORDS
    /\ rec = 0 => r = 0
    /\ rec = LOG_RECORDS - 1 <=> r = LOG_RECORDS - 1

(* Mutant: what was read before an error is kept. *)
LogRecordKeeps ==
    /\ pc = "log"
    /\ rec < LOG_RECORDS
    /\ Plausible(LcmRecord)
    /\ data' = Append(data, LcmRecord)
    /\ pos' = LcmRecord + 1
    /\ rec' = rec + 1
    /\ pc' = IF rec' = LOG_RECORDS THEN "save" ELSE "log"
    /\ UNCHANGED <<linkVars, op, errs, ret, writeVars, saved, image>>

(* A record arrives and is accepted; at record 0 the data starts afresh. *)
LogRecord ==
    /\ pc = "log"
    /\ rec < LOG_RECORDS
    /\ Plausible(LcmRecord)
    /\ data' = Append(IF rec = 0 THEN <<>> ELSE data, LcmRecord)
    /\ pos' = LcmRecord + 1
    /\ rec' = rec + 1
    /\ pc' = IF rec' = LOG_RECORDS THEN "save" ELSE "log"
    /\ UNCHANGED <<linkVars, op, errs, ret, writeVars, saved, image>>

(* Mutant: errors are not counted. *)
LogErrorUncounted ==
    /\ pc = "log"
    /\ pos' \in {pos, LcmRecord + 1} \cap 0..LOG_RECORDS
    /\ rec' = 0
    /\ UNCHANGED <<linkVars, pc, ret, op, errs, writeVars, data, saved, image>>

(* The request raises or its answer is refused; the LCM may have moved on. *)
(* Reading starts again from record 0.                                     *)
LogError ==
    /\ pc = "log"
    /\ pos' \in {pos, LcmRecord + 1} \cap 0..LOG_RECORDS
    /\ rec' = 0
    /\ errs' = errs + 1
    /\ IF errs' < LOG_ERR_MAX THEN UNCHANGED <<pc, ret>> ELSE Return("err")
    /\ UNCHANGED <<linkVars, op, writeVars, data, saved, image>>

(* _save_log(), under a name that carries the LCM's version and the time.  *)
(* A disk that is nearly full then is reported although the log is there.  *)
LogSaved ==
    /\ pc = "save"
    /\ saved' = data
    /\ \E r \in {"ok", "err"} : Return(r)
    /\ LooksAgain
    /\ UNCHANGED <<op, errs, writeVars, rec, pos, data, image>>

LogSaveFails ==
    /\ pc = "save"
    /\ Return("err")
    /\ LooksAgain
    /\ UNCHANGED <<op, errs, writeVars, fileVars>>

-----------------------------------------------------------------------------
(* write_upgrade_package(): a new package; the LCM has none of it. *)
CallUpgrade ==
    /\ Enter("upgrade", "upgrade")
    /\ NoParameter
    /\ image' = {}
    /\ UNCHANGED <<pos, saved>>

(* The file is missing, empty, misnamed or without the header; any other   *)
(* trouble in reading it raises.                                           *)
UpgradeRefused ==
    /\ pc = "upgrade"
    /\ rec = 0 /\ errs = 0
    /\ \E r \in {"err", "raised"} : Return(r)
    /\ UNCHANGED <<linkVars, op, errs, writeVars, fileVars>>

(* A record is stored and acknowledged: the errors are forgotten. *)
RecordAcked ==
    /\ pc = "upgrade"
    /\ image' = image \cup {rec}
    /\ rec' = rec + 1
    /\ errs' = 0
    /\ IF rec' = UP_RECORDS THEN Return("ok") ELSE UNCHANGED <<pc, ret>>
    /\ UNCHANGED <<linkVars, op, writeVars, pos, data, saved>>

(* Mutant: the loop goes on with the next record. *)
RecordSkipped ==
    /\ pc = "upgrade"
    /\ image' \in {image, image \cup {rec}}
    /\ errs' = errs + 1
    /\ rec' = rec + 1
    /\ IF rec' = UP_RECORDS THEN Return("ok") ELSE UNCHANGED <<pc, ret>>
    /\ UNCHANGED <<linkVars, op, writeVars, pos, data, saved>>

(* It is lost, or stored but not acknowledged; it will be sent again. *)
RecordUnacked ==
    /\ pc = "upgrade"
    /\ image' \in {image, image \cup {rec}}
    /\ errs' = errs + 1
    /\ IF errs' < UP_TRIES THEN UNCHANGED <<pc, ret>> ELSE Return("err")
    /\ UNCHANGED <<linkVars, op, writeVars, rec, pos, data, saved>>

-----------------------------------------------------------------------------
Step ==
    \/ ReadAnswered \/ ReadUnanswered
    \/ WriteInvalid \/ GuardFails \/ \E v \in LiftValues : Guard(v)
    \/ WriteAcked \/ WriteUnacked
    \/ LogRefused \/ LogRecord \/ LogError \/ LogSaved \/ LogSaveFails
    \/ UpgradeRefused \/ RecordAcked \/ RecordUnacked

Next ==
    \/ PortChanges
    \/ LiftChanges
    \/ Close
    \/ CallRead
    \/ \E p \in Params, w \in Spellings, t \in Texts : CallWrite(p, w, t)
    \/ CallLog
    \/ CallUpgrade
    \/ Step

(* Requests return or time out, so a call goes on. *)
Spec == Init /\ [][Next]_vars /\ WF_vars(Step)

-----------------------------------------------------------------------------
(* What is read back after a write was acknowledged is what was meant, in  *)
(* hexadecimal or decimal, negative or not, as long as the lift has not    *)
(* changed it; parse_int_value() is said to be the "single source of       *)
(* truth" for both.  (The pattern 0xDEADDEAD reads as an error.)           *)
WriteReadAgree ==
    op = "read" /\ ret = "ok" /\ ~touched => seen = Parse(text)

(* No write the gateway sends, acknowledged or not, locks the fire floor   *)
(* the lift has reported for it ("Prevents locking the fire floor"),       *)
(* however the mask is spelt, nor sets a speed outside the limits, if the  *)
(* number of the parameter is spelt as the handler compares it.  With a    *)
(* leading zero, which validation lets through on the whole way from the   *)
(* cloud, the same registers are written without either guard.             *)
GuardsHold ==
    [][/\ pc = "write" /\ reg' # reg /\ (errs' # errs \/ ret' # ret)
       /\ spelt = "exactly"
       => /\ par = "lock" => ~Locks(Decode(reg'), seen)
          /\ par = "speed" => Decode(reg') \in MIN_SPEED..MAX_SPEED]_vars

(* The only exceptions a write lets out are the int() of a hexadecimal     *)
(* speed and the shift by a fire floor below 1.                            *)
RaisesKnown ==
    op = "write" /\ ret = "raised" =>
                      \/ par = "speed" /\ text.form = "hex"
                      \/ par = "lock" /\ seen < 1

(* A closed handler never opens the port again ("a closed handler is never *)
(* reopened").                                                             *)
ClosedForGood == [][closed => closed' /\ client' = "none"]_vars

(* A log that is saved is the LCM's log: every record once and in order,   *)
(* although the LCM's read position moves with every lost answer.          *)
LogIntact == saved # <<>> => saved = [i \in 1..LOG_RECORDS |-> i - 1]

(* The LCM never gets a record of the package before the one in front of   *)
(* it, and has the whole package when the transfer reports success.        *)
UpgradeWhole ==
    /\ \E n \in 0..UP_RECORDS : image = 0..(n - 1)
    /\ op = "upgrade" /\ ret = "ok" => image = 0..(UP_RECORDS - 1)

(* Every call returns: the loops count their errors. *)
CallsEnd == []<>(pc = "idle")

(* The requests the call in progress can still make before it returns: an  *)
(* error in a log costs all records read so far, an acknowledged record of *)
(* an upgrade restores the tries.                                          *)
Left ==
    CASE pc = "idle" -> 0
      [] pc = "save" -> 1
      [] pc \in {"read", "write"} -> TRIES - errs
      [] pc = "guard" -> TRIES + 1
      [] pc = "log" -> (LOG_ERR_MAX - errs) * (LOG_RECORDS + 1) - rec
      [] pc = "upgrade" -> (UP_RECORDS - rec - 1) * UP_TRIES + (UP_TRIES - errs)

(* No call goes on for ever: whatever the line loses, every step of a call *)
(* lowers the number of requests it has left, and nothing else changes it. *)
BudgetShrinks ==
    [][pc # "idle" =>
          IF Step THEN Left' \in 0..(Left - 1) ELSE Left' = Left]_vars

-----------------------------------------------------------------------------
(* The strengthening the proofs need. *)

ClosedInv == closed => client = "none"

(* A call in progress has not returned, and its loop is one of its own. *)
CallInv ==
    /\ pc # "idle" => ret = "none"
    /\ pc = "read" => op = "read"
    /\ pc \in {"guard", "write"} => op = "write"
    /\ pc \in {"log", "save"} => op = "log"
    /\ pc = "upgrade" => op = "upgrade"

(* The loops leave before their errors reach the limit. *)
LoopInv ==
    /\ pc \in {"read", "write"} => errs < TRIES
    /\ pc = "guard" => errs = 0
    /\ pc = "log" => errs < LOG_ERR_MAX
    /\ pc = "upgrade" => errs < UP_TRIES

(* Registers the lift has not touched hold what the last write meant; a    *)
(* write past its guard meets it, unless its spelling has got round it.    *)
ValueInv ==
    /\ ~touched => Decode(reg) = Parse(text)
    /\ pc \in {"guard", "write"} => touched
    /\ pc = "guard" => par \in {"lock", "speed", "reset"}
    /\ pc = "write" /\ spelt = "exactly" =>
          /\ par = "lock" => ~Locks(Parse(text), seen)
          /\ par = "speed" => Parse(text) \in MIN_SPEED..MAX_SPEED

Prefix(n) == [i \in 1..n |-> i - 1]

(* In the middle of a log the LCM is where the loop thinks it is. *)
LogInv ==
    /\ pc = "log" => rec \in 0..(LOG_RECORDS - 1)
    /\ pc = "log" /\ rec > 0 => pos = rec /\ data = Prefix(rec)
    /\ pc = "save" => data = Prefix(LOG_RECORDS)

(* In the middle of an upgrade the LCM has every record before this one. *)
UpgradeInv ==
    pc = "upgrade" => /\ rec \in 0..(UP_RECORDS - 1)
                      /\ image = 0..(rec - 1) \/ image = 0..rec
=============================================================================
