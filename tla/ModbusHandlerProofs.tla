-------------------------- MODULE ModbusHandlerProofs --------------------------
(***************************************************************************)
(* Proofs about ModbusHandler, for registers of any width, files of any    *)
(* length and any numbers of tries.                                        *)
(***************************************************************************)
EXTENDS ModbusHandler, TLAPS

USE HalfAssumption, DeadAssumption, TextsAssumption, LiftValuesAssumption,
    StoredAssumption, GuardAssumption, BudgetAssumption

-----------------------------------------------------------------------------
(* Arithmetic of the coding. *)

(* A number is its quotient and its remainder. *)
LEMMA DivMod ==
    ASSUME NEW v \in Int
    PROVE  /\ v \div HALF \in Int
           /\ v % HALF \in 0..(HALF - 1)
           /\ v = HALF * (v \div HALF) + (v % HALF)
<1>1. v \div HALF \in Int /\ v % HALF \in Int
  OBVIOUS
<1>2. v % HALF \in 0..(HALF - 1)
  OBVIOUS
<1>3. v = HALF * (v \div HALF) + (v % HALF)
  OBVIOUS
<1> QED BY <1>1, <1>2, <1>3

(* _pack_value() makes register values. *)
LEMMA PackType ==
    ASSUME NEW v \in Int
    PROVE  Pack(v) \in Registers
  BY DivMod DEF Pack, Registers

(* Scaling keeps the order. *)
LEMMA Monotone ==
    ASSUME NEW a \in Int, NEW b \in Int, a <= b
    PROVE  HALF * a <= HALF * b
<1>1. HALF * (b - a) >= 0
  OBVIOUS
<1>2. HALF * (b - a) = HALF * b - HALF * a
  OBVIOUS
<1> QED BY <1>1, <1>2

(* A remainder is known once it is within the divisor. *)
LEMMA ModIs ==
    ASSUME NEW x \in Int, NEW c \in Int, NEW d \in 0..(HALF - 1),
           x = HALF * c + d
    PROVE  x % HALF = d
<1> DEFINE q == x \div HALF
           r == x % HALF
<1>1. q \in Int /\ r \in 0..(HALF - 1) /\ x = HALF * q + r
  BY DivMod
<1> HIDE DEF q, r
<1>2. CASE q = c
  BY <1>1, <1>2 DEF r
<1>3. CASE q >= c + 1
  <2>1. HALF * (c + 1) <= HALF * q
    BY <1>1, <1>3, Monotone
  <2>2. HALF * (c + 1) = HALF * c + HALF
    OBVIOUS
  <2> QED BY <1>1, <2>1, <2>2
<1>4. CASE c >= q + 1
  <2>1. HALF * (q + 1) <= HALF * c
    BY <1>1, <1>4, Monotone
  <2>2. HALF * (q + 1) = HALF * q + HALF
    BY <1>1
  <2> QED BY <1>1, <2>1, <2>2
<1> QED BY <1>1, <1>2, <1>3, <1>4

(* What _pack_value() puts into the registers, the read path decodes to    *)
(* the same number, for every number of 32 bits.                           *)
THEOREM RoundTrip ==
    ASSUME NEW v \in Int, Fits(v)
    PROVE  Decode(Pack(v)) = v
<1> DEFINE q == v \div HALF
           r == v % HALF
<1>1. q \in Int /\ r \in 0..(HALF - 1) /\ v = HALF * q + r
  BY DivMod
<1>2. Decode(Pack(v)) = Signed((q % HALF) * HALF + r)
  BY DEF Decode, Pack
<1> HIDE DEF q, r
<1>3. /\ HALF * HALF \in Int
      /\ -(HALF * HALF) <= 2 * v
      /\ 2 * v < HALF * HALF
  BY DEF Fits, WORD
<1>4. 2 * q < HALF
  <2> SUFFICES ASSUME 2 * q >= HALF PROVE FALSE
    BY <1>1
  <2>1. HALF * HALF <= HALF * (2 * q)
    BY <1>1, Monotone
  <2>2. HALF * (2 * q) = 2 * (HALF * q)
    BY <1>1
  <2> QED BY <1>1, <1>3, <2>1, <2>2
<1>5. -HALF <= 2 * q
  <2> SUFFICES ASSUME 2 * q < -HALF PROVE FALSE
    BY <1>1
  <2>1. 2 * q <= -HALF - 2
    BY <1>1
  <2>2. HALF * (2 * q) <= HALF * (-HALF - 2)
    BY <1>1, <2>1, Monotone
  <2>3. /\ HALF * (2 * q) = 2 * (HALF * q)
        /\ HALF * (-HALF - 2) = -(HALF * HALF) - 2 * HALF
    BY <1>1
  <2> QED BY <1>1, <1>3, <2>2, <2>3
<1>6. CASE q >= 0
  <2>1. q % HALF = q
    BY <1>1, <1>4, <1>6, ModIs, q = HALF * 0 + q
  <2>2. (q % HALF) * HALF + r = v
    BY <1>1, <2>1
  <2> QED BY <1>2, <1>3, <2>2 DEF Signed, WORD
<1>7. CASE q < 0
  <2>1. q = HALF * (-1) + (q + HALF) /\ q + HALF \in 0..(HALF - 1)
    BY <1>1, <1>5, <1>7
  <2>2. q % HALF = q + HALF
    BY <1>1, <2>1, ModIs
  <2>3. (q + HALF) * HALF = HALF * q + HALF * HALF
    BY <1>1
  <2>4. (q % HALF) * HALF + r = v + HALF * HALF
    BY <1>1, <1>3, <2>2, <2>3
  <2> QED BY <1>2, <1>3, <2>4 DEF Signed, WORD
<1> QED BY <1>1, <1>6, <1>7
-----------------------------------------------------------------------------
(* Types. *)

(* The Boolean part of TypeOK, and the rest of it. *)
FlagsOK ==
    /\ port \in BOOLEAN /\ link \in BOOLEAN /\ closed \in BOOLEAN
    /\ touched \in BOOLEAN

DataOK ==
    /\ client \in {"none", "idle", "open"}
    /\ pc \in {"idle", "read", "guard", "write", "log", "save", "upgrade"}
    /\ op \in {"none", "read", "write", "log", "upgrade"}
    /\ par \in Params
    /\ spelt \in Spellings
    /\ text \in [form : {"dec", "hex", "bad"}, v : Int]
    /\ seen \in Int
    /\ errs \in Nat
    /\ ret \in {"none", "ok", "err", "link", "raised"}
    /\ reg \in Registers
    /\ rec \in 0..LOG_RECORDS \/ rec \in 0..UP_RECORDS
    /\ pos \in 0..LOG_RECORDS
    /\ data \in Seq(Nat)
    /\ saved \in Seq(Nat)
    /\ image \subseteq 0..(UP_RECORDS - 1)

(* The provers take the Boolean variables apart from the others. *)
LEMMA TypeParts == TypeOK <=> FlagsOK /\ DataOK
  BY Zenon DEF TypeOK, FlagsOK, DataOK

(* A text is read as an integer. *)
LEMMA ParseType ==
    ASSUME NEW t \in [form : {"dec", "hex", "bad"}, v : Int]
    PROVE  Parse(t) \in Int
<1>1. WORD \in Int
  BY DEF WORD
<1> QED BY <1>1 DEF Parse, Signed

(* Registers are read as an integer. *)
LEMMA DecodeType ==
    ASSUME NEW r \in Registers
    PROVE  Decode(r) \in Int
<1>1. r[1] \in Int /\ r[2] \in Int
  BY DEF Registers
<1>2. WORD \in Int /\ r[1] * HALF + r[2] \in Int
  BY <1>1 DEF WORD
<1> QED BY <1>2 DEF Decode, Signed

(* The flags stay Boolean. *)
LEMMA FlagsStep == FlagsOK /\ [Next]_vars => FlagsOK'
<1> SUFFICES ASSUME FlagsOK, [Next]_vars PROVE FlagsOK'
  OBVIOUS
<1> USE DEF linkVars, writeVars, fileVars
<1>1. CASE PortChanges
  BY <1>1, Zenon DEF PortChanges, FlagsOK
<1>2. CASE LiftChanges
  BY <1>2, Zenon DEF LiftChanges, FlagsOK
<1>3. CASE Close
  BY <1>3, Zenon DEF Close, FlagsOK
<1>4. CASE CallRead
  BY <1>4, Zenon DEF CallRead, Enter, Return, FlagsOK
<1>5. ASSUME NEW p \in Params, NEW w \in Spellings, NEW t \in Texts,
             CallWrite(p, w, t)
     PROVE  FlagsOK'
  BY <1>5, Zenon DEF CallWrite, Enter, Return, FlagsOK
<1>6. CASE CallLog
  BY <1>6, Zenon DEF CallLog, Enter, Return, NoParameter, FlagsOK
<1>7. CASE CallUpgrade
  BY <1>7, Zenon DEF CallUpgrade, Enter, Return, NoParameter, FlagsOK
<1>8. CASE ReadAnswered
  BY <1>8, Zenon DEF ReadAnswered, Return, FlagsOK
<1>9. CASE ReadUnanswered
  BY <1>9, Zenon DEF ReadUnanswered, Return, FlagsOK
<1>10. CASE WriteInvalid
  BY <1>10, Zenon DEF WriteInvalid, Return, FlagsOK
<1>11. CASE GuardFails
  BY <1>11, Zenon DEF GuardFails, Return, LooksAgain, FlagsOK
<1>12. ASSUME NEW v \in LiftValues, Guard(v)
     PROVE  FlagsOK'
  BY <1>12, Zenon DEF Guard, LockChecked, SpeedChecked, ResetShifted, Return, FlagsOK
<1>13. CASE WriteAcked
  BY <1>13, Zenon DEF WriteAcked, Return, CanSend, FlagsOK
<1>14. CASE WriteUnacked
  BY <1>14, Zenon DEF WriteUnacked, Return, CanSend, FlagsOK
<1>15. CASE LogRefused
  BY <1>15, Zenon DEF LogRefused, Return, FlagsOK
<1>16. CASE LogRecord
  BY <1>16, Zenon DEF LogRecord, LcmRecord, Plausible, FlagsOK
<1>17. CASE LogError
  BY <1>17, Zenon DEF LogError, LcmRecord, Return, FlagsOK
<1>18. CASE LogSaved
  BY <1>18, Zenon DEF LogSaved, Return, LooksAgain, FlagsOK
<1>19. CASE LogSaveFails
  BY <1>19, Zenon DEF LogSaveFails, Return, LooksAgain, FlagsOK
<1>20. CASE UpgradeRefused
  BY <1>20, Zenon DEF UpgradeRefused, Return, FlagsOK
<1>21. CASE RecordAcked
  BY <1>21, Zenon DEF RecordAcked, Return, FlagsOK
<1>22. CASE RecordUnacked
  BY <1>22, Zenon DEF RecordUnacked, Return, FlagsOK
<1>23. CASE UNCHANGED vars
  BY <1>23, Zenon DEF vars, FlagsOK
<1> QED
  BY <1>1, <1>2, <1>3, <1>4, <1>5, <1>6, <1>7, <1>8, <1>9, <1>10, <1>11,
      <1>12, <1>13, <1>14, <1>15, <1>16, <1>17, <1>18, <1>19, <1>20,
      <1>21, <1>22, <1>23
  DEF Next, Step

(* Data, with the bounds on rec of the two file loops. *)
LEMMA DataStep == DataOK /\ LogInv /\ UpgradeInv /\ [Next]_vars => DataOK'
<1> SUFFICES ASSUME DataOK, LogInv, UpgradeInv, [Next]_vars PROVE DataOK'
  OBVIOUS
<1> USE DEF Params, Spellings
<1> USE DEF linkVars, writeVars, fileVars
<1>1. CASE PortChanges
  BY <1>1 DEF PortChanges, DataOK
<1>2. CASE LiftChanges
  BY <1>2 DEF LiftChanges, DataOK
<1>3. CASE Close
  BY <1>3 DEF Close, DataOK
<1>4. CASE CallRead
  BY <1>4 DEF CallRead, Enter, Return, DataOK
<1>5. ASSUME NEW p \in Params, NEW w \in Spellings, NEW t \in Texts,
             CallWrite(p, w, t)
     PROVE  DataOK'
  <2>1. t \in [form : {"dec", "hex", "bad"}, v : Int]
    OBVIOUS
  <2> QED BY <1>5, <2>1 DEF CallWrite, Enter, Return, DataOK
<1>6. CASE CallLog
  <2>1. text' \in [form : {"dec", "hex", "bad"}, v : Int]
    BY <1>6 DEF CallLog, Enter, Return, NoParameter, DataOK, NoText
  <2> QED BY <1>6, <2>1 DEF CallLog, Enter, Return, NoParameter, DataOK
<1>7. CASE CallUpgrade
  <2>1. text' \in [form : {"dec", "hex", "bad"}, v : Int]
    BY <1>7 DEF CallUpgrade, Enter, Return, NoParameter, DataOK, NoText
  <2> QED BY <1>7, <2>1 DEF CallUpgrade, Enter, Return, NoParameter, DataOK
<1>8. CASE ReadAnswered
  <2>1. Decode(reg) \in Int
    BY DecodeType DEF DataOK
  <2> QED BY <1>8, <2>1 DEF ReadAnswered, Return, DataOK
<1>9. CASE ReadUnanswered
  BY <1>9 DEF ReadUnanswered, Return, DataOK
<1>10. CASE WriteInvalid
  BY <1>10 DEF WriteInvalid, Return, DataOK
<1>11. CASE GuardFails
  BY <1>11 DEF GuardFails, Return, LooksAgain, DataOK
<1>12. ASSUME NEW v \in LiftValues, Guard(v)
     PROVE  DataOK'
  <2>1. text' \in [form : {"dec", "hex", "bad"}, v : Int]
    BY <1>12 DEF Guard, LockChecked, SpeedChecked, ResetShifted, Return, DataOK
  <2> QED BY <1>12, <2>1 DEF Guard, LockChecked, SpeedChecked, ResetShifted, Return, DataOK
<1>13. CASE WriteAcked
  <2>1. Pack(Parse(text)) \in Registers
    BY ParseType, PackType DEF DataOK
  <2> QED BY <1>13, <2>1 DEF WriteAcked, Return, CanSend, DataOK
<1>14. CASE WriteUnacked
  <2>1. Pack(Parse(text)) \in Registers
    BY ParseType, PackType DEF DataOK
  <2> QED BY <1>14, <2>1 DEF WriteUnacked, Return, CanSend, DataOK
<1>15. CASE LogRefused
  BY <1>15 DEF LogRefused, Return, DataOK
<1>16. CASE LogRecord
  <2>1. LcmRecord \in 0..(LOG_RECORDS - 1) /\ rec \in Nat
    BY <1>16 DEF LogRecord, LcmRecord, Plausible, DataOK, LogInv
  <2>2. data' \in Seq(Nat)
    BY <1>16, <2>1 DEF LogRecord, DataOK
  <2>3. pos' \in 0..LOG_RECORDS /\ rec' \in 0..LOG_RECORDS
    BY <1>16, <2>1 DEF LogRecord, LogInv
  <2> QED BY <1>16, <2>2, <2>3 DEF LogRecord, DataOK
<1>17. CASE LogError
  BY <1>17 DEF LogError, LcmRecord, Return, DataOK
<1>18. CASE LogSaved
  BY <1>18 DEF LogSaved, Return, LooksAgain, DataOK
<1>19. CASE LogSaveFails
  BY <1>19 DEF LogSaveFails, Return, LooksAgain, DataOK
<1>20. CASE UpgradeRefused
  BY <1>20 DEF UpgradeRefused, Return, DataOK
<1>21. CASE RecordAcked
  <2>1. rec \in 0..(UP_RECORDS - 1)
    BY <1>21 DEF RecordAcked, UpgradeInv
  <2>2. rec' \in 0..UP_RECORDS
    BY <1>21, <2>1 DEF RecordAcked
  <2>3. image' \subseteq 0..(UP_RECORDS - 1)
    BY <1>21, <2>1 DEF RecordAcked, DataOK
  <2> QED BY <1>21, <2>2, <2>3 DEF RecordAcked, Return, DataOK
<1>22. CASE RecordUnacked
  BY <1>22 DEF RecordUnacked, Return, DataOK, UpgradeInv
<1>23. CASE UNCHANGED vars
  BY <1>23 DEF vars, DataOK
<1> QED
  BY <1>1, <1>2, <1>3, <1>4, <1>5, <1>6, <1>7, <1>8, <1>9, <1>10, <1>11,
      <1>12, <1>13, <1>14, <1>15, <1>16, <1>17, <1>18, <1>19, <1>20,
      <1>21, <1>22, <1>23
  DEF Next, Step

(* A loop belongs to the call that entered it, which has not returned. *)
LEMMA CallStep == CallInv /\ [Next]_vars => CallInv'
<1> SUFFICES ASSUME CallInv, [Next]_vars PROVE CallInv'
  OBVIOUS
<1> USE DEF linkVars, writeVars, fileVars
<1>1. CASE PortChanges
  BY <1>1 DEF PortChanges, CallInv
<1>2. CASE LiftChanges
  BY <1>2 DEF LiftChanges, CallInv
<1>3. CASE Close
  BY <1>3 DEF Close, CallInv
<1>4. CASE CallRead
  BY <1>4 DEF CallRead, Enter, Return, CallInv
<1>5. ASSUME NEW p \in Params, NEW w \in Spellings, NEW t \in Texts,
             CallWrite(p, w, t)
     PROVE  CallInv'
  BY <1>5 DEF CallWrite, Enter, Return, CallInv
<1>6. CASE CallLog
  BY <1>6 DEF CallLog, Enter, Return, NoParameter, CallInv
<1>7. CASE CallUpgrade
  BY <1>7 DEF CallUpgrade, Enter, Return, NoParameter, CallInv
<1>8. CASE ReadAnswered
  BY <1>8 DEF ReadAnswered, Return, CallInv
<1>9. CASE ReadUnanswered
  BY <1>9 DEF ReadUnanswered, Return, CallInv
<1>10. CASE WriteInvalid
  BY <1>10 DEF WriteInvalid, Return, CallInv
<1>11. CASE GuardFails
  BY <1>11 DEF GuardFails, Return, LooksAgain, CallInv
<1>12. ASSUME NEW v \in LiftValues, Guard(v)
     PROVE  CallInv'
  BY <1>12 DEF Guard, LockChecked, SpeedChecked, ResetShifted, Return, CallInv
<1>13. CASE WriteAcked
  BY <1>13 DEF WriteAcked, Return, CanSend, CallInv
<1>14. CASE WriteUnacked
  BY <1>14 DEF WriteUnacked, Return, CanSend, CallInv
<1>15. CASE LogRefused
  BY <1>15 DEF LogRefused, Return, CallInv
<1>16. CASE LogRecord
  BY <1>16 DEF LogRecord, LcmRecord, Plausible, CallInv
<1>17. CASE LogError
  BY <1>17 DEF LogError, LcmRecord, Return, CallInv
<1>18. CASE LogSaved
  BY <1>18 DEF LogSaved, Return, LooksAgain, CallInv
<1>19. CASE LogSaveFails
  BY <1>19 DEF LogSaveFails, Return, LooksAgain, CallInv
<1>20. CASE UpgradeRefused
  BY <1>20 DEF UpgradeRefused, Return, CallInv
<1>21. CASE RecordAcked
  BY <1>21 DEF RecordAcked, Return, CallInv
<1>22. CASE RecordUnacked
  BY <1>22 DEF RecordUnacked, Return, CallInv
<1>23. CASE UNCHANGED vars
  BY <1>23 DEF vars, CallInv
<1> QED
  BY <1>1, <1>2, <1>3, <1>4, <1>5, <1>6, <1>7, <1>8, <1>9, <1>10, <1>11,
      <1>12, <1>13, <1>14, <1>15, <1>16, <1>17, <1>18, <1>19, <1>20,
      <1>21, <1>22, <1>23
  DEF Next, Step

-----------------------------------------------------------------------------
(* Values and guards. *)

(* Registers not touched since a successful write hold its value, and a    *)
(* value that is being sent has passed its guard.                          *)
LEMMA ValueStep == DataOK /\ ValueInv /\ [Next]_vars => ValueInv'
<1> SUFFICES ASSUME DataOK, ValueInv, [Next]_vars PROVE ValueInv'
  OBVIOUS
<1> USE DEF linkVars, writeVars, fileVars
<1>1. CASE PortChanges
  BY <1>1 DEF PortChanges, ValueInv
<1>2. CASE LiftChanges
  BY <1>2 DEF LiftChanges, ValueInv
<1>3. CASE Close
  BY <1>3 DEF Close, ValueInv
<1>4. CASE CallRead
  BY <1>4 DEF CallRead, Enter, Return, ValueInv
<1>5. ASSUME NEW p \in Params, NEW w \in Spellings, NEW t \in Texts,
             CallWrite(p, w, t)
     PROVE  ValueInv'
  BY <1>5 DEF CallWrite, Enter, Return, ValueInv
<1>6. CASE CallLog
  BY <1>6 DEF CallLog, Enter, Return, NoParameter, ValueInv
<1>7. CASE CallUpgrade
  BY <1>7 DEF CallUpgrade, Enter, Return, NoParameter, ValueInv
<1>8. CASE ReadAnswered
  BY <1>8 DEF ReadAnswered, Return, ValueInv
<1>9. CASE ReadUnanswered
  BY <1>9 DEF ReadUnanswered, Return, ValueInv
<1>10. CASE WriteInvalid
  BY <1>10 DEF WriteInvalid, Return, ValueInv
<1>11. CASE GuardFails
  BY <1>11 DEF GuardFails, Return, LooksAgain, ValueInv
<1>12. ASSUME NEW v \in LiftValues, Guard(v)
     PROVE  ValueInv'
  <2>1. CASE LockChecked(v)
    BY <1>12, <2>1 DEF Guard, LockChecked, Return, ValueInv
  <2>2. CASE SpeedChecked(v)
    <3>1. pc' = "write" => text.form = "dec" /\ text.v \in MIN_SPEED..MAX_SPEED
      BY <1>12, <2>2 DEF Guard, SpeedChecked, Return, DataOK
    <3>2. pc' = "write" => Parse(text) \in MIN_SPEED..MAX_SPEED
      BY <3>1 DEF Parse
    <3> QED BY <1>12, <2>2, <3>2 DEF Guard, SpeedChecked, Return, ValueInv
  <2>3. CASE ResetShifted(v)
    BY <1>12, <2>3 DEF Guard, ResetShifted, Return, ValueInv
  <2> QED BY <1>12, <2>1, <2>2, <2>3 DEF Guard
<1>13. CASE WriteAcked
  <2>1. Decode(Pack(Parse(text))) = Parse(text)
    BY <1>13, ParseType, RoundTrip DEF DataOK, WriteAcked, CanSend
  <2> QED BY <1>13, <2>1 DEF WriteAcked, Return, ValueInv
<1>14. CASE WriteUnacked
  BY <1>14 DEF WriteUnacked, Return, CanSend, ValueInv
<1>15. CASE LogRefused
  BY <1>15 DEF LogRefused, Return, ValueInv
<1>16. CASE LogRecord
  BY <1>16 DEF LogRecord, LcmRecord, Plausible, ValueInv
<1>17. CASE LogError
  BY <1>17 DEF LogError, LcmRecord, Return, ValueInv
<1>18. CASE LogSaved
  BY <1>18 DEF LogSaved, Return, LooksAgain, ValueInv
<1>19. CASE LogSaveFails
  BY <1>19 DEF LogSaveFails, Return, LooksAgain, ValueInv
<1>20. CASE UpgradeRefused
  BY <1>20 DEF UpgradeRefused, Return, ValueInv
<1>21. CASE RecordAcked
  BY <1>21 DEF RecordAcked, Return, ValueInv
<1>22. CASE RecordUnacked
  BY <1>22 DEF RecordUnacked, Return, ValueInv
<1>23. CASE UNCHANGED vars
  BY <1>23 DEF vars, ValueInv
<1> QED
  BY <1>1, <1>2, <1>3, <1>4, <1>5, <1>6, <1>7, <1>8, <1>9, <1>10, <1>11,
      <1>12, <1>13, <1>14, <1>15, <1>16, <1>17, <1>18, <1>19, <1>20,
      <1>21, <1>22, <1>23
  DEF Next, Step

(* What is read back after a successful write is what was written. *)
LEMMA AgreeStep ==
    DataOK /\ CallInv /\ ValueInv /\ WriteReadAgree /\ [Next]_vars => WriteReadAgree'
<1> SUFFICES ASSUME DataOK, CallInv, ValueInv, WriteReadAgree, [Next]_vars
             PROVE  WriteReadAgree'
  OBVIOUS
<1> USE DEF CallInv, ValueInv
<1> USE DEF linkVars, writeVars, fileVars
<1>1. CASE PortChanges
  BY <1>1 DEF PortChanges, WriteReadAgree
<1>2. CASE LiftChanges
  BY <1>2 DEF LiftChanges, WriteReadAgree
<1>3. CASE Close
  BY <1>3 DEF Close, WriteReadAgree
<1>4. CASE CallRead
  BY <1>4 DEF CallRead, Enter, Return, WriteReadAgree
<1>5. ASSUME NEW p \in Params, NEW w \in Spellings, NEW t \in Texts,
             CallWrite(p, w, t)
     PROVE  WriteReadAgree'
  BY <1>5 DEF CallWrite, Enter, Return, WriteReadAgree
<1>6. CASE CallLog
  BY <1>6 DEF CallLog, Enter, Return, NoParameter, WriteReadAgree
<1>7. CASE CallUpgrade
  BY <1>7 DEF CallUpgrade, Enter, Return, NoParameter, WriteReadAgree
<1>8. CASE ReadAnswered
  BY <1>8 DEF ReadAnswered, Return, WriteReadAgree
<1>9. CASE ReadUnanswered
  BY <1>9 DEF ReadUnanswered, Return, WriteReadAgree
<1>10. CASE WriteInvalid
  BY <1>10 DEF WriteInvalid, Return, WriteReadAgree
<1>11. CASE GuardFails
  BY <1>11 DEF GuardFails, Return, LooksAgain, WriteReadAgree
<1>12. ASSUME NEW v \in LiftValues, Guard(v)
     PROVE  WriteReadAgree'
  BY <1>12 DEF Guard, LockChecked, SpeedChecked, ResetShifted, Return, WriteReadAgree
<1>13. CASE WriteAcked
  BY <1>13 DEF WriteAcked, Return, CanSend, WriteReadAgree
<1>14. CASE WriteUnacked
  BY <1>14 DEF WriteUnacked, Return, CanSend, WriteReadAgree
<1>15. CASE LogRefused
  BY <1>15 DEF LogRefused, Return, WriteReadAgree
<1>16. CASE LogRecord
  BY <1>16 DEF LogRecord, LcmRecord, Plausible, WriteReadAgree
<1>17. CASE LogError
  BY <1>17 DEF LogError, LcmRecord, Return, WriteReadAgree
<1>18. CASE LogSaved
  BY <1>18 DEF LogSaved, Return, LooksAgain, WriteReadAgree
<1>19. CASE LogSaveFails
  BY <1>19 DEF LogSaveFails, Return, LooksAgain, WriteReadAgree
<1>20. CASE UpgradeRefused
  BY <1>20 DEF UpgradeRefused, Return, WriteReadAgree
<1>21. CASE RecordAcked
  BY <1>21 DEF RecordAcked, Return, WriteReadAgree
<1>22. CASE RecordUnacked
  BY <1>22 DEF RecordUnacked, Return, WriteReadAgree
<1>23. CASE UNCHANGED vars
  BY <1>23 DEF vars, WriteReadAgree
<1> QED
  BY <1>1, <1>2, <1>3, <1>4, <1>5, <1>6, <1>7, <1>8, <1>9, <1>10, <1>11,
      <1>12, <1>13, <1>14, <1>15, <1>16, <1>17, <1>18, <1>19, <1>20,
      <1>21, <1>22, <1>23
  DEF Next, Step

(* Only the hexadecimal speed and the fire floor of 0 raise. *)
LEMMA RaisesStep == CallInv /\ RaisesKnown /\ [Next]_vars => RaisesKnown'
<1> SUFFICES ASSUME CallInv, RaisesKnown, [Next]_vars PROVE RaisesKnown'
  OBVIOUS
<1> USE DEF CallInv
<1> USE DEF linkVars, writeVars, fileVars
<1>1. CASE PortChanges
  BY <1>1 DEF PortChanges, RaisesKnown
<1>2. CASE LiftChanges
  BY <1>2 DEF LiftChanges, RaisesKnown
<1>3. CASE Close
  BY <1>3 DEF Close, RaisesKnown
<1>4. CASE CallRead
  BY <1>4 DEF CallRead, Enter, Return, RaisesKnown
<1>5. ASSUME NEW p \in Params, NEW w \in Spellings, NEW t \in Texts,
             CallWrite(p, w, t)
     PROVE  RaisesKnown'
  BY <1>5 DEF CallWrite, Enter, Return, RaisesKnown
<1>6. CASE CallLog
  BY <1>6 DEF CallLog, Enter, Return, NoParameter, RaisesKnown
<1>7. CASE CallUpgrade
  BY <1>7 DEF CallUpgrade, Enter, Return, NoParameter, RaisesKnown
<1>8. CASE ReadAnswered
  BY <1>8 DEF ReadAnswered, Return, RaisesKnown
<1>9. CASE ReadUnanswered
  BY <1>9 DEF ReadUnanswered, Return, RaisesKnown
<1>10. CASE WriteInvalid
  BY <1>10 DEF WriteInvalid, Return, RaisesKnown
<1>11. CASE GuardFails
  BY <1>11 DEF GuardFails, Return, LooksAgain, RaisesKnown
<1>12. ASSUME NEW v \in LiftValues, Guard(v)
     PROVE  RaisesKnown'
  BY <1>12 DEF Guard, LockChecked, SpeedChecked, ResetShifted, Return, RaisesKnown
<1>13. CASE WriteAcked
  BY <1>13 DEF WriteAcked, Return, CanSend, RaisesKnown
<1>14. CASE WriteUnacked
  BY <1>14 DEF WriteUnacked, Return, CanSend, RaisesKnown
<1>15. CASE LogRefused
  BY <1>15 DEF LogRefused, Return, RaisesKnown
<1>16. CASE LogRecord
  BY <1>16 DEF LogRecord, LcmRecord, Plausible, RaisesKnown
<1>17. CASE LogError
  BY <1>17 DEF LogError, LcmRecord, Return, RaisesKnown
<1>18. CASE LogSaved
  BY <1>18 DEF LogSaved, Return, LooksAgain, RaisesKnown
<1>19. CASE LogSaveFails
  BY <1>19 DEF LogSaveFails, Return, LooksAgain, RaisesKnown
<1>20. CASE UpgradeRefused
  BY <1>20 DEF UpgradeRefused, Return, RaisesKnown
<1>21. CASE RecordAcked
  BY <1>21 DEF RecordAcked, Return, RaisesKnown
<1>22. CASE RecordUnacked
  BY <1>22 DEF RecordUnacked, Return, RaisesKnown
<1>23. CASE UNCHANGED vars
  BY <1>23 DEF vars, RaisesKnown
<1> QED
  BY <1>1, <1>2, <1>3, <1>4, <1>5, <1>6, <1>7, <1>8, <1>9, <1>10, <1>11,
      <1>12, <1>13, <1>14, <1>15, <1>16, <1>17, <1>18, <1>19, <1>20,
      <1>21, <1>22, <1>23
  DEF Next, Step

(* No call opens a client that has been closed. *)
LEMMA ClosedStep == ClosedInv /\ [Next]_vars => ClosedInv' /\ (closed => closed' /\ client' = "none")
<1> SUFFICES ASSUME ClosedInv, [Next]_vars
             PROVE  ClosedInv' /\ (closed => closed' /\ client' = "none")
  OBVIOUS
<1> USE DEF linkVars, writeVars, fileVars
<1>1. CASE PortChanges
  BY <1>1 DEF PortChanges, ClosedInv
<1>2. CASE LiftChanges
  BY <1>2 DEF LiftChanges, ClosedInv
<1>3. CASE Close
  BY <1>3 DEF Close, ClosedInv
<1>4. CASE CallRead
  BY <1>4 DEF CallRead, Enter, Return, ClosedInv
<1>5. ASSUME NEW p \in Params, NEW w \in Spellings, NEW t \in Texts,
             CallWrite(p, w, t)
     PROVE  ClosedInv' /\ (closed => closed' /\ client' = "none")
  BY <1>5 DEF CallWrite, Enter, Return, ClosedInv
<1>6. CASE CallLog
  BY <1>6 DEF CallLog, Enter, Return, NoParameter, ClosedInv
<1>7. CASE CallUpgrade
  BY <1>7 DEF CallUpgrade, Enter, Return, NoParameter, ClosedInv
<1>8. CASE ReadAnswered
  BY <1>8 DEF ReadAnswered, Return, ClosedInv
<1>9. CASE ReadUnanswered
  BY <1>9 DEF ReadUnanswered, Return, ClosedInv
<1>10. CASE WriteInvalid
  BY <1>10 DEF WriteInvalid, Return, ClosedInv
<1>11. CASE GuardFails
  BY <1>11 DEF GuardFails, Return, LooksAgain, ClosedInv
<1>12. ASSUME NEW v \in LiftValues, Guard(v)
     PROVE  ClosedInv' /\ (closed => closed' /\ client' = "none")
  BY <1>12 DEF Guard, LockChecked, SpeedChecked, ResetShifted, Return, ClosedInv
<1>13. CASE WriteAcked
  BY <1>13 DEF WriteAcked, Return, CanSend, ClosedInv
<1>14. CASE WriteUnacked
  BY <1>14 DEF WriteUnacked, Return, CanSend, ClosedInv
<1>15. CASE LogRefused
  BY <1>15 DEF LogRefused, Return, ClosedInv
<1>16. CASE LogRecord
  BY <1>16 DEF LogRecord, LcmRecord, Plausible, ClosedInv
<1>17. CASE LogError
  BY <1>17 DEF LogError, LcmRecord, Return, ClosedInv
<1>18. CASE LogSaved
  BY <1>18 DEF LogSaved, Return, LooksAgain, ClosedInv
<1>19. CASE LogSaveFails
  BY <1>19 DEF LogSaveFails, Return, LooksAgain, ClosedInv
<1>20. CASE UpgradeRefused
  BY <1>20 DEF UpgradeRefused, Return, ClosedInv
<1>21. CASE RecordAcked
  BY <1>21 DEF RecordAcked, Return, ClosedInv
<1>22. CASE RecordUnacked
  BY <1>22 DEF RecordUnacked, Return, ClosedInv
<1>23. CASE UNCHANGED vars
  BY <1>23 DEF vars, ClosedInv
<1> QED
  BY <1>1, <1>2, <1>3, <1>4, <1>5, <1>6, <1>7, <1>8, <1>9, <1>10, <1>11,
      <1>12, <1>13, <1>14, <1>15, <1>16, <1>17, <1>18, <1>19, <1>20,
      <1>21, <1>22, <1>23
  DEF Next, Step

-----------------------------------------------------------------------------
(* The two file transfers. *)

(* A sequence is given by its length and its elements. *)
LEMMA SeqIsFunction ==
    ASSUME NEW s \in Seq(Int), NEW m \in Nat, Len(s) = m,
           \A i \in 1..m : s[i] = i - 1
    PROVE  s = Prefix(m)
<1>1. s \in [1..m -> Int]
  OBVIOUS
<1> QED BY <1>1 DEF Prefix

(* Appending the next record gives the next prefix. *)
LEMMA PrefixGrows ==
    ASSUME NEW n \in Nat
    PROVE  /\ Append(Prefix(n), n) = Prefix(n + 1)
           /\ Append(<<>>, 0) = Prefix(1)
<1>1. Append(Prefix(n), n) = Prefix(n + 1)
  <2>1. Prefix(n) \in Seq(Int) /\ Len(Prefix(n)) = n
    BY DEF Prefix
  <2>2. /\ Len(Append(Prefix(n), n)) = n + 1
        /\ Append(Prefix(n), n) \in Seq(Int)
    BY <2>1
  <2>3. \A i \in 1..(n + 1) : Append(Prefix(n), n)[i] = i - 1
    BY <2>1 DEF Prefix
  <2> DEFINE s == Append(Prefix(n), n)
  <2>4. s \in Seq(Int) /\ Len(s) = n + 1 /\ \A i \in 1..(n + 1) : s[i] = i - 1
    BY <2>2, <2>3
  <2> HIDE DEF s
  <2>5. s = Prefix(n + 1)
    BY <2>4, SeqIsFunction
  <2> QED BY <2>5 DEF s
<1>2. Append(<<>>, 0) = Prefix(1)
  BY DEF Prefix
<1> QED BY <1>1, <1>2

(* An error restarts the log from record 0, so what has been collected and *)
(* the LCM's position agree; what is saved is all of it.                   *)
LEMMA LogStep ==
    DataOK /\ LogInv /\ LogIntact /\ [Next]_vars => LogInv' /\ LogIntact'
<1> SUFFICES ASSUME DataOK, LogInv, LogIntact, [Next]_vars
             PROVE  LogInv' /\ LogIntact'
  OBVIOUS
<1> USE DEF linkVars, writeVars, fileVars
<1>1. CASE PortChanges
  BY <1>1 DEF PortChanges, LogInv, LogIntact
<1>2. CASE LiftChanges
  BY <1>2 DEF LiftChanges, LogInv, LogIntact
<1>3. CASE Close
  BY <1>3 DEF Close, LogInv, LogIntact
<1>4. CASE CallRead
  BY <1>4 DEF CallRead, Enter, Return, LogInv, LogIntact
<1>5. ASSUME NEW p \in Params, NEW w \in Spellings, NEW t \in Texts,
             CallWrite(p, w, t)
     PROVE  LogInv' /\ LogIntact'
  BY <1>5 DEF CallWrite, Enter, Return, LogInv, LogIntact
<1>6. CASE CallLog
  BY <1>6 DEF CallLog, Enter, Return, NoParameter, LogInv, LogIntact
<1>7. CASE CallUpgrade
  BY <1>7 DEF CallUpgrade, Enter, Return, NoParameter, LogInv, LogIntact
<1>8. CASE ReadAnswered
  BY <1>8 DEF ReadAnswered, Return, LogInv, LogIntact
<1>9. CASE ReadUnanswered
  BY <1>9 DEF ReadUnanswered, Return, LogInv, LogIntact
<1>10. CASE WriteInvalid
  BY <1>10 DEF WriteInvalid, Return, LogInv, LogIntact
<1>11. CASE GuardFails
  BY <1>11 DEF GuardFails, Return, LooksAgain, LogInv, LogIntact
<1>12. ASSUME NEW v \in LiftValues, Guard(v)
     PROVE  LogInv' /\ LogIntact'
  BY <1>12 DEF Guard, LockChecked, SpeedChecked, ResetShifted, Return, LogInv, LogIntact
<1>13. CASE WriteAcked
  BY <1>13 DEF WriteAcked, Return, CanSend, LogInv, LogIntact
<1>14. CASE WriteUnacked
  BY <1>14 DEF WriteUnacked, Return, CanSend, LogInv, LogIntact
<1>15. CASE LogRefused
  BY <1>15 DEF LogRefused, Return, LogInv, LogIntact
<1>16. CASE LogRecord
  <2>1. rec \in 0..(LOG_RECORDS - 1) /\ rec \in Nat
    BY <1>16 DEF LogRecord, LogInv
  <2>2. LcmRecord = rec
    BY <1>16, <2>1 DEF LogRecord, LogInv, LcmRecord
  <2>3. data' = Prefix(rec + 1)
    <3>1. CASE rec = 0
      BY <1>16, <2>2, <3>1, PrefixGrows DEF LogRecord
    <3>2. CASE rec # 0
      <4>1. data = Prefix(rec)
        BY <1>16, <2>1, <3>2 DEF LogRecord, LogInv
      <4>2. data' = Append(data, rec)
        BY <1>16, <2>2, <3>2 DEF LogRecord
      <4> QED BY <2>1, <4>1, <4>2, PrefixGrows
    <3> QED BY <3>1, <3>2
  <2>4. pos' = rec + 1 /\ rec' = rec + 1
    BY <1>16, <2>2 DEF LogRecord
  <2>5. LogInv'
    BY <1>16, <2>1, <2>3, <2>4 DEF LogRecord, LogInv
  <2> QED BY <1>16, <2>5 DEF LogRecord, LogIntact
<1>17. CASE LogError
  BY <1>17 DEF LogError, LcmRecord, Return, LogInv, LogIntact
<1>18. CASE LogSaved
  <2>1. saved' = Prefix(LOG_RECORDS)
    BY <1>18 DEF LogSaved, LogInv
  <2>2. LogIntact'
    BY <2>1 DEF LogIntact, Prefix
  <2> QED BY <1>18, <2>2 DEF LogSaved, Return, LogInv
<1>19. CASE LogSaveFails
  BY <1>19 DEF LogSaveFails, Return, LooksAgain, LogInv, LogIntact
<1>20. CASE UpgradeRefused
  BY <1>20 DEF UpgradeRefused, Return, LogInv, LogIntact
<1>21. CASE RecordAcked
  BY <1>21 DEF RecordAcked, Return, LogInv, LogIntact
<1>22. CASE RecordUnacked
  BY <1>22 DEF RecordUnacked, Return, LogInv, LogIntact
<1>23. CASE UNCHANGED vars
  BY <1>23 DEF vars, LogInv, LogIntact
<1> QED
  BY <1>1, <1>2, <1>3, <1>4, <1>5, <1>6, <1>7, <1>8, <1>9, <1>10, <1>11,
      <1>12, <1>13, <1>14, <1>15, <1>16, <1>17, <1>18, <1>19, <1>20,
      <1>21, <1>22, <1>23
  DEF Next, Step

(* A record is passed only when it was acknowledged, so the LCM has all    *)
(* records before the current one.                                         *)
LEMMA UpgradeStep ==
    CallInv /\ UpgradeInv /\ UpgradeWhole /\ [Next]_vars => UpgradeInv' /\ UpgradeWhole'
<1> SUFFICES ASSUME CallInv, UpgradeInv, UpgradeWhole, [Next]_vars
             PROVE  UpgradeInv' /\ UpgradeWhole'
  OBVIOUS
<1> USE DEF CallInv
<1> USE DEF linkVars, writeVars, fileVars
<1>1. CASE PortChanges
  BY <1>1 DEF PortChanges, UpgradeInv, UpgradeWhole
<1>2. CASE LiftChanges
  BY <1>2 DEF LiftChanges, UpgradeInv, UpgradeWhole
<1>3. CASE Close
  BY <1>3 DEF Close, UpgradeInv, UpgradeWhole
<1>4. CASE CallRead
  BY <1>4 DEF CallRead, Enter, Return, UpgradeInv, UpgradeWhole
<1>5. ASSUME NEW p \in Params, NEW w \in Spellings, NEW t \in Texts,
             CallWrite(p, w, t)
     PROVE  UpgradeInv' /\ UpgradeWhole'
  BY <1>5 DEF CallWrite, Enter, Return, UpgradeInv, UpgradeWhole
<1>6. CASE CallLog
  BY <1>6 DEF CallLog, Enter, Return, NoParameter, UpgradeInv, UpgradeWhole
<1>7. CASE CallUpgrade
  <2>1. image' = 0..(0 - 1) /\ 0 \in 0..UP_RECORDS
    BY <1>7 DEF CallUpgrade
  <2>2. ret' # "ok" /\ (pc' = "upgrade" => rec' = 0)
    BY <1>7 DEF CallUpgrade, Enter, Return
  <2>3. UpgradeInv'
    BY <2>1, <2>2 DEF UpgradeInv
  <2> QED BY <2>1, <2>2, <2>3 DEF UpgradeWhole
<1>8. CASE ReadAnswered
  BY <1>8 DEF ReadAnswered, Return, UpgradeInv, UpgradeWhole
<1>9. CASE ReadUnanswered
  BY <1>9 DEF ReadUnanswered, Return, UpgradeInv, UpgradeWhole
<1>10. CASE WriteInvalid
  BY <1>10 DEF WriteInvalid, Return, UpgradeInv, UpgradeWhole
<1>11. CASE GuardFails
  BY <1>11 DEF GuardFails, Return, LooksAgain, UpgradeInv, UpgradeWhole
<1>12. ASSUME NEW v \in LiftValues, Guard(v)
     PROVE  UpgradeInv' /\ UpgradeWhole'
  BY <1>12 DEF Guard, LockChecked, SpeedChecked, ResetShifted, Return, UpgradeInv, UpgradeWhole
<1>13. CASE WriteAcked
  BY <1>13 DEF WriteAcked, Return, CanSend, UpgradeInv, UpgradeWhole
<1>14. CASE WriteUnacked
  BY <1>14 DEF WriteUnacked, Return, CanSend, UpgradeInv, UpgradeWhole
<1>15. CASE LogRefused
  BY <1>15 DEF LogRefused, Return, UpgradeInv, UpgradeWhole
<1>16. CASE LogRecord
  BY <1>16 DEF LogRecord, LcmRecord, Plausible, UpgradeInv, UpgradeWhole
<1>17. CASE LogError
  BY <1>17 DEF LogError, LcmRecord, Return, UpgradeInv, UpgradeWhole
<1>18. CASE LogSaved
  BY <1>18 DEF LogSaved, Return, LooksAgain, UpgradeInv, UpgradeWhole
<1>19. CASE LogSaveFails
  BY <1>19 DEF LogSaveFails, Return, LooksAgain, UpgradeInv, UpgradeWhole
<1>20. CASE UpgradeRefused
  BY <1>20 DEF UpgradeRefused, Return, UpgradeInv, UpgradeWhole
<1>21. CASE RecordAcked
  <2>1. rec \in 0..(UP_RECORDS - 1) /\ (image = 0..(rec - 1) \/ image = 0..rec)
    BY <1>21 DEF RecordAcked, UpgradeInv
  <2>2. image' = 0..((rec + 1) - 1) /\ rec + 1 \in 0..UP_RECORDS /\ rec' = rec + 1
    BY <1>21, <2>1 DEF RecordAcked
  <2>3. pc' = "upgrade" \/ rec' = UP_RECORDS
    BY <1>21 DEF RecordAcked
  <2>4. UpgradeInv'
    BY <1>21, <2>2, <2>3 DEF RecordAcked, Return, UpgradeInv
  <2>5. op' = "upgrade" /\ ret' = "ok" => image' = 0..(UP_RECORDS - 1)
    BY <1>21, <2>2 DEF RecordAcked, Return
  <2> QED BY <2>2, <2>4, <2>5 DEF UpgradeWhole
<1>22. CASE RecordUnacked
  <2>1. rec \in 0..(UP_RECORDS - 1) /\ (image = 0..(rec - 1) \/ image = 0..rec)
    BY <1>22 DEF RecordUnacked, UpgradeInv
  <2>2. /\ (rec + 1) - 1 = rec
        /\ 0..(rec - 1) \cup {rec} = 0..rec /\ 0..rec \cup {rec} = 0..rec
        /\ rec \in 0..UP_RECORDS /\ rec + 1 \in 0..UP_RECORDS
    BY <2>1
  <2>3. image' = 0..(rec - 1) \/ image' = 0..((rec + 1) - 1)
    BY <1>22, <2>1, <2>2 DEF RecordUnacked
  <2>4. UpgradeInv' /\ ret' # "ok"
    BY <1>22, <2>1, <2>2, <2>3 DEF RecordUnacked, Return, UpgradeInv
  <2> QED BY <2>2, <2>3, <2>4 DEF UpgradeWhole
<1>23. CASE UNCHANGED vars
  BY <1>23 DEF vars, UpgradeInv, UpgradeWhole
<1> QED
  BY <1>1, <1>2, <1>3, <1>4, <1>5, <1>6, <1>7, <1>8, <1>9, <1>10, <1>11,
      <1>12, <1>13, <1>14, <1>15, <1>16, <1>17, <1>18, <1>19, <1>20,
      <1>21, <1>22, <1>23
  DEF Next, Step

-----------------------------------------------------------------------------
(* All of it together. *)
IInv ==
    /\ FlagsOK /\ DataOK /\ CallInv /\ ClosedInv
    /\ ValueInv /\ WriteReadAgree /\ RaisesKnown
    /\ LogInv /\ LogIntact /\ UpgradeInv /\ UpgradeWhole

(* The handler starts without a call. *)
LEMMA InitIInv == Init => IInv
<1> SUFFICES ASSUME Init PROVE IInv
  OBVIOUS
<1>1. FlagsOK
  BY Zenon DEF Init, FlagsOK
<1>2. NoText \in [form : {"dec", "hex", "bad"}, v : Int]
  BY DEF NoText
<1>3. DataOK
  BY <1>2 DEF Init, DataOK, Params, Spellings
<1>4. CallInv /\ ClosedInv /\ ValueInv /\ WriteReadAgree /\ RaisesKnown
  BY DEF Init, CallInv, ClosedInv, ValueInv, WriteReadAgree, RaisesKnown
<1>5. LogInv /\ LogIntact /\ UpgradeInv
  BY DEF Init, LogInv, LogIntact, UpgradeInv
<1>6. UpgradeWhole
  <2>1. image = 0..(0 - 1) /\ 0 \in 0..UP_RECORDS
    BY DEF Init
  <2> QED BY <2>1 DEF Init, UpgradeWhole
<1> QED BY <1>1, <1>3, <1>4, <1>5, <1>6 DEF IInv

(* The parts of the invariant are kept together. *)
LEMMA NextIInv == IInv /\ [Next]_vars => IInv'
  BY FlagsStep, DataStep, CallStep, ClosedStep, ValueStep, AgreeStep, RaisesStep,
     LogStep, UpgradeStep DEF IInv

(* They hold in every state. *)
LEMMA Inductive == Spec => []IInv
  BY InitIInv, NextIInv, PTL DEF Spec

(* The handler's state stays in range, whatever the width of a register:   *)
(* what is sent fits the registers and the file loops stay in their files. *)
THEOREM TypeCorrect == Spec => []TypeOK
<1>1. IInv => TypeOK
  BY TypeParts DEF IInv
<1> QED BY <1>1, Inductive, PTL

(* What was written and acknowledged is what is read back. *)
THEOREM ReadBack == Spec => []WriteReadAgree
<1>1. IInv => WriteReadAgree
  BY DEF IInv
<1> QED BY <1>1, Inductive, PTL

(* A write raises for the two known reasons only. *)
THEOREM OnlyKnownRaises == Spec => []RaisesKnown
<1>1. IInv => RaisesKnown
  BY DEF IInv
<1> QED BY <1>1, Inductive, PTL

(* The log that is saved is the LCM's, for every number of records. *)
THEOREM LogIsWhole == Spec => []LogIntact
<1>1. IInv => LogIntact
  BY DEF IInv
<1> QED BY <1>1, Inductive, PTL

(* The records of a package arrive in order, and all of them if the        *)
(* transfer succeeds.                                                      *)
THEOREM PackageIsWhole == Spec => []UpgradeWhole
<1>1. IInv => UpgradeWhole
  BY DEF IInv
<1> QED BY <1>1, Inductive, PTL

(* close() is terminal. *)
THEOREM ClosedStaysClosed == Spec => ClosedForGood
<1>1. IInv /\ [Next]_vars => [closed => closed' /\ client' = "none"]_vars
  BY ClosedStep DEF IInv
<1> QED BY <1>1, Inductive, PTL DEF Spec, ClosedForGood

(* What a step may put into the registers. *)
GuardsHoldStep ==
    /\ pc = "write" /\ reg' # reg /\ (errs' # errs \/ ret' # ret)
    /\ spelt = "exactly"
    => /\ par = "lock" => ~Locks(Decode(reg'), seen)
       /\ par = "speed" => Decode(reg') \in MIN_SPEED..MAX_SPEED

(* Registers change in a write only after its guard has let the value      *)
(* through, if the handler has recognised the parameter.                   *)
LEMMA SendStep == IInv /\ [Next]_vars => GuardsHoldStep
<1> SUFFICES ASSUME IInv, [Next]_vars, pc = "write", reg' # reg,
                    errs' # errs \/ ret' # ret, spelt = "exactly"
             PROVE  /\ par = "lock" => ~Locks(Decode(reg'), seen)
                    /\ par = "speed" => Decode(reg') \in MIN_SPEED..MAX_SPEED
  BY DEF GuardsHoldStep
<1>1. CanSend /\ reg' = Pack(Parse(text))
  BY DEF Next, Step, PortChanges, LiftChanges, Close, CallRead, CallWrite, CallLog,
         CallUpgrade, Enter, ReadAnswered, ReadUnanswered, WriteInvalid, GuardFails,
         Guard, WriteAcked, WriteUnacked, LogRefused, LogRecord, LogError, LogSaved,
         LogSaveFails, UpgradeRefused, RecordAcked, RecordUnacked, writeVars, vars
<1>2. Decode(reg') = Parse(text)
  BY <1>1, ParseType, RoundTrip DEF IInv, DataOK, CanSend
<1> QED BY <1>2 DEF IInv, ValueInv

(* No write that is sent, acknowledged or not, locks the reported fire     *)
(* floor or sets a speed outside the limits, provided that the parameter's *)
(* number is spelt as the handler compares it; a write that spells it      *)
(* otherwise is sent without a guard, and nothing is claimed of it.        *)
THEOREM GuardsAreKept == Spec => GuardsHold
<1>1. IInv /\ [Next]_vars => [GuardsHoldStep]_vars
  BY SendStep
<1>2. Spec => [][GuardsHoldStep]_vars
  BY <1>1, Inductive, PTL DEF Spec
<1> QED BY <1>2 DEF GuardsHold, GuardsHoldStep

-----------------------------------------------------------------------------
(* Termination: the argument behind CallsEnd. *)

(* The error counters of the loops stay below their limits. *)
LEMMA LoopStep == DataOK /\ LoopInv /\ [Next]_vars => LoopInv'
<1> SUFFICES ASSUME DataOK, LoopInv, [Next]_vars PROVE LoopInv'
  OBVIOUS
<1> USE DEF LoopInv, linkVars, writeVars, fileVars
<1>1. CASE PortChanges \/ LiftChanges \/ Close \/ UNCHANGED vars
  BY <1>1 DEF PortChanges, LiftChanges, Close, vars
<1>2. ASSUME NEW to, NEW o, Enter(to, o) PROVE LoopInv'
  BY <1>2 DEF Enter, Return
<1>3. CASE CallRead \/ CallLog \/ CallUpgrade
  BY <1>2, <1>3 DEF CallRead, CallLog, CallUpgrade
<1>4. ASSUME NEW p \in Params, NEW w \in Spellings, NEW t \in Texts,
             CallWrite(p, w, t) PROVE LoopInv'
  BY <1>2, <1>4 DEF CallWrite
<1>5. CASE ReadAnswered \/ ReadUnanswered
  BY <1>5 DEF ReadAnswered, ReadUnanswered, Return
<1>6. CASE WriteInvalid \/ GuardFails \/ \E v \in LiftValues : Guard(v)
  BY <1>6 DEF WriteInvalid, GuardFails, Guard, LockChecked, SpeedChecked,
              ResetShifted, Return
<1>7. CASE WriteAcked \/ WriteUnacked
  BY <1>7 DEF WriteAcked, WriteUnacked, Return
<1>8. CASE LogRefused \/ LogRecord \/ LogSaved \/ LogSaveFails
  BY <1>8 DEF LogRefused, LogRecord, LogSaved, LogSaveFails, Return
<1>9. CASE LogError
  BY <1>9 DEF LogError, Return
<1>10. CASE UpgradeRefused \/ RecordAcked \/ RecordUnacked
  BY <1>10 DEF UpgradeRefused, RecordAcked, RecordUnacked, Return
<1> QED
  BY <1>1, <1>3, <1>4, <1>5, <1>6, <1>7, <1>8, <1>9, <1>10 DEF Next, Step

(* Left, loop by loop, before and after a step. *)
LeftTable ==
    /\ pc = "idle" => Left = 0
    /\ pc = "save" => Left = 1
    /\ pc \in {"read", "write"} => Left = TRIES - errs
    /\ pc = "guard" => Left = TRIES + 1
    /\ pc = "log" => Left = (LOG_ERR_MAX - errs) * (LOG_RECORDS + 1) - rec
    /\ pc = "upgrade" =>
          Left = (UP_RECORDS - rec - 1) * UP_TRIES + (UP_TRIES - errs)

LEMMA LeftNow == LeftTable
  BY Zenon DEF Left, LeftTable

LEMMA LeftThen == LeftTable'
  BY Zenon DEF Left, LeftTable

(* What the provers need of a product of two numbers. *)
LEMMA Product ==
    ASSUME NEW a \in Nat, NEW b \in Nat
    PROVE  /\ a * b \in Nat
           /\ (a - 1) * b = a * b - b
           /\ a >= 1 => a * b >= b
<1>1. a * b \in Nat /\ (a - 1) * b = a * b - b
  OBVIOUS
<1>2. ASSUME a >= 1 PROVE a * b >= b
  <2>1. (a - 1) * b >= 0
    BY <1>2
  <2> QED BY <1>1, <2>1
<1> QED BY <1>1, <1>2

(* What the invariants say of the two loops over records. *)
LEMMA LogLoop ==
    ASSUME DataOK, LoopInv, LogInv, pc = "log"
    PROVE  /\ LOG_ERR_MAX - errs \in Nat /\ LOG_ERR_MAX - errs >= 1
           /\ LOG_RECORDS + 1 \in Nat /\ rec \in Nat /\ rec < LOG_RECORDS
           /\ Left = (LOG_ERR_MAX - errs) * (LOG_RECORDS + 1) - rec
  BY LeftNow DEF DataOK, LoopInv, LogInv, LeftTable

(* The same for the records of a package. *)
LEMMA UpgradeLoop ==
    ASSUME DataOK, LoopInv, UpgradeInv, pc = "upgrade"
    PROVE  /\ UP_RECORDS - rec - 1 \in Nat /\ rec \in Nat
           /\ errs \in Nat /\ errs < UP_TRIES /\ UP_TRIES \in Nat
           /\ Left = (UP_RECORDS - rec - 1) * UP_TRIES + (UP_TRIES - errs)
<1>1. rec \in 0..(UP_RECORDS - 1)
  BY DEF UpgradeInv
<1>2. Left = (UP_RECORDS - rec - 1) * UP_TRIES + (UP_TRIES - errs)
  BY LeftNow DEF LeftTable
<1> QED BY <1>1, <1>2 DEF DataOK, LoopInv

(* What is left is a number, and zero only when the call has returned. *)
LEMMA LeftType ==
    ASSUME DataOK, LoopInv, LogInv, UpgradeInv
    PROVE  /\ Left \in Nat
           /\ Left = 0 <=> pc = "idle"
<1>1. CASE pc \in {"idle", "save", "read", "write", "guard"}
  BY <1>1, LeftNow DEF LeftTable, DataOK, LoopInv
<1>2. CASE pc = "log"
  <2> DEFINE a == LOG_ERR_MAX - errs
             b == LOG_RECORDS + 1
  <2>1. /\ a \in Nat /\ a >= 1 /\ b \in Nat /\ rec \in Nat /\ rec < b
        /\ Left = a * b - rec
    BY <1>2, LogLoop
  <2> HIDE DEF a, b
  <2>2. a * b \in Nat /\ a * b >= b
    BY <2>1, Product
  <2> QED BY <1>2, <2>1, <2>2
<1>3. CASE pc = "upgrade"
  <2> DEFINE a == UP_RECORDS - rec - 1
  <2>1. /\ a \in Nat /\ errs \in Nat /\ errs < UP_TRIES
        /\ Left = a * UP_TRIES + (UP_TRIES - errs)
    BY <1>3, UpgradeLoop
  <2> HIDE DEF a
  <2>2. a * UP_TRIES \in Nat
    BY <2>1, Product
  <2> QED BY <1>3, <2>1, <2>2
<1> QED BY <1>1, <1>2, <1>3 DEF DataOK

(* A record of the log, or an error that starts it again, costs. *)
LEMMA LogCosts ==
    ASSUME DataOK, LoopInv, LogInv, LogRecord \/ LogError, pc' # "idle"
    PROVE  Left' < Left
<1> DEFINE a == LOG_ERR_MAX - errs
           b == LOG_RECORDS + 1
<1>1. /\ a \in Nat /\ a >= 1 /\ b \in Nat /\ rec \in Nat /\ rec < LOG_RECORDS
      /\ Left = a * b - rec
  BY LogLoop DEF LogRecord, LogError
<1>2. a * b \in Nat /\ (a - 1) * b = a * b - b /\ a * b >= b
  <2> HIDE DEF a, b
  <2> QED BY <1>1, Product
<1>3. CASE LogRecord /\ rec + 1 # LOG_RECORDS
  <2>1. pc' = "log" /\ errs' = errs /\ rec' = rec + 1
    BY <1>3 DEF LogRecord
  <2>2. Left' = a * b - (rec + 1)
    BY <2>1, LeftThen DEF LeftTable
  <2> HIDE DEF a, b
  <2> QED BY <1>1, <1>2, <2>2
<1>4. CASE LogRecord /\ rec + 1 = LOG_RECORDS
  <2>1. pc' = "save"
    BY <1>4 DEF LogRecord
  <2>2. Left' = 1
    BY <2>1, LeftThen DEF LeftTable
  <2>3. b = rec + 2
    BY <1>1, <1>4
  <2> HIDE DEF a, b
  <2> QED BY <1>1, <1>2, <2>2, <2>3
<1>5. CASE LogError
  <2>1. pc' = "log" /\ errs' = errs + 1 /\ rec' = 0
    BY <1>5 DEF LogError, Return
  <2>2. Left' = (LOG_ERR_MAX - (errs + 1)) * b - 0
    BY <2>1, LeftThen DEF LeftTable
  <2>3. LOG_ERR_MAX - (errs + 1) = a - 1 /\ rec < b
    BY <1>1 DEF DataOK
  <2>4. Left' = (a - 1) * b - 0
    BY <2>2, <2>3
  <2> HIDE DEF a, b
  <2> QED BY <1>1, <1>2, <2>3, <2>4
<1> QED BY <1>3, <1>4, <1>5

(* A record of an upgrade costs, acknowledged or not. *)
LEMMA RecordCosts ==
    ASSUME DataOK, LoopInv, UpgradeInv, RecordAcked \/ RecordUnacked, pc' # "idle"
    PROVE  Left' < Left
<1> DEFINE a == UP_RECORDS - rec - 1
<1>1. /\ a \in Nat /\ errs \in Nat /\ errs < UP_TRIES /\ rec \in Nat
      /\ UP_TRIES \in Nat /\ Left = a * UP_TRIES + (UP_TRIES - errs)
  BY UpgradeLoop DEF RecordAcked, RecordUnacked
<1>2. a * UP_TRIES \in Nat /\ (a - 1) * UP_TRIES = a * UP_TRIES - UP_TRIES
  <2> HIDE DEF a
  <2> QED BY <1>1, Product
<1>3. CASE RecordAcked
  <2>1. errs' = 0 /\ rec' = rec + 1 /\ pc' = "upgrade"
    BY <1>3 DEF RecordAcked, Return
  <2>2. Left' = (UP_RECORDS - (rec + 1) - 1) * UP_TRIES + (UP_TRIES - 0)
    BY <2>1, LeftThen DEF LeftTable
  <2>3. UP_RECORDS - (rec + 1) - 1 = a - 1
    BY <1>1
  <2>4. Left' = (a - 1) * UP_TRIES + (UP_TRIES - 0)
    BY <2>2, <2>3
  <2> HIDE DEF a
  <2> QED BY <1>1, <1>2, <2>4
<1>4. CASE RecordUnacked
  <2>1. errs' = errs + 1 /\ rec' = rec /\ pc' = "upgrade"
    BY <1>4 DEF RecordUnacked, Return
  <2>2. Left' = a * UP_TRIES + (UP_TRIES - (errs + 1))
    BY <2>1, LeftThen DEF LeftTable
  <2> HIDE DEF a
  <2> QED BY <1>1, <1>2, <2>2
<1> QED BY <1>3, <1>4

(* Every step of a call costs. *)
LEMMA StepCosts ==
    ASSUME DataOK, LoopInv, LogInv, UpgradeInv, Step
    PROVE  Left' < Left
<1>0. Left \in Nat /\ (Left = 0 <=> pc = "idle")
  BY LeftType
<1>1. ASSUME pc # "idle", pc' = "idle" PROVE Left' < Left
  <2>1. Left' = 0
    BY <1>1, LeftThen DEF LeftTable
  <2> QED BY <1>0, <1>1, <2>1
<1>2. CASE ReadAnswered \/ WriteInvalid \/ GuardFails \/ WriteAcked
           \/ LogRefused \/ LogSaved \/ LogSaveFails \/ UpgradeRefused
  BY <1>1, <1>2 DEF ReadAnswered, WriteInvalid, GuardFails, WriteAcked, LogRefused,
     LogSaved, LogSaveFails, UpgradeRefused, Return
<1>3. CASE ReadUnanswered \/ WriteUnacked
  <2>1. pc \in {"read", "write"} /\ errs' = errs + 1 /\ pc' \in {pc, "idle"}
    BY <1>3 DEF ReadUnanswered, WriteUnacked, Return
  <2> QED BY <1>1, <2>1, LeftNow, LeftThen DEF LeftTable, DataOK
<1>4. ASSUME NEW v \in LiftValues, Guard(v) PROVE Left' < Left
  <2>1. pc = "guard" /\ errs' = errs /\ pc' \in {"write", "idle"}
    BY <1>4 DEF Guard, LockChecked, SpeedChecked, ResetShifted, Return
  <2> QED BY <1>1, <2>1, LeftNow, LeftThen DEF LeftTable, DataOK, LoopInv
<1>5. CASE LogRecord \/ LogError
  <2>1. pc = "log"
    BY <1>5 DEF LogRecord, LogError
  <2> QED BY <1>1, <1>5, <2>1, LogCosts
<1>6. CASE RecordAcked \/ RecordUnacked
  <2>1. pc = "upgrade"
    BY <1>6 DEF RecordAcked, RecordUnacked
  <2> QED BY <1>1, <1>6, <2>1, RecordCosts
<1> QED BY <1>2, <1>3, <1>4, <1>5, <1>6 DEF Step

(* Nothing but the call's own steps touches what it has left. *)
LEMMA OthersAreFree ==
    ASSUME [Next]_vars, ~Step, pc # "idle"
    PROVE  Left' = Left
<1>1. UNCHANGED <<pc, errs, rec>>
  BY DEF Next, PortChanges, LiftChanges, Close, CallRead, CallWrite, CallLog,
     CallUpgrade, Enter, fileVars, vars
<1> QED BY <1>1 DEF Left

(* Something is left exactly while a call is in progress. *)
LeftOK == Left \in Nat /\ (Left = 0 <=> pc = "idle")

BudgetStep ==
    pc # "idle" => IF Step THEN Left' \in 0..(Left - 1) ELSE Left' = Left

(* read_parameter(), write_parameter(), log_generate() and                 *)
(* write_upgrade_package() cannot loop for ever, for any numbers of tries  *)
(* and records: each step of a call lowers a natural number that is zero   *)
(* exactly when no call is in progress.                                    *)
THEOREM CallsAreBounded == Spec => BudgetShrinks /\ []LeftOK
<1>1. Init => LoopInv
  BY DEF Init, LoopInv
<1>2. IInv /\ LoopInv => LeftOK
  BY LeftType DEF IInv, LeftOK
<1>3. IInv /\ LoopInv /\ LeftOK /\ LeftOK' /\ [Next]_vars => [BudgetStep]_vars
  <2> SUFFICES ASSUME IInv, LoopInv, LeftOK, LeftOK', [Next]_vars
               PROVE  BudgetStep
    OBVIOUS
  <2>1. CASE Step
    <3>1. Left' < Left
      BY <2>1, StepCosts DEF IInv
    <3> QED BY <2>1, <3>1 DEF BudgetStep, LeftOK
  <2>2. CASE ~Step
    BY <2>2, OthersAreFree DEF BudgetStep
  <2> QED BY <2>1, <2>2
<1>4. IInv /\ LoopInv /\ [Next]_vars => LoopInv'
  BY LoopStep DEF IInv
<1>5. Spec => [](IInv /\ LoopInv)
  BY <1>1, <1>4, Inductive, PTL DEF Spec
<1>6. Spec => [][BudgetStep]_vars
  BY <1>2, <1>3, <1>5, PTL DEF Spec
<1>7. [][BudgetStep]_vars => BudgetShrinks
  BY DEF BudgetShrinks, BudgetStep
<1> QED BY <1>2, <1>5, <1>6, <1>7, PTL
=============================================================================
