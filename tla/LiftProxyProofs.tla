--------------------------- MODULE LiftProxyProofs ---------------------------
(***************************************************************************)
(* Proofs about LiftProxy for any number of concurrent direct methods and  *)
(* any number of startup attempts.  IndInv is inductive: one step of       *)
(* IndStep per action, and under it the flags, the other types, the safety *)
(* invariants and the supporting ones.  The two last parts are the safety  *)
(* behind two liveness properties.                                         *)
(***************************************************************************)
EXTENDS LiftProxy, TLAPS

USE CallersAssumption, MaxAttemptsAssumption
    DEF Tasks, Handlers, Families, LiftTypes, Libs, Ops, IdentPCs, WorkPCs,
        envVars, identVars, bindVars, pollVars, cloudVars, taskVars, vars

-----------------------------------------------------------------------------
(* create() starts unbound, with both candidates alive and the Modbus      *)
(* probe the only thread.                                                  *)
LEMMA IndInit == Init => IndInv
<1>1. Init => FlagsOK
  BY Zenon DEF Init, FlagsOK
<1>2. Init => StateOK
  BY DEF Init, StateOK
<1>3. Init => Safety
  BY Zenon DEF Init, Safety, NoHalfBoundProxy, BusExclusive,
               NoClosedPortInUse, ColdStartNotLost
<1>4. Init => PcInv /\ ThreadInv /\ AttemptInv
  <2> SUFFICES ASSUME Init PROVE PcInv /\ ThreadInv /\ AttemptInv
    OBVIOUS
  <2>1. /\ pc["ident"] = "modbus" /\ bus["ident"] = "modbus"
        /\ \A t \in Tasks \ {"ident"} : pc[t] = "off" /\ bus[t] = "none"
    BY DEF Init
  <2>2. PcInv
    BY <2>1 DEF Init, PcInv
  <2>3. ThreadInv
    BY <2>1 DEF ThreadInv
  <2>4. AttemptInv
    BY DEF Init, AttemptInv
  <2>5. QED
    BY <2>2, <2>3, <2>4
<1>5. Init => IdentInv
  BY DEF Init, IdentInv, Loser
<1>6. Init => LockInv /\ SweepInv
  BY DEF Init, LockInv, InCritical, SweepInv
<1>7. QED
  BY <1>1, <1>2, <1>3, <1>4, <1>5, <1>6 DEF IndInv, TypeOK, Support

(* The invariant survives every step of every task: what a task may assume *)
(* when it resumes after an await is what IndInv says at that await.       *)
LEMMA IndStep == IndInv /\ [Next]_vars => IndInv'
<1> SUFFICES ASSUME IndInv, [Next]_vars PROVE IndInv'
  OBVIOUS
<1> USE DEF IndInv, TypeOK, Safety, Support
<1>1. ASSUME NEW on \in BOOLEAN, LiftPower(on)
      PROVE  IndInv'
  <2>1. FlagsOK'
    BY <1>1, Zenon DEF FlagsOK, LiftPower
  <2>2. StateOK'
    BY <1>1 DEF StateOK, LiftPower
  <2>3. Safety'
    BY <1>1 DEF StateOK, FlagsOK, NoHalfBoundProxy, BusExclusive,
           NoClosedPortInUse, ColdStartNotLost, PcInv, LockInv, ThreadInv,
           IdentInv, AttemptInv, SweepInv, InCritical, Loser, PairFor,
           LiftPower
  <2>4. Support'
    BY <1>1 DEF StateOK, NoHalfBoundProxy, PcInv, LockInv, ThreadInv,
           IdentInv, AttemptInv, SweepInv, InCritical, Loser, PairFor,
           LiftPower
  <2>5. QED
    BY <2>1, <2>2, <2>3, <2>4
<1>2. CASE StartRound
  <2>1. FlagsOK'
    BY <1>2, Zenon DEF FlagsOK, StartRound, Await
  <2>2. StateOK'
    BY <1>2 DEF StateOK, PcInv, ThreadInv, AttemptInv, IdentInv,
           NoHalfBoundProxy, Loser, PairFor, StartRound, Await
  <2>3. Safety'
    BY <1>2 DEF StateOK, FlagsOK, NoHalfBoundProxy, BusExclusive,
           NoClosedPortInUse, ColdStartNotLost, PcInv, LockInv, ThreadInv,
           IdentInv, AttemptInv, SweepInv, InCritical, Loser, PairFor,
           StartRound, Await
  <2>4. Support'
    BY <1>2 DEF StateOK, NoHalfBoundProxy, PcInv, LockInv, ThreadInv,
           IdentInv, AttemptInv, SweepInv, InCritical, Loser, PairFor,
           StartRound, Await
  <2>5. QED
    BY <2>1, <2>2, <2>3, <2>4
<1>3. ASSUME NEW h \in Handlers, ProbeHit(h)
      PROVE  IndInv'
  <2>1. FlagsOK'
    BY <1>3, Zenon DEF FlagsOK, ProbeHit, Await, Answers
  <2>2. StateOK'
    BY <1>3 DEF StateOK, PcInv, ThreadInv, AttemptInv, IdentInv,
           NoHalfBoundProxy, Loser, PairFor, ProbeHit, Await, Answers
  <2>3. Safety'
    BY <1>3 DEF StateOK, FlagsOK, NoHalfBoundProxy, BusExclusive,
           NoClosedPortInUse, ColdStartNotLost, PcInv, LockInv, ThreadInv,
           IdentInv, AttemptInv, SweepInv, InCritical, Loser, PairFor,
           ProbeHit, Await, Answers
  <2>4. Support'
    BY <1>3 DEF StateOK, NoHalfBoundProxy, PcInv, LockInv, ThreadInv,
           IdentInv, AttemptInv, SweepInv, InCritical, Loser, PairFor,
           ProbeHit, Await, Answers
  <2>5. QED
    BY <2>1, <2>2, <2>3, <2>4
<1>4. CASE ModbusMiss
  <2>1. FlagsOK'
    BY <1>4, Zenon DEF FlagsOK, ModbusMiss, Await
  <2>2. StateOK'
    BY <1>4 DEF StateOK, PcInv, ThreadInv, AttemptInv, IdentInv,
           NoHalfBoundProxy, Loser, PairFor, ModbusMiss, Await
  <2>3. Safety'
    BY <1>4 DEF StateOK, FlagsOK, NoHalfBoundProxy, BusExclusive,
           NoClosedPortInUse, ColdStartNotLost, PcInv, LockInv, ThreadInv,
           IdentInv, AttemptInv, SweepInv, InCritical, Loser, PairFor,
           ModbusMiss, Await
  <2>4. Support'
    BY <1>4 DEF StateOK, NoHalfBoundProxy, PcInv, LockInv, ThreadInv,
           IdentInv, AttemptInv, SweepInv, InCritical, Loser, PairFor,
           ModbusMiss, Await
  <2>5. QED
    BY <2>1, <2>2, <2>3, <2>4
<1>5. CASE Rs232Miss
  <2>1. FlagsOK'
    BY <1>5, Zenon DEF FlagsOK, Rs232Miss, Await, RoundFailed
  <2>2. StateOK'
    BY <1>5 DEF StateOK, PcInv, ThreadInv, AttemptInv, IdentInv,
           NoHalfBoundProxy, Loser, PairFor, Rs232Miss, Await, RoundFailed
  <2>3. Safety'
    BY <1>5 DEF StateOK, FlagsOK, NoHalfBoundProxy, BusExclusive,
           NoClosedPortInUse, ColdStartNotLost, PcInv, LockInv, ThreadInv,
           IdentInv, AttemptInv, SweepInv, InCritical, Loser, PairFor,
           Rs232Miss, Await, RoundFailed
  <2>4. Support'
    BY <1>5 DEF StateOK, NoHalfBoundProxy, PcInv, LockInv, ThreadInv,
           IdentInv, AttemptInv, SweepInv, InCritical, Loser, PairFor,
           Rs232Miss, Await, RoundFailed
  <2>5. QED
    BY <2>1, <2>2, <2>3, <2>4
<1>6. CASE BindAhl
  <2>1. FlagsOK'
    BY <1>6, Zenon DEF FlagsOK, BindAhl, Await
  <2>2. StateOK'
    BY <1>6 DEF StateOK, PcInv, ThreadInv, AttemptInv, IdentInv,
           NoHalfBoundProxy, Loser, PairFor, BindAhl, Await
  <2>3. Safety'
    BY <1>6 DEF StateOK, FlagsOK, NoHalfBoundProxy, BusExclusive,
           NoClosedPortInUse, ColdStartNotLost, PcInv, LockInv, ThreadInv,
           IdentInv, AttemptInv, SweepInv, InCritical, Loser, PairFor,
           BindAhl, Await
  <2>4. Support'
    BY <1>6 DEF StateOK, NoHalfBoundProxy, PcInv, LockInv, ThreadInv,
           IdentInv, AttemptInv, SweepInv, InCritical, Loser, PairFor,
           BindAhl, Await
  <2>5. QED
    BY <2>1, <2>2, <2>3, <2>4
<1>7. CASE DetectTable
  <2>1. FlagsOK'
    BY <1>7, Zenon DEF FlagsOK, DetectTable, Await, Publish, Answers
  <2>2. StateOK'
    BY <1>7 DEF StateOK, PcInv, ThreadInv, AttemptInv, IdentInv,
           NoHalfBoundProxy, Loser, PairFor, DetectTable, Await, Publish,
           Answers
  <2>3. Safety'
    BY <1>7 DEF StateOK, FlagsOK, NoHalfBoundProxy, BusExclusive,
           NoClosedPortInUse, ColdStartNotLost, PcInv, LockInv, ThreadInv,
           IdentInv, AttemptInv, SweepInv, InCritical, Loser, PairFor,
           DetectTable, Await, Publish, Answers
  <2>4. Support'
    BY <1>7 DEF StateOK, NoHalfBoundProxy, PcInv, LockInv, ThreadInv,
           IdentInv, AttemptInv, SweepInv, InCritical, Loser, PairFor,
           DetectTable, Await, Publish, Answers
  <2>5. QED
    BY <2>1, <2>2, <2>3, <2>4
<1>8. CASE DetectRaises
  <2>1. FlagsOK'
    BY <1>8, Zenon DEF FlagsOK, DetectRaises, Await, RoundFailed
  <2>2. StateOK'
    BY <1>8 DEF StateOK, PcInv, ThreadInv, AttemptInv, IdentInv,
           NoHalfBoundProxy, Loser, PairFor, DetectRaises, Await,
           RoundFailed
  <2>3. Safety'
    BY <1>8 DEF StateOK, FlagsOK, NoHalfBoundProxy, BusExclusive,
           NoClosedPortInUse, ColdStartNotLost, PcInv, LockInv, ThreadInv,
           IdentInv, AttemptInv, SweepInv, InCritical, Loser, PairFor,
           DetectRaises, Await, RoundFailed
  <2>4. Support'
    BY <1>8 DEF StateOK, NoHalfBoundProxy, PcInv, LockInv, ThreadInv,
           IdentInv, AttemptInv, SweepInv, InCritical, Loser, PairFor,
           DetectRaises, Await, RoundFailed
  <2>5. QED
    BY <2>1, <2>2, <2>3, <2>4
<1>9. CASE BindOneK
  <2>1. FlagsOK'
    BY <1>9, Zenon DEF FlagsOK, BindOneK, Await, Publish
  <2>2. StateOK'
    BY <1>9 DEF StateOK, PcInv, ThreadInv, AttemptInv, IdentInv,
           NoHalfBoundProxy, Loser, PairFor, BindOneK, Await, Publish
  <2>3. Safety'
    BY <1>9 DEF StateOK, FlagsOK, NoHalfBoundProxy, BusExclusive,
           NoClosedPortInUse, ColdStartNotLost, PcInv, LockInv, ThreadInv,
           IdentInv, AttemptInv, SweepInv, InCritical, Loser, PairFor,
           BindOneK, Await, Publish
  <2>4. Support'
    BY <1>9 DEF StateOK, NoHalfBoundProxy, PcInv, LockInv, ThreadInv,
           IdentInv, AttemptInv, SweepInv, InCritical, Loser, PairFor,
           BindOneK, Await, Publish
  <2>5. QED
    BY <2>1, <2>2, <2>3, <2>4
<1>10. CASE LoserClosed
  <2>1. FlagsOK'
    BY <1>10, Zenon DEF FlagsOK, LoserClosed, Await
  <2>2. StateOK'
    BY <1>10 DEF StateOK, PcInv, ThreadInv, AttemptInv, IdentInv,
           NoHalfBoundProxy, Loser, PairFor, LoserClosed, Await
  <2>3. Safety'
    BY <1>10 DEF StateOK, FlagsOK, NoHalfBoundProxy, BusExclusive,
           NoClosedPortInUse, ColdStartNotLost, PcInv, LockInv, ThreadInv,
           IdentInv, AttemptInv, SweepInv, InCritical, Loser, PairFor,
           LoserClosed, Await
  <2>4. Support'
    BY <1>10 DEF StateOK, NoHalfBoundProxy, PcInv, LockInv, ThreadInv,
           IdentInv, AttemptInv, SweepInv, InCritical, Loser, PairFor,
           LoserClosed, Await
  <2>5. QED
    BY <2>1, <2>2, <2>3, <2>4
<1>11. CASE StartRun
  <2>1. FlagsOK'
    BY <1>11, Zenon DEF FlagsOK, StartRun
  <2>2. StateOK'
    BY <1>11 DEF StateOK, PcInv, ThreadInv, AttemptInv, IdentInv,
           NoHalfBoundProxy, Loser, PairFor, StartRun
  <2>3. Safety'
    BY <1>11 DEF StateOK, FlagsOK, NoHalfBoundProxy, BusExclusive,
           NoClosedPortInUse, ColdStartNotLost, PcInv, LockInv, ThreadInv,
           IdentInv, AttemptInv, SweepInv, InCritical, Loser, PairFor,
           StartRun
  <2>4. Support'
    BY <1>11 DEF StateOK, NoHalfBoundProxy, PcInv, LockInv, ThreadInv,
           IdentInv, AttemptInv, SweepInv, InCritical, Loser, PairFor,
           StartRun
  <2>5. QED
    BY <2>1, <2>2, <2>3, <2>4
<1>12. ASSUME NEW d \in BOOLEAN, ReportLiftType(d)
       PROVE  IndInv'
  <2>1. FlagsOK'
    BY <1>12, Zenon DEF FlagsOK, ReportLiftType
  <2>2. StateOK'
    BY <1>12 DEF StateOK, PcInv, ThreadInv, AttemptInv, IdentInv,
           NoHalfBoundProxy, Loser, PairFor, ReportLiftType
  <2>3. Safety'
    BY <1>12 DEF StateOK, FlagsOK, NoHalfBoundProxy, BusExclusive,
           NoClosedPortInUse, ColdStartNotLost, PcInv, LockInv, ThreadInv,
           IdentInv, AttemptInv, SweepInv, InCritical, Loser, PairFor,
           ReportLiftType
  <2>4. Support'
    BY <1>12 DEF StateOK, NoHalfBoundProxy, PcInv, LockInv, ThreadInv,
           IdentInv, AttemptInv, SweepInv, InCritical, Loser, PairFor,
           ReportLiftType
  <2>5. QED
    BY <2>1, <2>2, <2>3, <2>4
<1>13. ASSUME NEW d \in BOOLEAN, OnIdentified(d)
       PROVE  IndInv'
  <2>1. FlagsOK'
    BY <1>13, Zenon DEF FlagsOK, OnIdentified, Await
  <2>2. StateOK'
    BY <1>13 DEF StateOK, PcInv, ThreadInv, AttemptInv, IdentInv,
           NoHalfBoundProxy, Loser, PairFor, OnIdentified, Await
  <2>3. Safety'
    BY <1>13 DEF StateOK, FlagsOK, NoHalfBoundProxy, BusExclusive,
           NoClosedPortInUse, ColdStartNotLost, PcInv, LockInv, ThreadInv,
           IdentInv, AttemptInv, SweepInv, InCritical, Loser, PairFor,
           OnIdentified, Await
  <2>4. Support'
    BY <1>13 DEF StateOK, NoHalfBoundProxy, PcInv, LockInv, ThreadInv,
           IdentInv, AttemptInv, SweepInv, InCritical, Loser, PairFor,
           OnIdentified, Await
  <2>5. QED
    BY <2>1, <2>2, <2>3, <2>4
<1>14. CASE PollStart
  <2>1. FlagsOK'
    BY <1>14, Zenon DEF FlagsOK, PollStart, Await
  <2>2. StateOK'
    BY <1>14 DEF StateOK, PcInv, ThreadInv, AttemptInv, IdentInv,
           NoHalfBoundProxy, Loser, PairFor, PollStart, Await
  <2>3. Safety'
    BY <1>14 DEF StateOK, FlagsOK, NoHalfBoundProxy, BusExclusive,
           NoClosedPortInUse, ColdStartNotLost, PcInv, LockInv, ThreadInv,
           IdentInv, AttemptInv, SweepInv, InCritical, Loser, PairFor,
           PollStart, Await
  <2>4. Support'
    BY <1>14 DEF StateOK, NoHalfBoundProxy, PcInv, LockInv, ThreadInv,
           IdentInv, AttemptInv, SweepInv, InCritical, Loser, PairFor,
           PollStart, Await
  <2>5. QED
    BY <2>1, <2>2, <2>3, <2>4
<1>15. CASE PollAcquire
  <2>1. FlagsOK'
    BY <1>15, Zenon DEF FlagsOK, PollAcquire, Await
  <2>2. StateOK'
    BY <1>15 DEF StateOK, PcInv, ThreadInv, AttemptInv, IdentInv,
           NoHalfBoundProxy, Loser, PairFor, PollAcquire, Await
  <2>3. Safety'
    BY <1>15 DEF StateOK, FlagsOK, NoHalfBoundProxy, BusExclusive,
           NoClosedPortInUse, ColdStartNotLost, PcInv, LockInv, ThreadInv,
           IdentInv, AttemptInv, SweepInv, InCritical, Loser, PairFor,
           PollAcquire, Await
  <2>4. Support'
    BY <1>15 DEF StateOK, NoHalfBoundProxy, PcInv, LockInv, ThreadInv,
           IdentInv, AttemptInv, SweepInv, InCritical, Loser, PairFor,
           PollAcquire, Await
  <2>5. QED
    BY <2>1, <2>2, <2>3, <2>4
<1>16. ASSUME NEW s \in BOOLEAN, PollReturns(s)
       PROVE  IndInv'
  <2>1. FlagsOK'
    BY <1>16, Zenon DEF FlagsOK, PollReturns, Await
  <2>2. StateOK'
    BY <1>16 DEF StateOK, PcInv, ThreadInv, AttemptInv, IdentInv,
           NoHalfBoundProxy, Loser, PairFor, PollReturns, Await
  <2>3. Safety'
    BY <1>16 DEF StateOK, FlagsOK, NoHalfBoundProxy, BusExclusive,
           NoClosedPortInUse, ColdStartNotLost, PcInv, LockInv, ThreadInv,
           IdentInv, AttemptInv, SweepInv, InCritical, Loser, PairFor,
           PollReturns, Await
  <2>4. Support'
    BY <1>16 DEF StateOK, NoHalfBoundProxy, PcInv, LockInv, ThreadInv,
           IdentInv, AttemptInv, SweepInv, InCritical, Loser, PairFor,
           PollReturns, Await
  <2>5. QED
    BY <2>1, <2>2, <2>3, <2>4
<1>17. CASE PollRaises
  <2>1. FlagsOK'
    BY <1>17, Zenon DEF FlagsOK, PollRaises, Await
  <2>2. StateOK'
    BY <1>17 DEF StateOK, PcInv, ThreadInv, AttemptInv, IdentInv,
           NoHalfBoundProxy, Loser, PairFor, PollRaises, Await
  <2>3. Safety'
    BY <1>17 DEF StateOK, FlagsOK, NoHalfBoundProxy, BusExclusive,
           NoClosedPortInUse, ColdStartNotLost, PcInv, LockInv, ThreadInv,
           IdentInv, AttemptInv, SweepInv, InCritical, Loser, PairFor,
           PollRaises, Await
  <2>4. Support'
    BY <1>17 DEF StateOK, NoHalfBoundProxy, PcInv, LockInv, ThreadInv,
           IdentInv, AttemptInv, SweepInv, InCritical, Loser, PairFor,
           PollRaises, Await
  <2>5. QED
    BY <2>1, <2>2, <2>3, <2>4
<1>18. CASE PollPush
  <2>1. FlagsOK'
    BY <1>18, Zenon DEF FlagsOK, PollPush, Await, Emit
  <2>2. StateOK'
    BY <1>18 DEF StateOK, PcInv, ThreadInv, AttemptInv, IdentInv,
           NoHalfBoundProxy, Loser, PairFor, PollPush, Await, Emit
  <2>3. Safety'
    BY <1>18 DEF StateOK, FlagsOK, NoHalfBoundProxy, BusExclusive,
           NoClosedPortInUse, ColdStartNotLost, PcInv, LockInv, ThreadInv,
           IdentInv, AttemptInv, SweepInv, InCritical, Loser, PairFor,
           PollPush, Await, Emit
  <2>4. Support'
    BY <1>18 DEF StateOK, NoHalfBoundProxy, PcInv, LockInv, ThreadInv,
           IdentInv, AttemptInv, SweepInv, InCritical, Loser, PairFor,
           PollPush, Await, Emit
  <2>5. QED
    BY <2>1, <2>2, <2>3, <2>4
<1>19. CASE DailyPush
  <2>1. FlagsOK'
    BY <1>19, Zenon DEF FlagsOK, DailyPush, Emit
  <2>2. StateOK'
    BY <1>19 DEF StateOK, PcInv, ThreadInv, AttemptInv, IdentInv,
           NoHalfBoundProxy, Loser, PairFor, DailyPush, Emit
  <2>3. Safety'
    BY <1>19 DEF StateOK, FlagsOK, NoHalfBoundProxy, BusExclusive,
           NoClosedPortInUse, ColdStartNotLost, PcInv, LockInv, ThreadInv,
           IdentInv, AttemptInv, SweepInv, InCritical, Loser, PairFor,
           DailyPush, Emit
  <2>4. Support'
    BY <1>19 DEF StateOK, NoHalfBoundProxy, PcInv, LockInv, ThreadInv,
           IdentInv, AttemptInv, SweepInv, InCritical, Loser, PairFor,
           DailyPush, Emit
  <2>5. QED
    BY <2>1, <2>2, <2>3, <2>4
<1>20. CASE Heartbeat
  <2>1. FlagsOK'
    BY <1>20, Zenon DEF FlagsOK, Heartbeat, Emit
  <2>2. StateOK'
    BY <1>20 DEF StateOK, PcInv, ThreadInv, AttemptInv, IdentInv,
           NoHalfBoundProxy, Loser, PairFor, Heartbeat, Emit
  <2>3. Safety'
    BY <1>20 DEF StateOK, FlagsOK, NoHalfBoundProxy, BusExclusive,
           NoClosedPortInUse, ColdStartNotLost, PcInv, LockInv, ThreadInv,
           IdentInv, AttemptInv, SweepInv, InCritical, Loser, PairFor,
           Heartbeat, Emit
  <2>4. Support'
    BY <1>20 DEF StateOK, NoHalfBoundProxy, PcInv, LockInv, ThreadInv,
           IdentInv, AttemptInv, SweepInv, InCritical, Loser, PairFor,
           Heartbeat, Emit
  <2>5. QED
    BY <2>1, <2>2, <2>3, <2>4
<1>21. ASSUME NEW c \in Callers, NEW o \in Ops, CallStart(c, o)
       PROVE  IndInv'
  <2>1. FlagsOK'
    BY <1>21, Zenon DEF FlagsOK, CallStart, Await
  <2>2. StateOK'
    BY <1>21 DEF StateOK, PcInv, ThreadInv, AttemptInv, IdentInv,
           NoHalfBoundProxy, Loser, PairFor, CallStart, Await
  <2>3. Safety'
    BY <1>21 DEF StateOK, FlagsOK, NoHalfBoundProxy, BusExclusive,
           NoClosedPortInUse, ColdStartNotLost, PcInv, LockInv, ThreadInv,
           IdentInv, AttemptInv, SweepInv, InCritical, Loser, PairFor,
           CallStart, Await
  <2>4. Support'
    BY <1>21 DEF StateOK, NoHalfBoundProxy, PcInv, LockInv, ThreadInv,
           IdentInv, AttemptInv, SweepInv, InCritical, Loser, PairFor,
           CallStart, Await
  <2>5. QED
    BY <2>1, <2>2, <2>3, <2>4
<1>22. ASSUME NEW c \in Callers, CallAcquire(c)
       PROVE  IndInv'
  <2>1. FlagsOK'
    BY <1>22, Zenon DEF FlagsOK, CallAcquire, Await
  <2>2. StateOK'
    BY <1>22 DEF StateOK, PcInv, ThreadInv, AttemptInv, IdentInv,
           NoHalfBoundProxy, Loser, PairFor, CallAcquire, Await
  <2>3. Safety'
    BY <1>22 DEF StateOK, FlagsOK, NoHalfBoundProxy, BusExclusive,
           NoClosedPortInUse, ColdStartNotLost, PcInv, LockInv, ThreadInv,
           IdentInv, AttemptInv, SweepInv, InCritical, Loser, PairFor,
           CallAcquire, Await
  <2>4. Support'
    BY <1>22 DEF StateOK, NoHalfBoundProxy, PcInv, LockInv, ThreadInv,
           IdentInv, AttemptInv, SweepInv, InCritical, Loser, PairFor,
           CallAcquire, Await
  <2>5. QED
    BY <2>1, <2>2, <2>3, <2>4
<1>23. ASSUME NEW c \in Callers, CallReadBack(c)
       PROVE  IndInv'
  <2>1. FlagsOK'
    BY <1>23, Zenon DEF FlagsOK, CallReadBack, Await
  <2>2. StateOK'
    BY <1>23 DEF StateOK, PcInv, ThreadInv, AttemptInv, IdentInv,
           NoHalfBoundProxy, Loser, PairFor, CallReadBack, Await
  <2>3. Safety'
    BY <1>23 DEF StateOK, FlagsOK, NoHalfBoundProxy, BusExclusive,
           NoClosedPortInUse, ColdStartNotLost, PcInv, LockInv, ThreadInv,
           IdentInv, AttemptInv, SweepInv, InCritical, Loser, PairFor,
           CallReadBack, Await
  <2>4. Support'
    BY <1>23 DEF StateOK, NoHalfBoundProxy, PcInv, LockInv, ThreadInv,
           IdentInv, AttemptInv, SweepInv, InCritical, Loser, PairFor,
           CallReadBack, Await
  <2>5. QED
    BY <2>1, <2>2, <2>3, <2>4
<1>24. ASSUME NEW c \in Callers, NEW ok \in BOOLEAN, CallReturns(c, ok)
       PROVE  IndInv'
  <2>1. FlagsOK'
    BY <1>24, Zenon DEF FlagsOK, CallReturns, Await
  <2>2. StateOK'
    BY <1>24 DEF StateOK, PcInv, ThreadInv, AttemptInv, IdentInv,
           NoHalfBoundProxy, Loser, PairFor, CallReturns, Await
  <2>3. Safety'
    BY <1>24 DEF StateOK, FlagsOK, NoHalfBoundProxy, BusExclusive,
           NoClosedPortInUse, ColdStartNotLost, PcInv, LockInv, ThreadInv,
           IdentInv, AttemptInv, SweepInv, InCritical, Loser, PairFor,
           CallReturns, Await
  <2>4. Support'
    BY <1>24 DEF StateOK, NoHalfBoundProxy, PcInv, LockInv, ThreadInv,
           IdentInv, AttemptInv, SweepInv, InCritical, Loser, PairFor,
           CallReturns, Await
  <2>5. QED
    BY <2>1, <2>2, <2>3, <2>4
<1>25. ASSUME NEW c \in Callers, CallPush(c)
       PROVE  IndInv'
  <2>1. FlagsOK'
    BY <1>25, Zenon DEF FlagsOK, CallPush, Await, Emit
  <2>2. StateOK'
    BY <1>25 DEF StateOK, PcInv, ThreadInv, AttemptInv, IdentInv,
           NoHalfBoundProxy, Loser, PairFor, CallPush, Await, Emit
  <2>3. Safety'
    BY <1>25 DEF StateOK, FlagsOK, NoHalfBoundProxy, BusExclusive,
           NoClosedPortInUse, ColdStartNotLost, PcInv, LockInv, ThreadInv,
           IdentInv, AttemptInv, SweepInv, InCritical, Loser, PairFor,
           CallPush, Await, Emit
  <2>4. Support'
    BY <1>25 DEF StateOK, NoHalfBoundProxy, PcInv, LockInv, ThreadInv,
           IdentInv, AttemptInv, SweepInv, InCritical, Loser, PairFor,
           CallPush, Await, Emit
  <2>5. QED
    BY <2>1, <2>2, <2>3, <2>4
<1>26. CASE Shutdown
  <2>1. FlagsOK'
    BY <1>26, Zenon DEF FlagsOK, Shutdown
  <2>2. StateOK'
    BY <1>26 DEF StateOK, PcInv, ThreadInv, AttemptInv, IdentInv,
           NoHalfBoundProxy, Loser, PairFor, Shutdown
  <2>3. Safety'
    BY <1>26 DEF StateOK, FlagsOK, NoHalfBoundProxy, BusExclusive,
           NoClosedPortInUse, ColdStartNotLost, PcInv, LockInv, ThreadInv,
           IdentInv, AttemptInv, SweepInv, InCritical, Loser, PairFor,
           Shutdown
  <2>4. Support'
    BY <1>26 DEF StateOK, NoHalfBoundProxy, PcInv, LockInv, ThreadInv,
           IdentInv, AttemptInv, SweepInv, InCritical, Loser, PairFor,
           Shutdown
  <2>5. QED
    BY <2>1, <2>2, <2>3, <2>4
<1>27. ASSUME NEW t \in Tasks, ThreadEnds(t)
       PROVE  IndInv'
  <2>1. FlagsOK'
    BY <1>27, Zenon DEF FlagsOK, ThreadEnds
  <2>2. StateOK'
    BY <1>27 DEF StateOK, PcInv, ThreadInv, AttemptInv, IdentInv,
           NoHalfBoundProxy, Loser, PairFor, ThreadEnds
  <2>3. Safety'
    BY <1>27 DEF StateOK, FlagsOK, NoHalfBoundProxy, BusExclusive,
           NoClosedPortInUse, ColdStartNotLost, PcInv, LockInv, ThreadInv,
           IdentInv, AttemptInv, SweepInv, InCritical, Loser, PairFor,
           ThreadEnds
  <2>4. Support'
    BY <1>27 DEF StateOK, NoHalfBoundProxy, PcInv, LockInv, ThreadInv,
           IdentInv, AttemptInv, SweepInv, InCritical, Loser, PairFor,
           ThreadEnds
  <2>5. QED
    BY <2>1, <2>2, <2>3, <2>4
<1>28. CASE UNCHANGED vars
  BY <1>28 DEF StateOK, FlagsOK, NoHalfBoundProxy, BusExclusive,
         NoClosedPortInUse, ColdStartNotLost, PcInv, LockInv, ThreadInv,
         IdentInv, AttemptInv, SweepInv, InCritical, Loser, PairFor
<1>29. QED
  BY <1>1, <1>2, <1>3, <1>4, <1>5, <1>6, <1>7, <1>8, <1>9, <1>10, <1>11,
         <1>12, <1>13, <1>14, <1>15, <1>16, <1>17, <1>18, <1>19, <1>20,
         <1>21, <1>22, <1>23, <1>24, <1>25, <1>26, <1>27, <1>28
     DEF Next, IdentStep, PollStep, CallStep

(* IndInv holds at every await. *)
THEOREM Invariance == Spec => []IndInv
<1>1. QED
  BY IndInit, IndStep, PTL DEF Spec

-----------------------------------------------------------------------------
(* Type correctness; in particular create() never counts past MaxAttempts. *)
THEOREM TypeCorrect == Spec => []TypeOK
<1>1. IndInv => TypeOK
  BY DEF IndInv
<1>2. QED
  BY <1>1, Invariance, PTL

(* FR-008: no failed probe, failed table detection or cancellation leaves  *)
(* a half-bound proxy, and the bound pair fits the attached lift.          *)
THEOREM NeverHalfBound == Spec => []NoHalfBoundProxy
<1>1. IndInv => NoHalfBoundProxy
  BY DEF IndInv, Safety
<1>2. QED
  BY <1>1, Invariance, PTL

(* One worker thread per serial port at any time, for any number of        *)
(* concurrent direct methods.                                              *)
THEOREM OneThreadPerBus == Spec => []BusExclusive
<1>1. IndInv => BusExclusive
  BY DEF IndInv, Safety
<1>2. QED
  BY <1>1, Invariance, PTL

(* A closed port is never used again and the bound port is never closed. *)
THEOREM ClosedPortsIdle == Spec => []NoClosedPortInUse
<1>1. IndInv => NoClosedPortInUse
  BY DEF IndInv, Safety
<1>2. QED
  BY <1>1, Invariance, PTL

(* The cold-start full read is retried until one comes back. *)
THEOREM ColdStartRetried == Spec => []ColdStartNotLost
<1>1. IndInv => ColdStartNotLost
  BY DEF IndInv, Safety
<1>2. QED
  BY <1>1, Invariance, PTL

-----------------------------------------------------------------------------
(* The proxy implements LiftBinding.  Only the publication in DetectTable  *)
(* and BindOneK is a Bind, only LoserClosed is a Release; every other step *)
(* leaves the consumers' view alone.                                       *)
THEOREM ProxyImplementsBinding == Spec => ImplementsBinding
<1> DEFINE view == <<PairFor(lift.family), <<handler, lib>>, Handlers \ closed>>
<1>1. Init => Binding!Init
  BY DEF Init, Binding!Init
<1>2. IndInv /\ [Next]_vars => [Binding!Next]_view
  <2> SUFFICES ASSUME IndInv, [Next]_vars PROVE [Binding!Next]_view
    OBVIOUS
  <2>1. CASE DetectTable
    BY <2>1 DEF IndInv, TypeOK, StateOK, Safety, Support, NoHalfBoundProxy,
       IdentInv, PairFor, DetectTable, Publish, Answers, Binding!Next,
       Binding!Bind
  <2>2. CASE BindOneK
    BY <2>2 DEF IndInv, TypeOK, StateOK, Safety, Support, NoHalfBoundProxy,
       IdentInv, PairFor, BindOneK, Publish, Binding!Next, Binding!Bind
  <2>3. CASE LoserClosed
    BY <2>3 DEF IndInv, TypeOK, StateOK, Safety, Support, NoHalfBoundProxy,
       PcInv, ThreadInv, IdentInv, Loser, PairFor, LoserClosed, Await,
       Binding!Next, Binding!Release
  <2>4. CASE \E on \in BOOLEAN : LiftPower(on)
    BY <2>4 DEF IndInv, TypeOK, StateOK, PairFor, LiftPower
  <2>5. CASE \/ UNCHANGED vars \/ StartRound \/ ModbusMiss \/ Rs232Miss
            \/ BindAhl \/ DetectRaises \/ StartRun
            \/ \E h \in Handlers : ProbeHit(h)
            \/ \E d \in BOOLEAN : ReportLiftType(d) \/ OnIdentified(d)
    BY <2>5 DEF PairFor, StartRound, ModbusMiss, Rs232Miss, BindAhl,
       DetectRaises, StartRun, ProbeHit, ReportLiftType, OnIdentified
  <2>6. CASE PollStep \/ DailyPush \/ Heartbeat
    BY <2>6 DEF PairFor, PollStep, PollStart, PollAcquire, PollReturns,
       PollRaises, PollPush, DailyPush, Heartbeat
  <2>7. CASE \E c \in Callers : CallStep(c)
    BY <2>7 DEF PairFor, CallStep, CallStart, CallAcquire, CallReadBack,
       CallReturns, CallPush
  <2>8. CASE Shutdown \/ \E t \in Tasks : ThreadEnds(t)
    BY <2>8 DEF PairFor, Shutdown, ThreadEnds
  <2>9. QED
    BY <2>1, <2>2, <2>3, <2>4, <2>5, <2>6, <2>7, <2>8 DEF Next, IdentStep
<1>3. QED
  BY <1>1, <1>2, Invariance, PTL DEF Spec, ImplementsBinding, Binding!Spec

-----------------------------------------------------------------------------
(* Renewing the tag and changing the type keep up with each other. *)
LEMMA TagStep == IndInv /\ TagInv /\ [Next]_vars => TagInv'
<1> SUFFICES ASSUME IndInv, TagInv, [Next]_vars PROVE TagInv'
  OBVIOUS
<1> USE DEF IndInv, TypeOK, StateOK, Support, PcInv, TagInv, Await, envVars, identVars,
            bindVars, pollVars, cloudVars, taskVars, Tasks
<1>1. CASE StartRound \/ (\E h \in Handlers : ProbeHit(h)) \/ ModbusMiss \/ Rs232Miss
  BY <1>1 DEF StartRound, ProbeHit, ModbusMiss, Rs232Miss, RoundFailed
<1>2. CASE BindAhl \/ DetectTable \/ DetectRaises \/ BindOneK
  BY <1>2 DEF BindAhl, DetectTable, DetectRaises, RoundFailed, BindOneK, Publish
<1>3. CASE LoserClosed \/ StartRun
  BY <1>3 DEF LoserClosed, StartRun
<1>4. CASE (\E d \in BOOLEAN : ReportLiftType(d)) \/ (\E d \in BOOLEAN : OnIdentified(d))
  BY <1>4 DEF ReportLiftType, OnIdentified
<1>5. CASE PollStep \/ DailyPush \/ Heartbeat
  BY <1>5 DEF PollStep, PollStart, PollAcquire, PollReturns, PollRaises, PollPush,
              DailyPush, Heartbeat
<1>6. CASE \E c \in Callers : CallStep(c)
  BY <1>6, CallersAssumption DEF CallStep, CallStart, CallAcquire, CallReadBack,
              CallReturns, CallPush
<1>7. CASE Shutdown \/ (\E t \in Tasks : ThreadEnds(t)) \/ (\E on \in BOOLEAN : LiftPower(on))
  BY <1>7 DEF Shutdown, ThreadEnds, LiftPower
<1>8. CASE UNCHANGED vars
  BY <1>8 DEF vars
<1> QED
  BY <1>1, <1>2, <1>3, <1>4, <1>5, <1>6, <1>7, <1>8 DEF Next, IdentStep

(* Telemetry carries the bound type, but for the time the loser is being   *)
(* closed.                                                                 *)
THEOREM TelemetryTagged == Spec => TaggedUnlessClosing
<1>1. Init => TagInv
  BY DEF Init, TagInv
<1>2. IndInv /\ TagInv /\ [Next]_vars =>
          [sent' # sent => sent'.tag = sent'.lift \/ pc["ident"] = "close"]_vars
  <2> SUFFICES ASSUME IndInv, TagInv, [Next]_vars, sent' # sent
               PROVE  sent'.tag = sent'.lift \/ pc["ident"] = "close"
    OBVIOUS
  <2>1. PollPush \/ DailyPush \/ Heartbeat \/ \E c \in Callers : CallPush(c)
    BY DEF Next, IdentStep, PollStep, CallStep, LiftPower, StartRound, ProbeHit,
           ModbusMiss, Rs232Miss, BindAhl, DetectTable, DetectRaises, BindOneK,
           LoserClosed, StartRun, ReportLiftType, OnIdentified, PollStart, PollAcquire,
           PollReturns, PollRaises, CallStart, CallAcquire, CallReadBack, CallReturns,
           Shutdown, ThreadEnds, cloudVars, vars
  <2>2. Emit
    BY <2>1 DEF PollPush, DailyPush, Heartbeat, CallPush
  <2>3. stage = "run"
    BY <2>1, CallersAssumption
       DEF PollPush, DailyPush, Heartbeat, CallPush, IndInv, TypeOK, StateOK, Support,
           PcInv, Tasks
  <2> QED BY <2>2, <2>3 DEF Emit, TagInv
<1> QED
  BY <1>1, <1>2, TagStep, Invariance, PTL DEF Spec, TaggedUnlessClosing

-----------------------------------------------------------------------------
(* The safety half of AnnouncedAndReleased: identification does not end    *)
(* before the cloud's tag and the ports are in order.                      *)

(* Past the close, in create() or in the background loop, only the bound   *)
(* port is left.                                                           *)
ClosedInv ==
    /\ pc["ident"] \in {"announce", "done"} => stage = "run" /\ closed = {Loser}
    /\ pc["ident"] \in {"created", "report"} /\ liftType # "unknown"
          => closed = {Loser}

ReleasedWhenDone ==
    pc["ident"] \in {"announce", "done"} =>
        /\ liftType = lift.family
        /\ tag = liftType
        /\ closed = Handlers \ {handler}

(* Only LoserClosed gets identification past the close, and no later step  *)
(* opens a port.                                                           *)
LEMMA ClosedStep == IndInv /\ ClosedInv /\ [Next]_vars => ClosedInv'
<1> SUFFICES ASSUME IndInv, ClosedInv, [Next]_vars PROVE ClosedInv'
  OBVIOUS
<1> USE DEF IndInv, TypeOK, StateOK, Support, PcInv, ClosedInv, Loser, Await
<1>1. CASE StartRound \/ (\E h \in Handlers : ProbeHit(h)) \/ ModbusMiss \/ Rs232Miss
  BY <1>1 DEF StartRound, ProbeHit, ModbusMiss, Rs232Miss, RoundFailed, IdentInv
<1>2. CASE BindAhl \/ DetectTable \/ DetectRaises \/ BindOneK
  BY <1>2 DEF BindAhl, DetectTable, DetectRaises, RoundFailed, BindOneK, Publish,
              IdentInv
<1>3. CASE LoserClosed
  BY <1>3 DEF LoserClosed, IdentInv, ThreadInv
<1>4. CASE StartRun
  BY <1>4 DEF StartRun
<1>5. CASE (\E d \in BOOLEAN : ReportLiftType(d)) \/ (\E d \in BOOLEAN : OnIdentified(d))
  BY <1>5 DEF ReportLiftType, OnIdentified
<1>6. CASE PollStep \/ DailyPush \/ Heartbeat
  BY <1>6 DEF PollStep, PollStart, PollAcquire, PollReturns, PollRaises, PollPush,
              DailyPush, Heartbeat
<1>7. CASE \E c \in Callers : CallStep(c)
  BY <1>7 DEF CallStep, CallStart, CallAcquire, CallReadBack, CallReturns, CallPush
<1>8. CASE Shutdown \/ (\E t \in Tasks : ThreadEnds(t)) \/ (\E on \in BOOLEAN : LiftPower(on))
  BY <1>8 DEF Shutdown, ThreadEnds, LiftPower
<1>9. CASE UNCHANGED vars
  BY <1>9
<1> QED
  BY <1>1, <1>2, <1>3, <1>4, <1>5, <1>6, <1>7, <1>8, <1>9 DEF Next, IdentStep

(* FR-006, FR-007: when the identification task has nothing left to do but *)
(* report, or has ended, the telemetry tag is the bound type, that type is *)
(* the attached lift's, and exactly the other port has been closed;        *)
(* whether the lift was found by create() or by the background loop.       *)
THEOREM DoneIsReleased == Spec => []ReleasedWhenDone
<1>1. Init => ClosedInv /\ TagInv
  BY DEF Init, ClosedInv, TagInv
<1>2. IndInv /\ ClosedInv /\ TagInv => ReleasedWhenDone
  BY DEF IndInv, TypeOK, StateOK, Safety, Support, NoHalfBoundProxy, PairFor,
         IdentInv, ClosedInv, TagInv, ReleasedWhenDone, Loser
<1> QED
  BY <1>1, <1>2, ClosedStep, TagStep, Invariance, PTL DEF Spec

-----------------------------------------------------------------------------
(* The argument behind CallsReturn, apart from fairness: who holds the     *)
(* lock never waits for it, gives it up after at most two awaits, and who  *)
(* has asked for it only ever moves on.                                    *)

HolderWorks ==
    lock # "free" => lock \in Tasks /\ pc[lock] \in {"detect", "bus", "readBack"}

HandOver ==
    lock # "free" =>
        /\ lock' \in {lock, "free"}
        /\ \/ lock' = "free"
           \/ pc'[lock] = pc[lock]
           \/ pc[lock] = "bus" /\ pc'[lock] = "readBack"

Ahead(p) == CASE p = "lock" -> 4 [] p = "bus" -> 3 [] p = "readBack" -> 2
              [] p = "push" -> 1 [] OTHER -> 0

CallAdvances ==
    \A c \in Callers :
        pc[c] \in {"lock", "bus", "readBack", "push"} =>
            pc'[c] = pc[c] \/ Ahead(pc'[c]) < Ahead(pc[c])

(* Ahead, await by await. *)
LEMMA AheadTable ==
    /\ Ahead("lock") = 4 /\ Ahead("bus") = 3 /\ Ahead("readBack") = 2
    /\ Ahead("push") = 1 /\ Ahead("idle") = 0 /\ Ahead("cancelled") = 0
  BY DEF Ahead

(* No step takes the lock from a task that holds it, and the holder's own  *)
(* steps release it or go from the write to the read-back.                 *)
LEMMA LockStep == IndInv /\ [Next]_vars => HandOver
<1> SUFFICES ASSUME IndInv, [Next]_vars PROVE HandOver
  OBVIOUS
<1> USE DEF IndInv, TypeOK, StateOK, Support, LockInv, InCritical, PcInv, HandOver, Await
<1>1. CASE StartRound \/ (\E h \in Handlers : ProbeHit(h)) \/ ModbusMiss \/ Rs232Miss
  BY <1>1 DEF StartRound, ProbeHit, ModbusMiss, Rs232Miss, RoundFailed
<1>2. CASE BindAhl \/ DetectTable \/ DetectRaises \/ BindOneK
  BY <1>2 DEF BindAhl, DetectTable, DetectRaises, RoundFailed, BindOneK, Publish
<1>3. CASE LoserClosed \/ StartRun
  BY <1>3 DEF LoserClosed, StartRun
<1>4. CASE (\E d \in BOOLEAN : ReportLiftType(d)) \/ (\E d \in BOOLEAN : OnIdentified(d))
  BY <1>4 DEF ReportLiftType, OnIdentified
<1>5. CASE PollStep \/ DailyPush \/ Heartbeat
  BY <1>5 DEF PollStep, PollStart, PollAcquire, PollReturns, PollRaises, PollPush,
              DailyPush, Heartbeat
<1>6. CASE \E c \in Callers : CallStep(c)
  BY <1>6 DEF CallStep, CallStart, CallAcquire, CallReadBack, CallReturns, CallPush
<1>7. CASE Shutdown \/ (\E t \in Tasks : ThreadEnds(t)) \/ (\E on \in BOOLEAN : LiftPower(on))
  BY <1>7 DEF Shutdown, ThreadEnds, LiftPower
<1>8. CASE UNCHANGED vars
  BY <1>8
<1> QED
  BY <1>1, <1>2, <1>3, <1>4, <1>5, <1>6, <1>7, <1>8 DEF Next, IdentStep

(* A direct method that has asked for the bus only moves towards its end,  *)
(* whatever the other tasks do; a shutdown ends it.                        *)
LEMMA CallStepAdvances == IndInv /\ [Next]_vars => CallAdvances
<1> SUFFICES ASSUME IndInv, [Next]_vars,
                    NEW c \in Callers,
                    pc[c] \in {"lock", "bus", "readBack", "push"}
             PROVE  pc'[c] = pc[c] \/ Ahead(pc'[c]) < Ahead(pc[c])
  BY DEF CallAdvances
<1>0. \A t \in Tasks : \A p, h : Await(t, p, h) => pc'[c] = IF t = c THEN p ELSE pc[c]
  BY DEF IndInv, TypeOK, StateOK, Await
<1>a. \A p, h : Await("ident", p, h) => pc'[c] = pc[c]
  BY <1>0
<1> USE AheadTable DEF IndInv, TypeOK, StateOK, Support, PcInv
<1>1. CASE StartRound \/ (\E h \in Handlers : ProbeHit(h)) \/ ModbusMiss \/ Rs232Miss
  BY <1>1, <1>a DEF StartRound, ProbeHit, ModbusMiss, Rs232Miss, RoundFailed
<1>2. CASE BindAhl \/ DetectTable \/ DetectRaises \/ BindOneK
  BY <1>2, <1>a DEF BindAhl, DetectTable, DetectRaises, RoundFailed, BindOneK, Publish
<1>3. CASE LoserClosed \/ StartRun
  BY <1>3, <1>a DEF LoserClosed, StartRun
<1>4. CASE (\E d \in BOOLEAN : ReportLiftType(d)) \/ (\E d \in BOOLEAN : OnIdentified(d))
  BY <1>4, <1>a DEF ReportLiftType, OnIdentified
<1>5. CASE PollStep \/ DailyPush \/ Heartbeat
  BY <1>5, <1>0 DEF PollStep, PollStart, PollAcquire, PollReturns, PollRaises, PollPush,
              DailyPush, Heartbeat, taskVars
<1>6. ASSUME NEW d \in Callers, CallStep(d)
      PROVE  pc'[c] = pc[c] \/ Ahead(pc'[c]) < Ahead(pc[c])
  <2>0. \A p, h : Await(d, p, h) => pc'[c] = IF d = c THEN p ELSE pc[c]
    BY <1>0
  <2>a. \E p, h : Await(d, p, h)
    BY <1>6, Zenon DEF CallStep, CallStart, CallAcquire, CallReadBack, CallReturns,
       CallPush
  <2>1. CASE d # c
    BY <2>0, <2>a, <2>1
  <2>2. CASE d = c /\ (CallAcquire(d) \/ CallReadBack(d) \/ CallPush(d))
    <3>1. \/ pc[c] = "lock" /\ pc'[c] = "bus"
          \/ pc[c] = "bus" /\ pc'[c] = "readBack"
          \/ pc[c] = "push" /\ pc'[c] = "idle"
      BY <2>0, <2>2 DEF CallAcquire, CallReadBack, CallPush
    <3> QED
      BY <3>1
  <2>3. ASSUME d = c, NEW ok \in BOOLEAN, CallReturns(d, ok)
        PROVE  Ahead(pc'[c]) < Ahead(pc[c])
    <3>1. pc[c] \in {"bus", "readBack"} /\ pc'[c] \in {"push", "idle"}
      BY <2>3, <2>0 DEF CallReturns
    <3> QED
      BY <3>1
  <2>4. \A o \in Ops : d = c => ~CallStart(d, o)
    BY DEF CallStart
  <2> QED
    BY <2>1, <2>2, <2>3, <2>4, <1>6 DEF CallStep
<1>7. CASE Shutdown \/ (\E t \in Tasks : ThreadEnds(t)) \/ (\E on \in BOOLEAN : LiftPower(on))
  BY <1>7 DEF Shutdown, ThreadEnds, LiftPower, taskVars
<1>8. CASE UNCHANGED vars
  BY <1>8
<1> QED
  BY <1>1, <1>2, <1>3, <1>4, <1>5, <1>6, <1>7, <1>8 DEF Next, IdentStep

(* There is no deadlock on _handler_lock for any number of direct methods: *)
(* its holder is inside a bus transaction and never waits for it, keeps it *)
(* until it releases it itself (or is cancelled), after two awaits at      *)
(* most, and a call that has asked for the bus never falls back.           *)
THEOREM LockIsPassedOn ==
    Spec => []HolderWorks /\ [][HandOver /\ CallAdvances]_vars
<1>1. IndInv => HolderWorks
  BY DEF IndInv, TypeOK, StateOK, Support, LockInv, InCritical, HolderWorks
<1>2. IndInv /\ [Next]_vars => [HandOver /\ CallAdvances]_vars
  BY LockStep, CallStepAdvances
<1> QED
  BY <1>1, <1>2, Invariance, PTL DEF Spec
=============================================================================
