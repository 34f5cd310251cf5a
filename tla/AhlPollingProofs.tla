--------------------------- MODULE AhlPollingProofs ---------------------------
(***************************************************************************)
(* Proofs about AhlPolling for every polling table, value set, push list,  *)
(* set of faults and number of changes.                                    *)
(***************************************************************************)
EXTENDS AhlPolling, FiniteSetTheorems, TLAPS

AnnouncedInv == TypeOK /\ Bookkeeping /\ AnnouncedCurrent

FollowInv == StaleIsPending /\ ColdStartComplete /\ SweepCovers

(* The type of everything but the flag, which SMT and Zenon share out. *)
DataOK ==
    /\ lcm \in [Params -> Values]
    /\ flags \in SUBSET Groups
    /\ cache \in [Params -> Values \cup {NotSet}]
    /\ step \in {"idle", "sweep", "readBack"}
    /\ todo \in SUBSET Params
    /\ changed \in SUBSET Params
    /\ target \in Params \cup {NotSet}
    /\ announced \in [Params -> Values \cup {NotSet}]
    /\ changes \in 0..MaxChanges
    /\ missed \in SUBSET Params

-----------------------------------------------------------------------------
(* The initial states satisfy both invariants: nothing is cached, nothing  *)
(* was announced, and the full read is pending.                            *)
LEMMA InitOK == Init => AnnouncedInv /\ FollowInv
<1> SUFFICES ASSUME Init PROVE AnnouncedInv /\ FollowInv
  OBVIOUS
<1>1. DataOK
  BY MaxChangesAssumption DEF Init, DataOK
<1>2. force \in BOOLEAN
  BY Zenon DEF Init
<1>3. TypeOK
  BY <1>1, <1>2, Zenon DEF TypeOK, DataOK
<1>4. Bookkeeping /\ AnnouncedCurrent
  BY PushListAssumption DEF Init, Bookkeeping, AnnouncedCurrent
<1>5. FollowInv
  BY DEF Init, FollowInv, StaleIsPending, Stale, Pending, ColdStartComplete,
         SweepCovers
<1> QED
  BY <1>3, <1>4, <1>5 DEF AnnouncedInv

(* Every step of poller, writer and LCM keeps types, bookkeeping and what  *)
(* the cloud was told, under every fault.                                  *)
LEMMA AnnouncedStep == AnnouncedInv /\ [Next]_vars => AnnouncedInv'
<1> SUFFICES ASSUME AnnouncedInv, [Next]_vars PROVE AnnouncedInv'
  OBVIOUS
<1> USE MaxChangesAssumption, TableAssumption, PushListAssumption,
        NotSetAssumption
<1>0. DataOK
  BY DEF AnnouncedInv, TypeOK, DataOK
<1>1. force' \in BOOLEAN
  <2>1. force \in BOOLEAN
    BY DEF AnnouncedInv, TypeOK
  <2>2. force' = force \/ force' = FALSE
    BY DEF vars, lcmVars, pollVars, Next, LcmStep, PollStep, WriteStep,
           LcmChange, LcmRestart, ForcedPoll, NormalPoll, FlagAnswerLost,
           ReadParam, ReadFails, PollEnds, DailyPush, WriteParam, WriteUnacked,
           WriteReadParam, ReadBack, ReadBackFails
  <2> QED
    BY <2>1, <2>2, Zenon
<1>2. DataOK' /\ Bookkeeping' /\ AnnouncedCurrent'
  <2> USE <1>0 DEF DataOK, AnnouncedInv, Bookkeeping, AnnouncedCurrent,
                   lcmVars, pollVars
  <2>1. ASSUME NEW p \in Params, NEW v \in Values, LcmChange(p, v)
        PROVE  DataOK' /\ Bookkeeping' /\ AnnouncedCurrent'
    BY <2>1 DEF LcmChange, Store
  <2>2. CASE LcmRestart
    BY <2>2 DEF LcmRestart
  <2>3. ASSUME NEW ackRead \in BOOLEAN, ForcedPoll(ackRead)
        PROVE  DataOK' /\ Bookkeeping' /\ AnnouncedCurrent'
    BY <2>3 DEF ForcedPoll, DecodeChangeFlags
  <2>4. CASE NormalPoll
    BY <2>4 DEF NormalPoll, DecodeChangeFlags
  <2>5. CASE FlagAnswerLost
    BY <2>5 DEF FlagAnswerLost, DecodeChangeFlags
  <2>6. ASSUME NEW p \in Params, ReadParam(p)
        PROVE  DataOK' /\ Bookkeeping' /\ AnnouncedCurrent'
    BY <2>6 DEF ReadParam
  <2>7. ASSUME NEW p \in Params, ReadFails(p)
        PROVE  DataOK' /\ Bookkeeping' /\ AnnouncedCurrent'
    BY <2>7 DEF ReadFails
  <2>8. CASE PollEnds
    BY <2>8 DEF PollEnds, SendParams
  <2>9. CASE DailyPush
    BY <2>9 DEF DailyPush, SendParams
  <2>10. ASSUME NEW p \in Params, NEW v \in Values, NEW stored \in Values,
                WriteParam(p, v, stored)
         PROVE  DataOK' /\ Bookkeeping' /\ AnnouncedCurrent'
    BY <2>10 DEF WriteParam, Store, SendParams
  <2>11. ASSUME NEW p \in Params, NEW stored \in Values, WriteUnacked(p, stored)
         PROVE  DataOK' /\ Bookkeeping' /\ AnnouncedCurrent'
    BY <2>11 DEF WriteUnacked, Store
  <2>12. ASSUME NEW p \in Params, NEW stored \in Values,
                WriteReadParam(p, stored)
         PROVE  DataOK' /\ Bookkeeping' /\ AnnouncedCurrent'
    BY <2>12 DEF WriteReadParam, Store
  <2>13. CASE ReadBack
    BY <2>13 DEF ReadBack, SendParams
  <2>14. CASE ReadBackFails
    BY <2>14 DEF ReadBackFails
  <2>15. CASE UNCHANGED vars
    BY <2>15 DEF vars
  <2> QED
    BY <2>1, <2>2, <2>3, <2>4, <2>5, <2>6, <2>7, <2>8, <2>9, <2>10, <2>11,
       <2>12, <2>13, <2>14, <2>15 DEF Next, LcmStep, PollStep, WriteStep
<1>3. TypeOK'
  BY <1>1, <1>2, Zenon DEF TypeOK, DataOK
<1> QED
  BY <1>2, <1>3 DEF AnnouncedInv

(* Every step keeps a reason to look again at each stale parameter, or     *)
(* notes it as missed.                                                     *)
LEMMA FollowStep == AnnouncedInv /\ FollowInv /\ [Next]_vars => FollowInv'
<1> SUFFICES ASSUME AnnouncedInv, FollowInv, [Next]_vars PROVE FollowInv'
  OBVIOUS
<1> USE TableAssumption, NotSetAssumption
    DEF FollowInv, StaleIsPending, Stale, Pending, ColdStartComplete, SweepCovers,
        AnnouncedInv, TypeOK, Bookkeeping, lcmVars, pollVars
<1>1. ASSUME NEW p \in Params, NEW v \in Values, LcmChange(p, v)
      PROVE  FollowInv'
  BY <1>1 DEF LcmChange, Store
<1>2. CASE LcmRestart
  BY <1>2 DEF LcmRestart
<1>3. ASSUME NEW ackRead \in BOOLEAN, ForcedPoll(ackRead)
      PROVE  FollowInv'
  <2>1. todo' = Params /\ cache' = cache /\ force /\ force' = force
    BY <1>3 DEF ForcedPoll, DecodeChangeFlags
  <2> QED
    BY <2>1
<1>4. CASE NormalPoll
  BY <1>4 DEF NormalPoll, DecodeChangeFlags
<1>5. ASSUME NEW p \in Params, ReadParam(p)
      PROVE  FollowInv'
  BY <1>5 DEF ReadParam
<1>6. CASE PollEnds
  BY <1>6 DEF PollEnds, SendParams
<1>7. CASE DailyPush
  BY <1>7 DEF DailyPush, SendParams
<1>8. ASSUME NEW p \in Params, NEW v \in Values, NEW stored \in Values,
             WriteParam(p, v, stored)
      PROVE  FollowInv'
  BY <1>8 DEF WriteParam, Store, SendParams
<1>9. ASSUME NEW p \in Params, NEW stored \in Values, WriteUnacked(p, stored)
      PROVE  FollowInv'
  BY <1>9 DEF WriteUnacked, Store
<1>10. ASSUME NEW p \in Params, NEW stored \in Values,
              WriteReadParam(p, stored)
       PROVE  FollowInv'
  BY <1>10 DEF WriteReadParam, Store
<1>11. CASE ReadBack
  BY <1>11 DEF ReadBack, SendParams
<1>12. CASE ReadBackFails
  BY <1>12 DEF ReadBackFails
<1>13. CASE UNCHANGED vars
  BY <1>13 DEF vars
<1>14. CASE FlagAnswerLost
  BY <1>14 DEF FlagAnswerLost, DecodeChangeFlags
<1>15. ASSUME NEW p \in Params, ReadFails(p)
       PROVE  FollowInv'
  BY <1>15 DEF ReadFails
<1> QED
  BY <1>1, <1>2, <1>3, <1>4, <1>5, <1>6, <1>7, <1>8, <1>9, <1>10, <1>11,
     <1>12, <1>13, <1>14, <1>15 DEF Next, LcmStep, PollStep, WriteStep

-----------------------------------------------------------------------------
(* AnnouncedInv holds throughout, under every combination of faults. *)
THEOREM AnnouncedInvariance == Spec => []AnnouncedInv
<1>1. Init => AnnouncedInv
  BY InitOK
<1> QED
  BY <1>1, AnnouncedStep, PTL DEF Spec

(* AHL polling is type correct: no error code ever enters the cache. *)
THEOREM PollingTypeCorrect == Spec => []TypeOK
<1>1. AnnouncedInv => TypeOK
  BY DEF AnnouncedInv
<1> QED
  BY <1>1, AnnouncedInvariance, PTL

(* Under every fault of the bus, on-change telemetry is in step with the   *)
(* cache, or the running sweep is about to push.                           *)
THEOREM CloudIsCurrent == Spec => []AnnouncedCurrent
<1>1. AnnouncedInv => AnnouncedCurrent
  BY DEF AnnouncedInv
<1> QED
  BY <1>1, AnnouncedInvariance, PTL

(* Under every fault, a stale cache entry is going to be read again unless *)
(* a lost flag answer or a failed read has skipped that very parameter.    *)
THEOREM StaleIsRead == Spec => []StaleIsPending
<1>1. Init => AnnouncedInv /\ FollowInv
  BY InitOK
<1>2. (AnnouncedInv /\ FollowInv) /\ [Next]_vars => (AnnouncedInv /\ FollowInv)'
  BY AnnouncedStep, FollowStep
<1>3. AnnouncedInv /\ FollowInv => StaleIsPending
  BY DEF FollowInv
<1> QED
  BY <1>1, <1>2, <1>3, PTL DEF Spec

(* The pending cold-start flag is only given up when every parameter is in *)
(* the cache, but for those that could not be read.                        *)
THEOREM ColdStartFills == Spec => []ColdStartComplete
<1>1. Init => AnnouncedInv /\ FollowInv
  BY InitOK
<1>2. (AnnouncedInv /\ FollowInv) /\ [Next]_vars => (AnnouncedInv /\ FollowInv)'
  BY AnnouncedStep, FollowStep
<1>3. AnnouncedInv /\ FollowInv => ColdStartComplete
  BY DEF FollowInv
<1> QED
  BY <1>1, <1>2, <1>3, PTL DEF Spec

-----------------------------------------------------------------------------
(* The argument behind Converges, apart from fairness: a quiet poller has  *)
(* settled, and until it is quiet each of its steps brings it nearer.      *)

(* Whenever the poller has nothing to do, cache and cloud agree with the   *)
(* LCM on every parameter that was not skipped.                            *)
THEOREM QuietMeansSettled == Spec => []SettledWhenQuiet
<1>1. Init => AnnouncedInv /\ FollowInv
  BY InitOK
<1>2. (AnnouncedInv /\ FollowInv) /\ [Next]_vars => (AnnouncedInv /\ FollowInv)'
  BY AnnouncedStep, FollowStep
<1>3. AnnouncedInv /\ FollowInv => SettledWhenQuiet
  BY PushListAssumption DEF AnnouncedInv, FollowInv, SettledWhenQuiet, Quiet,
     Bookkeeping, AnnouncedCurrent, StaleIsPending, Stale, Pending
<1> QED
  BY <1>1, <1>2, <1>3, PTL DEF Spec

NothingSkipped == missed = {}

(* If no answer to a flag read and no read of a sweep is lost, the promise *)
(* of the Modbus handler's comments holds without exception: unanswered    *)
(* and clamped writes, failed read-backs and failed flag reads are all     *)
(* repaired, and the cold start fills the whole cache.                     *)
THEOREM ReliableReadsMissNothing ==
    ASSUME Faults \cap {"flagAnswerLost", "paramRead"} = {}
    PROVE  Spec => []NothingMissed /\ [](~force => \A p \in Params : cache[p] # NotSet)
<1>1. Init => AnnouncedInv /\ FollowInv /\ NothingSkipped
  BY InitOK DEF Init, NothingSkipped
<1>2. NothingSkipped /\ [Next]_vars => NothingSkipped'
  BY DEF NothingSkipped, vars, lcmVars, pollVars, Next, LcmStep, PollStep, WriteStep,
     LcmChange, LcmRestart, ForcedPoll, NormalPoll, FlagAnswerLost, ReadParam,
     ReadFails, PollEnds, DailyPush, WriteParam, WriteUnacked, WriteReadParam,
     ReadBack, ReadBackFails
<1>3. (AnnouncedInv /\ FollowInv) /\ [Next]_vars => (AnnouncedInv /\ FollowInv)'
  BY AnnouncedStep, FollowStep
<1>4. FollowInv /\ NothingSkipped =>
          NothingMissed /\ (~force => \A p \in Params : cache[p] # NotSet)
  BY DEF FollowInv, NothingSkipped, NothingMissed, StaleIsPending,
         ColdStartComplete
<1> QED
  BY <1>1, <1>2, <1>3, <1>4, PTL DEF Spec

(* The work the poller has before it: a pending full read and a flagged    *)
(* read each cost more than the longest sweep.                             *)
Full == Cardinality(Params) + 2

Work ==
    (IF flags # {} THEN Full ELSE 0)
    + (IF force /\ step # "sweep" THEN Full ELSE 0)
    + (IF step = "sweep" THEN Cardinality(todo) + 1 ELSE 0)
    + (IF step = "readBack" THEN 1 ELSE 0)

(* The steps that work it off, those that fail included. *)
PollerStep ==
    \/ PollStep
    \/ FlagAnswerLost
    \/ \E p \in Params : ReadFails(p)
    \/ ReadBack
    \/ ReadBackFails

WorkCounts == Work \in Nat /\ (Work = 0 <=> Quiet)

WorkFalls == changes' = changes => Work' <= Work /\ (PollerStep => Work' < Work)

(* A sweep is no longer than the table, and each read shortens it by one. *)
LEMMA TodoCount ==
    ASSUME IsFiniteSet(Params), DataOK
    PROVE  /\ Cardinality(Params) \in Nat
           /\ \A S \in SUBSET Params :
                 Cardinality(S) \in Nat /\ Cardinality(S) <= Cardinality(Params)
           /\ \A p \in todo : Cardinality(todo \ {p}) = Cardinality(todo) - 1
<1>1. \A S \in SUBSET Params :
          IsFiniteSet(S) /\ Cardinality(S) <= Cardinality(Params)
  BY FS_Subset
<1>2. \A S : IsFiniteSet(S) => Cardinality(S) \in Nat
  BY FS_CardinalityType
<1>3. IsFiniteSet(todo)
  BY <1>1 DEF DataOK
<1>4. \A p \in todo : Cardinality(todo \ {p}) = Cardinality(todo) - 1
  BY <1>3, FS_RemoveElement
<1> QED
  BY <1>1, <1>2, <1>4

(* Work is a natural number, and none is left exactly when the poller is   *)
(* quiet.                                                                  *)
LEMMA WorkType ==
    ASSUME IsFiniteSet(Params), AnnouncedInv
    PROVE  WorkCounts
<1>1. DataOK
  BY DEF AnnouncedInv, TypeOK, DataOK
<1>2. Cardinality(Params) \in Nat /\ Cardinality(todo) \in Nat
  BY <1>1, TodoCount DEF DataOK
<1>3. Work \in Nat
  BY <1>2 DEF Work, Full
<1>4. Work = 0 <=> Quiet
  BY <1>1, <1>2 DEF Work, Full, Quiet, DataOK
<1> QED
  BY <1>3, <1>4 DEF WorkCounts

(* Unless the LCM's contents change, no step adds work, and every step of  *)
(* the poller or of a read-back takes some away, failing or not.           *)
LEMMA WorkStep ==
    ASSUME IsFiniteSet(Params), AnnouncedInv, [Next]_vars
    PROVE  WorkFalls
<1>1. DataOK /\ Bookkeeping
  BY DEF AnnouncedInv, TypeOK, DataOK
<1>2. DataOK'
  <2>1. AnnouncedInv'
    BY AnnouncedStep
  <2> QED
    BY <2>1 DEF AnnouncedInv, TypeOK, DataOK
<1> DEFINE N == Cardinality(Params)
           k == Cardinality(todo)
           k1 == Cardinality(todo')
<1>3. N \in Nat /\ k \in Nat /\ k1 \in Nat /\ k1 <= N
  BY <1>1, <1>2, TodoCount DEF DataOK
<1>4. \A p \in todo : Cardinality(todo \ {p}) = k - 1
  BY <1>1, TodoCount
<1> SUFFICES ASSUME changes' = changes
             PROVE  Work' <= Work /\ (PollerStep => Work' < Work)
  BY DEF WorkFalls
<1> HIDE DEF N, k, k1
<1>W. /\ Work = (IF flags # {} THEN N + 2 ELSE 0)
                + (IF force /\ step # "sweep" THEN N + 2 ELSE 0)
                + (IF step = "sweep" THEN k + 1 ELSE 0)
                + (IF step = "readBack" THEN 1 ELSE 0)
      /\ Work' = (IF flags' # {} THEN N + 2 ELSE 0)
                 + (IF force' /\ step' # "sweep" THEN N + 2 ELSE 0)
                 + (IF step' = "sweep" THEN k1 + 1 ELSE 0)
                 + (IF step' = "readBack" THEN 1 ELSE 0)
  BY DEF Work, Full, N, k, k1
<1>5. ASSUME NEW ackRead \in BOOLEAN, ForcedPoll(ackRead)
      PROVE  Work' < Work
  BY <1>5, <1>3, <1>W DEF ForcedPoll
<1>6. CASE NormalPoll
  BY <1>6, <1>3, <1>W DEF NormalPoll
<1>7. CASE FlagAnswerLost
  BY <1>7, <1>3, <1>W DEF FlagAnswerLost, pollVars
<1>8. ASSUME NEW p \in Params, ReadParam(p) \/ ReadFails(p)
      PROVE  Work' < Work
  <2>1. k1 = k - 1
    BY <1>8, <1>4 DEF ReadParam, ReadFails, k1
  <2> QED
    BY <2>1, <1>8, <1>3, <1>W DEF ReadParam, ReadFails, lcmVars
<1>9. CASE PollEnds
  BY <1>9, <1>3, <1>W DEF PollEnds, lcmVars
<1>10. CASE ReadBack \/ ReadBackFails
  BY <1>10, <1>3, <1>W DEF ReadBack, ReadBackFails, lcmVars, pollVars
<1>11. PollerStep => Work' < Work
  BY <1>5, <1>6, <1>7, <1>8, <1>9, <1>10 DEF PollerStep, PollStep
<1>12. CASE DailyPush \/ UNCHANGED vars
  BY <1>12, <1>3, <1>W, <1>11 DEF DailyPush, vars, lcmVars, pollVars, k, k1
<1>13. CASE PollerStep
  BY <1>13, <1>11, <1>3, <1>W
<1>14. PollerStep \/ DailyPush \/ UNCHANGED vars
  <2>1. ASSUME NEW p, NEW v
        PROVE  ~Store(p, v)
    BY <1>1, MaxChangesAssumption DEF Store, DataOK
  <2>2. ~LcmRestart
    BY <1>1, MaxChangesAssumption DEF LcmRestart, DataOK
  <2> QED
    BY <2>1, <2>2 DEF Next, LcmStep, WriteStep, PollerStep, LcmChange,
       WriteParam, WriteUnacked, WriteReadParam
<1> QED
  BY <1>12, <1>13, <1>14, <1>11

(* With finitely many parameters the poller works itself off: a natural    *)
(* number, zero exactly in the quiet states of SettledWhenQuiet, falls     *)
(* with every step of the poller, and only a change in the LCM (its own, a *)
(* restart's or a write's) raises it.  Fairness does the rest.             *)
THEOREM PollerWorksOff ==
    ASSUME IsFiniteSet(Params)
    PROVE  Spec => []WorkCounts /\ [][WorkFalls]_vars
<1>1. AnnouncedInv => WorkCounts
  BY WorkType
<1>2. AnnouncedInv /\ [Next]_vars => [WorkFalls]_vars
  BY WorkStep
<1> QED
  BY <1>1, <1>2, AnnouncedInvariance, PTL DEF Spec
=============================================================================
