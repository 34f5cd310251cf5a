---------------------------- MODULE StartupProofs ----------------------------
(***************************************************************************)
(* For every set of hubs, every back-off schedule, every number of         *)
(* attempts and any number of local failures: the types, the single        *)
(* session, its release, the pacing of the retries, and the variant that   *)
(* takes main() through an outage.                                         *)
(***************************************************************************)
EXTENDS Startup, TLAPS

USE HubsAssumption, BackoffAssumption, AttemptsAssumption, MaxFaultsAssumption

(* What the arithmetic of a step needs of the types. *)
DataOK ==
    /\ pc \in Provisioning \cup Serving \cup Cleaning
              \cup {"provision", "create", "exited"}
    /\ backoff \in BACKOFF_INITIAL..BACKOFF_MAX
    /\ attempts \in 0..ATTEMPTS
    /\ assigned \in Hubs
    /\ open \in Nat
    /\ leaks \in Nat
    /\ hot \in Nat
    /\ cut \in Provisioning \cup Serving \cup Cleaning \cup {"none"}
    /\ faults \in 0..MaxFaults
    /\ home \in Hubs
FlagsOK == ble \in BOOLEAN /\ dps \in BOOLEAN /\ hub \in BOOLEAN

IInv == DataOK /\ Accounting /\ Owed /\ AttemptsLeft

(* main() starts with nothing open. *)
LEMMA InitInv == Init => IInv
  BY DEF Init, IInv, DataOK, Accounting, Owed, AttemptsLeft, Provisioning, Serving,
         Cleaning, Holding

(* The flags, which Zenon treats on their own. *)
LEMMA InitFlags == Init => FlagsOK
  BY DEF Init, FlagsOK

(* They stay Boolean. *)
LEMMA StepFlags == FlagsOK /\ [Next]_vars => FlagsOK'
  <1> SUFFICES ASSUME FlagsOK, [Next]_vars PROVE FlagsOK'
    OBVIOUS
  <1>1. CASE Progress
    BY <1>1, Zenon DEF FlagsOK, Progress, StartRegister, Registered, RegisterFails,
       ShutPipeline, ProvisionPauseEnds, CreateClient, Connected, ConnectFails,
       ConnectPauseEnds, Discard, Identified, HandlersBuilt, TwinFails,
       TwinPauseEnds, BleStarted, BleStopped, ShutClient, Pause, cloudVars
  <1>2. CASE ConstructorRaises \/ SetupRaises \/ BleUnavailable \/ TaskRaises
             \/ Cancel \/ CloudChanges \/ UNCHANGED vars
    BY <1>2, Zenon DEF FlagsOK, ConstructorRaises, SetupRaises, BleUnavailable,
       TaskRaises, Cancel, CloudChanges, vars, cloudVars
  <1> QED BY <1>1, <1>2 DEF Next

(* One step per action; Shut and Pause are expanded where they occur. *)
LEMMA StepInv == IInv /\ [Next]_vars => IInv'
  <1> SUFFICES ASSUME IInv, [Next]_vars PROVE IInv'
    OBVIOUS
  <1> USE DEF IInv, DataOK, Accounting, Owed, AttemptsLeft, Provisioning, Serving,
              Cleaning, Holding, Goto, Fault
  <1>1. CASE StartRegister
    BY <1>1 DEF StartRegister, cloudVars
  <1>2. CASE Registered
    BY <1>2 DEF Registered, cloudVars
  <1>3. CASE RegisterFails
    BY <1>3 DEF RegisterFails, cloudVars
  <1>4. CASE ShutPipeline
    BY <1>4 DEF ShutPipeline, Shut, cloudVars
  <1>5. CASE ConstructorRaises
    BY <1>5 DEF ConstructorRaises, cloudVars
  <1>6. CASE ProvisionPauseEnds
    BY <1>6 DEF ProvisionPauseEnds, Pause, cloudVars
  <1>7. CASE CreateClient
    BY <1>7 DEF CreateClient, cloudVars
  <1>8. CASE Connected
    BY <1>8 DEF Connected, cloudVars
  <1>9. CASE ConnectFails
    BY <1>9 DEF ConnectFails, cloudVars
  <1>10. CASE ConnectPauseEnds
    BY <1>10 DEF ConnectPauseEnds, Pause, cloudVars
  <1>11. CASE Discard
    BY <1>11 DEF Discard, Shut, cloudVars
  <1>12. CASE Identified
    BY <1>12 DEF Identified, cloudVars
  <1>13. CASE HandlersBuilt \/ BleUnavailable
    BY <1>13 DEF HandlersBuilt, BleUnavailable, cloudVars
  <1>14. CASE TwinFails
    BY <1>14 DEF TwinFails, cloudVars
  <1>15. CASE TwinPauseEnds
    BY <1>15 DEF TwinPauseEnds, Pause, cloudVars
  <1>16. CASE SetupRaises
    BY <1>16 DEF SetupRaises, Cleanup, cloudVars
  <1>17. CASE BleStarted \/ BleStopped
    BY <1>17 DEF BleStarted, BleStopped, cloudVars
  <1>18. CASE TaskRaises
    BY <1>18 DEF TaskRaises, Cleanup, cloudVars
  <1>19. CASE ShutClient
    BY <1>19 DEF ShutClient, Shut, cloudVars
  <1>20. CASE Cancel
    BY <1>20 DEF Cancel, Cleanup, cloudVars
  <1>21. CASE CloudChanges
    BY <1>21 DEF CloudChanges
  <1>22. CASE UNCHANGED vars
    BY <1>22 DEF vars, cloudVars
  <1> QED
    BY <1>1, <1>2, <1>3, <1>4, <1>5, <1>6, <1>7, <1>8, <1>9, <1>10, <1>11, <1>12,
       <1>13, <1>14, <1>15, <1>16, <1>17, <1>18, <1>19, <1>20, <1>21, <1>22
       DEF Next, Progress

(* The invariant holds in every state. *)
LEMMA Inductive == Spec => [](IInv /\ FlagsOK)
  <1>1. Init => IInv /\ FlagsOK
    BY InitInv, InitFlags
  <1>2. (IInv /\ FlagsOK) /\ [Next]_vars => (IInv /\ FlagsOK)'
    BY StepInv, StepFlags
  <1> QED BY <1>1, <1>2, PTL DEF Spec

(* main() and its helpers keep every variable in range: the back-off       *)
(* between its limits, and no registration used for more than ATTEMPTS     *)
(* connects.                                                               *)
THEOREM TypeCorrect == Spec => []TypeOK
  <1>1. IInv /\ FlagsOK => TypeOK
    BY Zenon DEF IInv, DataOK, FlagsOK, TypeOK
  <1> QED BY <1>1, Inductive, PTL

(* provision_and_connect() never has two MQTT pipelines open, however      *)
(* often registering and connecting fail, unless a shutdown failed.        *)
THEOREM SingleSession == Spec => []OneSession
  <1>1. IInv => OneSession
    BY DEF IInv, DataOK, Accounting, OneSession, Holding, Provisioning, Serving,
           Cleaning
  <1> QED BY <1>1, Inductive, PTL

(* However main() ends after connecting, its finally block has released    *)
(* the connection, unless it was itself cancelled.                         *)
THEOREM Released == Spec => []ReleasedAtExit
  <1>1. IInv => ReleasedAtExit
    BY DEF IInv, DataOK, Accounting, ReleasedAtExit
  <1> QED BY <1>1, Inductive, PTL

(* Every failed call of the startup loops is slept off before the next     *)
(* call, also across a re-provisioning.                                    *)
THEOREM RetriesPaced == Spec => []Paced
  <1>1. IInv => Paced
    BY DEF IInv, Owed, Paced
  <1> QED BY <1>1, Inductive, PTL

-----------------------------------------------------------------------------
(* The variant behind CloudReached. *)

StageTable ==
    /\ pc \in {"running", "exited"} => Stage = 0
    /\ pc = "shutClient" => Stage = 1
    /\ pc = "stopBle" => Stage = 2
    /\ pc = "ble" => Stage = 3
    /\ pc = "twin" => Stage = 4
    /\ pc = "twinPause" => Stage = 5
    /\ pc = "identify" => Stage = 6
    /\ pc = "connecting" => Stage = 7
    /\ pc = "create" => Stage = 8
    /\ pc = "registering" => Stage = 9
    /\ pc = "provision" => Stage = 10
    /\ pc \in {"provisionPause", "discard"} => Stage = 11
    /\ pc \in {"shutPipeline", "connectPause"} => Stage = 12

DetourTable ==
    /\ assigned = home => Detour = 0
    /\ pc \notin {"create", "connecting", "connectPause"} => Detour = 0
    /\ assigned # home /\ pc = "create" => Detour = 2 * ATTEMPTS + 4
    /\ assigned # home /\ pc = "connecting"
          => Detour = 2 * (ATTEMPTS - attempts) + 4
    /\ assigned # home /\ pc = "connectPause"
          => Detour = 2 * (ATTEMPTS - attempts)

(* Stage and Detour, await by await, before and after a step. *)
LEMMA StageNow == StageTable
  BY DEF Stage, StageTable

LEMMA StageThen == StageTable'
  BY DEF Stage, StageTable

LEMMA DetourNow == DetourTable
  BY DEF Detour, DetourTable

LEMMA DetourThen == DetourTable'
  BY DEF Detour, DetourTable

(* What is ahead is a number. *)
LEMMA AheadType ==
    ASSUME IInv
    PROVE  /\ Stage \in Nat
           /\ Detour \in Nat
           /\ Ahead \in Nat
  <1>1. Stage \in 0..12
    BY StageNow DEF StageTable, IInv, DataOK, Provisioning, Serving, Cleaning
  <1>2. Detour \in Nat
    BY DetourNow DEF DetourTable, IInv, DataOK
  <1> QED BY <1>1, <1>2 DEF Ahead, IInv, DataOK

(* The same after a step. *)
LEMMA AheadThen ==
    ASSUME IInv'
    PROVE  Ahead' \in Nat
  <1>1. Stage' \in 0..12
    BY StageThen DEF StageTable, IInv, DataOK, Provisioning, Serving, Cleaning
  <1>2. Detour' \in Nat
    BY DetourThen DEF DetourTable, IInv, DataOK
  <1>3. MaxFaults - faults' \in Nat
    <2>1. faults' \in 0..MaxFaults
      BY DEF IInv, DataOK
    <2>2. \A n \in Nat : \A m \in 0..n : n - m \in Nat
      OBVIOUS
    <2> QED BY <2>1, <2>2, Zenon
  <1>4. Ahead' = Stage' + Detour' + 4 * (MaxFaults - faults')
    BY DEF Ahead
  <1> DEFINE s == Stage'
             d == Detour'
             f == MaxFaults - faults'
  <1>5. Ahead' = s + d + 4 * f
    BY <1>4
  <1>6. s \in Nat /\ d \in Nat /\ f \in Nat
    BY <1>1, <1>2, <1>3
  <1> HIDE DEF s, d, f
  <1> QED BY <1>5, <1>6

(* In a settled cloud every step that changes anything keeps it settled    *)
(* and takes main() nearer; one case per action.  RegisterFails and        *)
(* TwinFails cannot happen then.                                           *)
LEMMA StepNearer ==
    ASSUME IInv, [Next]_vars, Settled, ~Arrived, UNCHANGED cloudVars,
           ~UNCHANGED vars
    PROVE  Settled' /\ Ahead' < Ahead
  <1>A. Ahead = Stage + Detour + 4 * (MaxFaults - faults)
    BY DEF Ahead
  <1>B. Ahead' = Stage' + Detour' + 4 * (MaxFaults - faults')
    BY DEF Ahead
  <1> USE <1>A, <1>B, StageNow, StageThen, DetourNow, DetourThen
      DEF StageTable, DetourTable, IInv, DataOK, AttemptsLeft, Settled, Arrived,
          Provisioning, Serving, Cleaning, Goto, Fault, cloudVars
  <1>1. CASE StartRegister
    BY <1>1 DEF StartRegister
  <1>2. CASE Registered
    BY <1>2 DEF Registered
  <1>3. CASE ShutPipeline
    BY <1>3 DEF ShutPipeline, Shut
  <1>4. CASE ConstructorRaises
    BY <1>4 DEF ConstructorRaises
  <1>5. CASE ProvisionPauseEnds
    BY <1>5 DEF ProvisionPauseEnds, Pause
  <1>6. CASE CreateClient
    BY <1>6 DEF CreateClient
  <1>7. CASE Connected
    BY <1>7 DEF Connected, Reachable
  <1>8. CASE ConnectFails
    BY <1>8 DEF ConnectFails, Reachable
  <1>9. CASE ConnectPauseEnds
    BY <1>9 DEF ConnectPauseEnds, Pause
  <1>10. CASE Discard
    BY <1>10 DEF Discard, Shut
  <1>11. CASE Identified
    BY <1>11 DEF Identified
  <1>12. CASE HandlersBuilt \/ BleUnavailable
    BY <1>12 DEF HandlersBuilt, BleUnavailable
  <1>13. CASE TwinPauseEnds
    BY <1>13 DEF TwinPauseEnds, Pause
  <1>14. CASE SetupRaises
    BY <1>14 DEF SetupRaises, Cleanup
  <1>15. CASE BleStarted \/ BleStopped
    BY <1>15 DEF BleStarted, BleStopped
  <1>16. CASE ShutClient
    BY <1>16 DEF ShutClient, Shut
  <1>17. CASE Cancel
    BY <1>17 DEF Cancel, Cleanup
  <1>18. ~(RegisterFails \/ TwinFails \/ TaskRaises \/ CloudChanges)
    BY DEF RegisterFails, TwinFails, TaskRaises, CloudChanges, Reachable, vars
  <1> QED
    BY <1>1, <1>2, <1>3, <1>4, <1>5, <1>6, <1>7, <1>8, <1>9, <1>10, <1>11, <1>12, <1>13, <1>14, <1>15, <1>16, <1>17, <1>18
       DEF Next, Progress

(* For any back-off, number of attempts and local failures: whatever state *)
(* an outage has left the startup loops in, once the cloud is settled main *)
(* gets nearer to running with every step, so fairness is all that         *)
(* CloudReached needs besides.                                             *)
THEOREM OutagesAreOvercome == Spec => NearerWhenUp
  <1>1. IInv /\ IInv' /\ [Next]_vars =>
            [Settled /\ ~Arrived /\ UNCHANGED cloudVars
                 => Settled' /\ Ahead' \in 0..(Ahead - 1)]_vars
    <2> SUFFICES ASSUME IInv, IInv', [Next]_vars, ~UNCHANGED vars,
                        Settled, ~Arrived, UNCHANGED cloudVars
                 PROVE  Settled' /\ Ahead' \in 0..(Ahead - 1)
      OBVIOUS
    <2>1. Settled' /\ Ahead' < Ahead
      BY StepNearer
    <2>2. Ahead \in Nat
      BY AheadType
    <2>3. Ahead' \in Nat
      BY AheadThen
    <2> QED BY <2>1, <2>2, <2>3
  <1> QED BY <1>1, Inductive, PTL DEF Spec, NearerWhenUp
=============================================================================
