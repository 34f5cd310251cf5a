------------------------- MODULE WifiControllerProofs -------------------------
(***************************************************************************)
(* Proofs about WifiController for any number of requests in flight and    *)
(* any set of networks: the status is consistent, stop is final, and a     *)
(* busy phase ends with the first script call to return.                   *)
(***************************************************************************)
EXTENDS WifiController, TLAPS

IndInv == TypeOK /\ ErrorIffPhase /\ BusyIsReal /\ StoppedInv

(* The initial state is idle, without error and without tasks. *)
LEMMA InitOK == Init => IndInv
BY NoInfoAssumption DEF Init, IndInv, TypeOK, ErrorIffPhase, BusyIsReal,
   StoppedInv, Phases, Ifaces, Errors, NoError

(* A request only replaces the status by one that is consistent, and a     *)
(* busy phase comes with its task.                                         *)
LEMMA RequestKeeps ==
  ASSUME IndInv, NEW r \in Requests, RequestStep(r)
  PROVE  IndInv'
<1> USE DEF IndInv, TypeOK, ErrorIffPhase, BusyIsReal, StoppedInv, Phases,
            Ifaces, Errors, NoError, RequestErrors, ConnectErrors, Dispatch,
            Begin
<1>1. ASSUME NEW force \in BOOLEAN, RequestScan(r, force) PROVE IndInv'
  BY <1>1 DEF RequestScan, WithPhase
<1>2. ASSUME NEW code \in RequestErrors, RejectRequest(r, code) PROVE IndInv'
  BY <1>2 DEF RejectRequest, SetError
<1>3. CASE ConnectPpp(r)
  BY <1>3 DEF ConnectPpp
<1>4. ASSUME NEW s \in Ssids, ConnectWlan(r, s) PROVE IndInv'
  BY <1>4 DEF ConnectWlan
<1>5. CASE RequestDisconnect(r)
  BY <1>5 DEF RequestDisconnect
<1> QED
  BY <1>1, <1>2, <1>3, <1>4, <1>5 DEF RequestStep

(* A script call that ends takes the phase it stands for with it. *)
LEMMA ScriptKeeps ==
  ASSUME IndInv, NEW r \in Requests, ScriptReturns(r)
  PROVE  IndInv'
<1> USE DEF IndInv, TypeOK, ErrorIffPhase, BusyIsReal, StoppedInv, Phases,
            Ifaces, Errors, NoError, RequestErrors, ConnectErrors, End
<1>1. CASE ScanReturns(r)
  BY <1>1 DEF ScanReturns, WithPhase
<1>2. CASE ScanRaises(r)
  BY <1>2 DEF ScanRaises, SetError
<1>3. CASE ConnectReturns(r)
  BY <1>3 DEF ConnectReturns
<1>4. ASSUME NEW code \in ConnectErrors, ConnectFails(r, code) PROVE IndInv'
  BY <1>4 DEF ConnectFails, SetError
<1>5. CASE DisconnectReturns(r)
  BY <1>5 DEF DisconnectReturns, WithPhase
<1> QED
  BY <1>1, <1>2, <1>3, <1>4, <1>5 DEF ScriptReturns

(* Beats, stop() and the network keep the invariant too. *)
LEMMA IndStep == IndInv /\ [Next]_vars => IndInv'
<1> SUFFICES ASSUME IndInv, [Next]_vars PROVE IndInv'
  OBVIOUS
<1>1. ASSUME NEW r \in Requests, RequestStep(r) \/ ScriptReturns(r)
      PROVE  IndInv'
  BY <1>1, RequestKeeps, ScriptKeeps
<1>2. CASE HeartbeatStep
  BY <1>2 DEF HeartbeatStep, HeartbeatAsks, ScriptAnswers, HeartbeatCommits,
     IndInv, TypeOK, ErrorIffPhase, BusyIsReal, StoppedInv
<1>3. CASE StopTasks \/ StopHeartbeat \/ LinkDrops
  BY <1>3 DEF StopTasks, StopHeartbeat, LinkDrops, IndInv, TypeOK,
     ErrorIffPhase, BusyIsReal, StoppedInv
<1>4. CASE UNCHANGED vars
  BY <1>4 DEF vars, IndInv, TypeOK, ErrorIffPhase, BusyIsReal, StoppedInv
<1> QED
  BY <1>1, <1>2, <1>3, <1>4 DEF Next

(* The inductive invariant holds throughout. *)
THEOREM Invariance == Spec => []IndInv
BY InitOK, IndStep, PTL DEF Spec

(* The controller is type correct. *)
THEOREM TypeCorrect == Spec => []TypeOK
<1>1. IndInv => TypeOK
  BY DEF IndInv
<1> QED
  BY <1>1, Invariance, PTL

(* However many requests overlap, the app sees an error code exactly in    *)
(* phase ERROR.                                                            *)
THEOREM ErrorConsistent == Spec => []ErrorIffPhase
<1>1. IndInv => ErrorIffPhase
  BY DEF IndInv
<1> QED
  BY <1>1, Invariance, PTL

(* However many requests overlap, a busy phase has a script call behind    *)
(* it that will end it.                                                    *)
THEOREM BusyHasTask == Spec => []BusyIsReal
<1>1. IndInv => BusyIsReal
  BY DEF IndInv
<1> QED
  BY <1>1, Invariance, PTL

(* stop() is final: no step changes the status afterwards. *)
THEOREM StopIsFinal == Spec => QuietWhenStopped
<1>1. IndInv /\ [Next]_vars => [server = "stopped" => UNCHANGED status]_vars
  <2> SUFFICES ASSUME IndInv, Next, server = "stopped" PROVE UNCHANGED status
    BY DEF vars
  <2>1. \A r \in Requests : ~RequestStep(r)
    BY DEF RequestStep, RequestScan, RejectRequest, ConnectPpp, ConnectWlan,
       RequestDisconnect, Dispatch
  <2>2. \A r \in Requests : ~ScriptReturns(r)
    BY DEF IndInv, StoppedInv, ScriptReturns, ScanReturns, ScanRaises,
       ConnectReturns, ConnectFails, DisconnectReturns
  <2>3. ~HeartbeatStep
    BY DEF IndInv, StoppedInv, HeartbeatStep, HeartbeatAsks, ScriptAnswers,
       HeartbeatCommits
  <2> QED
    BY <2>1, <2>2, <2>3 DEF Next, StopTasks, StopHeartbeat, LinkDrops
<1> QED
  BY <1>1, Invariance, PTL DEF Spec, QuietWhenStopped

-----------------------------------------------------------------------------
(* The argument behind BusyEnds, apart from fairness. *)

Busy == status.phase \in {"scanning", "connecting"} /\ server = "up"

(* While the app is told BUSY, no step ends a script call, and what stands *)
(* behind the phase goes on standing; the end of any script call, its own  *)
(* or an overtaken one's, ends the busy phase.                             *)
BusyStep ==
    /\ Busy /\ Busy' => \A r \in Requests : task[r] # "none" => task'[r] = task[r]
    /\ \A r \in Requests : ScriptReturns(r) => ~Busy'

BusyHasCall == Busy => \E r \in Requests : task[r] # "none"

(* The app cannot be locked out by any interleaving of its own requests:   *)
(* a busy phase always has a script call whose task stays put until one    *)
(* returns, and the first script call to return, whichever it is, ends the *)
(* phase.  That calls do return is the timeout of the script.              *)
THEOREM BusyHeldByCall == Spec => []BusyHasCall /\ [][BusyStep]_vars
<1>1. IndInv => BusyHasCall
  BY DEF IndInv, BusyIsReal, BusyHasCall, Busy
<1>2. ASSUME IndInv, NEW r \in Requests, ScriptReturns(r)
      PROVE  ~Busy'
  BY <1>2 DEF IndInv, TypeOK, Busy, ScriptReturns, ScanReturns, ScanRaises,
     ConnectReturns, ConnectFails, DisconnectReturns, WithPhase, SetError
<1>3. ASSUME IndInv, [Next]_vars, Busy, Busy', NEW q \in Requests, task[q] # "none"
      PROVE  task'[q] = task[q]
  <2>1. ASSUME NEW r \in Requests, RequestStep(r)
        PROVE  task'[q] = task[q]
    BY <1>3, <2>1 DEF IndInv, TypeOK, RequestStep, RequestScan, RejectRequest,
       ConnectPpp, ConnectWlan, RequestDisconnect, Dispatch, Begin
  <2>2. CASE HeartbeatStep \/ StopHeartbeat \/ LinkDrops \/ UNCHANGED vars
    BY <2>2 DEF HeartbeatStep, HeartbeatAsks, ScriptAnswers, HeartbeatCommits,
       StopHeartbeat, LinkDrops, vars
  <2>3. ~StopTasks
    BY <1>3 DEF StopTasks, Busy
  <2> QED
    BY <2>1, <2>2, <2>3, <1>2, <1>3 DEF Next
<1>4. IndInv /\ [Next]_vars => [BusyStep]_vars
  BY <1>2, <1>3 DEF BusyStep
<1> QED
  BY <1>1, <1>4, Invariance, PTL DEF Spec
=============================================================================
