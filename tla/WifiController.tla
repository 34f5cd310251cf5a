---------------------------- MODULE WifiController ----------------------------
(***************************************************************************)
(* BLE onboarding (src/src/bluetoothApi): the mobile app writes scan,      *)
(* connect and disconnect requests; BluetoothServer dispatches each as a   *)
(* task of its own; the tasks and the heartbeat run the host's WiFi script *)
(* and commit the Status the app reads.                                    *)
(*                                                                         *)
(* WifiController._lock is never held across an await and on_tick does not *)
(* suspend, so a commit with its tick is one step; what interleaves are    *)
(* the waits for the script.  Sequence numbers, the network list and the   *)
(* texts are left out.                                                     *)
(***************************************************************************)
CONSTANTS
    Requests,  \* dispatched request tasks alive at the same time
    Ssids,     \* networks
    NoInfo     \* current = None

ASSUME NoInfoAssumption == NoInfo \notin Ssids

Phases == {"idle", "scanning", "connecting", "connected", "disconnected",
           "error"}
Ifaces == {"none", "wlan0", "ppp0"}
RequestErrors == {"PSK_TOO_SHORT", "INVALID_REQUEST"}
ConnectErrors == {"PSK_WRONG", "SSID_NOT_FOUND", "TIMEOUT"}
NoError == "none"
Errors == RequestErrors \cup ConnectErrors \cup {NoError}

VARIABLES
    server,  \* BluetoothServer: "up", "stopping" once stop() runs, "stopped"
    status,  \* WifiController._status
    task,    \* the script call each request task waits for
    ssid,    \* the network a connect task asked for
    beat,    \* heartbeat: sleeping, waiting for the script, answered
    info,    \* what the script's status call answered
    link     \* the network wlan0 is really connected to

vars == <<server, status, task, ssid, beat, info, link>>

(* Every variable has its kind. *)
TypeOK ==
    /\ server \in {"up", "stopping", "stopped"}
    /\ status \in [phase: Phases, iface: Ifaces, current: Ssids \cup {NoInfo},
                   error: Errors]
    /\ task \in [Requests -> {"none", "scan", "connect", "disconnect"}]
    /\ ssid \in [Requests -> Ssids \cup {NoInfo}]
    /\ beat \in {"sleep", "asking", "answered"}
    /\ info \in Ssids \cup {NoInfo}
    /\ link \in Ssids \cup {NoInfo}

Init ==
    /\ server = "up"
    /\ status = [phase |-> "idle", iface |-> "none", current |-> NoInfo,
                 error |-> NoError]
    /\ task = [r \in Requests |-> "none"]
    /\ ssid = [r \in Requests |-> NoInfo]
    /\ beat = "sleep" /\ info = NoInfo
    /\ link \in Ssids \cup {NoInfo}

-----------------------------------------------------------------------------
(* _with_phase(): the interface stays, connection and error are dropped. *)
WithPhase(phase) ==
    status' = [phase |-> phase, iface |-> status.iface, current |-> NoInfo,
               error |-> NoError]

(* _set_error(): the interface stays, the connection is dropped. *)
SetError(code) ==
    status' = [phase |-> "error", iface |-> status.iface, current |-> NoInfo,
               error |-> code]

Begin(r, call) == task' = [task EXCEPT ![r] = call]
End(r) == /\ task' = [task EXCEPT ![r] = "none"]
          /\ ssid' = [ssid EXCEPT ![r] = NoInfo]

(* Mutant: stop() does not keep later writes from being dispatched. *)
DispatchAlways(r) == task[r] = "none"

(* _dispatch(): a task of its own for the request, unless stop() has begun. *)
Dispatch(r) == server = "up" /\ task[r] = "none"

-----------------------------------------------------------------------------
(* request_scan(): ignored while busy, unless forced. *)
RequestScan(r, force) ==
    /\ Dispatch(r)
    /\ status.phase \notin {"scanning", "connecting"} \/ force
    /\ WithPhase("scanning")
    /\ Begin(r, "scan")
    /\ UNCHANGED <<server, ssid, beat, info, link>>

ScanReturns(r) ==
    /\ task[r] = "scan"
    /\ WithPhase("idle")
    /\ End(r)
    /\ UNCHANGED <<server, beat, info, link>>

(* Mutant: a scan that raises is only logged. *)
ScanRaisesLogged(r) ==
    /\ task[r] = "scan"
    /\ End(r)
    /\ UNCHANGED <<server, status, beat, info, link>>

ScanRaises(r) ==
    /\ task[r] = "scan"
    /\ SetError("TIMEOUT")
    /\ End(r)
    /\ UNCHANGED <<server, beat, info, link>>

(* report_invalid_request(), an unknown interface, or a PSK that is too    *)
(* short: an error, whatever else is going on.                             *)
RejectRequest(r, code) ==
    /\ Dispatch(r)
    /\ SetError(code)
    /\ UNCHANGED <<server, task, ssid, beat, info, link>>

(* request_connect("ppp0"): reported as connected at once. *)
ConnectPpp(r) ==
    /\ Dispatch(r)
    /\ status' = [phase |-> "connected", iface |-> "ppp0", current |-> NoInfo,
                  error |-> NoError]
    /\ UNCHANGED <<server, task, ssid, beat, info, link>>

(* request_connect("wlan0"): ignored while the phase is CONNECTING. *)
ConnectWlan(r, s) ==
    /\ Dispatch(r)
    /\ status.phase # "connecting"
    /\ status' = [phase |-> "connecting", iface |-> "wlan0",
                  current |-> NoInfo, error |-> NoError]
    /\ Begin(r, "connect")
    /\ ssid' = [ssid EXCEPT ![r] = s]
    /\ UNCHANGED <<server, beat, info, link>>

ConnectReturns(r) ==
    /\ task[r] = "connect"
    /\ link' = ssid[r]
    /\ status' = [phase |-> "connected", iface |-> "wlan0",
                  current |-> ssid[r], error |-> NoError]
    /\ End(r)
    /\ UNCHANGED <<server, beat, info>>

(* No address, no such network, or a timeout; the script may have taken    *)
(* the old connection down, or have made the new one before it was killed. *)
ConnectFails(r, code) ==
    /\ task[r] = "connect"
    /\ link' \in {link, NoInfo, ssid[r]}
    /\ SetError(code)
    /\ End(r)
    /\ UNCHANGED <<server, beat, info>>

RequestDisconnect(r) ==
    /\ Dispatch(r)
    /\ Begin(r, "disconnect")
    /\ UNCHANGED <<server, status, ssid, beat, info, link>>

(* Best effort: a script that failed is only logged. *)
DisconnectReturns(r) ==
    /\ task[r] = "disconnect"
    /\ link' \in {link, NoInfo}
    /\ WithPhase("disconnected")
    /\ End(r)
    /\ UNCHANGED <<server, beat, info>>

-----------------------------------------------------------------------------
(* Heartbeat.  Unless WiFi is connected a beat only counts up. *)
HeartbeatAsks ==
    /\ server # "stopped" /\ beat = "sleep"
    /\ status.phase = "connected" /\ status.iface = "wlan0"
    /\ beat' = "asking"
    /\ UNCHANGED <<server, status, task, ssid, info, link>>

(* get_status() answers what the link is now, or None for any failure. *)
ScriptAnswers ==
    /\ beat = "asking"
    /\ beat' = "answered"
    /\ info' \in {link, NoInfo}
    /\ UNCHANGED <<server, status, task, ssid, link>>

(* Mutant: the beat commits the phase it saw before it asked. *)
HeartbeatCommitsOldPhase ==
    /\ beat = "answered"
    /\ status' = [status EXCEPT !.phase = "connected",
                                !.current = IF info = NoInfo THEN @ ELSE info]
    /\ beat' = "sleep"
    /\ info' = NoInfo
    /\ UNCHANGED <<server, task, ssid, link>>

(* The phase committed is the one of now; None leaves the connection info. *)
HeartbeatCommits ==
    /\ beat = "answered"
    /\ status' = [status EXCEPT !.current = IF info = NoInfo THEN @ ELSE info]
    /\ beat' = "sleep"
    /\ info' = NoInfo
    /\ UNCHANGED <<server, task, ssid, link>>

-----------------------------------------------------------------------------
(* stop(): request tasks are cancelled at their await and gathered, then   *)
(* the heartbeat is cancelled.                                             *)
StopTasks ==
    /\ server = "up"
    /\ server' = "stopping"
    /\ task' = [r \in Requests |-> "none"]
    /\ ssid' = [r \in Requests |-> NoInfo]
    /\ UNCHANGED <<status, beat, info, link>>

StopHeartbeat ==
    /\ server = "stopping"
    /\ server' = "stopped"
    /\ beat' = "sleep"
    /\ info' = NoInfo
    /\ UNCHANGED <<status, task, ssid, link>>

(* Environment: the network goes away. *)
LinkDrops ==
    /\ link # NoInfo
    /\ link' = NoInfo
    /\ UNCHANGED <<server, status, task, ssid, beat, info>>

-----------------------------------------------------------------------------
RequestStep(r) ==
    \/ \E force \in BOOLEAN : RequestScan(r, force)
    \/ \E code \in RequestErrors : RejectRequest(r, code)
    \/ ConnectPpp(r)
    \/ \E s \in Ssids : ConnectWlan(r, s)
    \/ RequestDisconnect(r)

ScriptReturns(r) ==
    \/ ScanReturns(r)
    \/ ScanRaises(r)
    \/ ConnectReturns(r)
    \/ \E code \in ConnectErrors : ConnectFails(r, code)
    \/ DisconnectReturns(r)

HeartbeatStep == HeartbeatAsks \/ ScriptAnswers \/ HeartbeatCommits

Next ==
    \/ \E r \in Requests : RequestStep(r) \/ ScriptReturns(r)
    \/ HeartbeatStep
    \/ StopTasks
    \/ StopHeartbeat
    \/ LinkDrops

Spec == Init /\ [][Next]_vars

(* Every script call has a timeout, and the heartbeat's sleep ends. *)
Fairness ==
    /\ \A r \in Requests : WF_vars(ScriptReturns(r))
    /\ WF_vars(HeartbeatStep)

FairSpec == Spec /\ Fairness

-----------------------------------------------------------------------------
(* What the app sees of an error is consistent: an error code is attached  *)
(* exactly in phase ERROR, although requests, script results and beats     *)
(* overwrite each other's status in any order.                             *)
ErrorIffPhase == status.error # NoError <=> status.phase = "error"

(* A busy phase is never left behind: while the server is up, SCANNING and *)
(* CONNECTING have a script call under way whose end will replace them.    *)
(* Otherwise request_scan() and request_connect() would ignore the app     *)
(* for ever.                                                               *)
BusyIsReal ==
    server = "up" =>
        /\ status.phase = "scanning" => \E r \in Requests : task[r] = "scan"
        /\ status.phase = "connecting" =>
               \E r \in Requests : task[r] = "connect"

(* After stop() no late script result, beat or BLE write changes Status. *)
QuietWhenStopped == [][server = "stopped" => UNCHANGED status]_vars

(* The app is not locked out: a busy phase ends, whatever else it sends.   *)
BusyEnds ==
    status.phase \in {"scanning", "connecting"} ~>
        status.phase \notin {"scanning", "connecting"} \/ server # "up"

(* request_connect(): a retry is ignored while already connecting, so one  *)
(* connection attempt runs at a time.                                      *)
OneConnect ==
    \A q, r \in Requests : task[q] = "connect" /\ task[r] = "connect" => q = r

(* Status documentation: current is there "when connected to wlan0, else   *)
(* null".  Once the network is gone for good, a server that stays up takes *)
(* current away with a heartbeat's refresh.                                *)
CurrentExpires ==
    [](server = "up") /\ <>[](link = NoInfo) => <>[](status.current = NoInfo)

(* No task is left once stop() has gathered them. *)
StoppedInv ==
    /\ server # "up" => \A r \in Requests : task[r] = "none"
    /\ server = "stopped" => beat = "sleep"
=============================================================================
