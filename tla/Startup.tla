-------------------------------- MODULE Startup --------------------------------
(***************************************************************************)
(* The life of the gateway process towards the cloud: provisioning through *)
(* DPS, connecting to the assigned IoT Hub with retries, building the      *)
(* handlers, running, and releasing the connection on the way out          *)
(* (main.py, cloudApi/dps_client.py, cloudApi/device_client.py).           *)
(*                                                                         *)
(* pc is the await main() is at.  A call that needs a service fails only   *)
(* while the service is away, and the services come and go at any time.    *)
(* The gateway may be cancelled (Ctrl-C) once, at any await.               *)
(***************************************************************************)
EXTENDS Integers

CONSTANTS
    Hubs,              \* IoT Hubs that DPS may assign the device to
    BACKOFF_INITIAL,   \* CONNECT_BACKOFF_INITIAL_S
    BACKOFF_MAX,       \* CONNECT_BACKOFF_MAX_S
    ATTEMPTS,          \* CONNECT_ATTEMPTS_PER_PROVISION
    MaxFaults          \* bound on local failures (shutdowns, constructors)

ASSUME HubsAssumption == Hubs # {}
ASSUME BackoffAssumption ==
    /\ BACKOFF_INITIAL \in Nat \ {0}
    /\ BACKOFF_MAX \in Nat
    /\ BACKOFF_INITIAL <= BACKOFF_MAX
ASSUME AttemptsAssumption == ATTEMPTS \in Nat \ {0}
ASSUME MaxFaultsAssumption == MaxFaults \in Nat

VARIABLES
    pc,
    backoff,   \* the delay of the next pause
    attempts,  \* connects that failed on this registration
    assigned,  \* the hub of the last registration
    open,      \* MQTT pipelines that are open, of both kinds of client
    leaks,     \* pipelines whose shutdown failed
    hot,       \* calls to the cloud that failed since the last pause
    ble,       \* is bluetooth_server not None?
    cut,       \* the await that was cancelled, or "none"
    faults,    \* local failures so far
    dps, hub,  \* do DPS and the hubs answer?
    home       \* the hub DPS assigns

cloudVars == <<dps, hub, home>>
vars == <<pc, backoff, attempts, assigned, open, leaks, hot, ble, cut, faults,
          cloudVars>>

(* The awaits before the client is connected, those covered by main()'s    *)
(* try, and those of its finally block.                                    *)
Provisioning == {"registering", "shutPipeline", "provisionPause", "connecting",
                 "connectPause", "discard"}
Serving  == {"identify", "twin", "twinPause", "ble", "running"}
Cleaning == {"stopBle", "shutClient"}

(* Every variable is in range; in particular the back-off stays between    *)
(* its limits and no registration is used for more than ATTEMPTS connects. *)
TypeOK ==
    /\ pc \in Provisioning \cup Serving \cup Cleaning 
              \cup {"provision", "create", "exited"}
    /\ backoff \in BACKOFF_INITIAL..BACKOFF_MAX
    /\ attempts \in 0..ATTEMPTS
    /\ assigned \in Hubs
    /\ open \in Nat
    /\ leaks \in Nat
    /\ hot \in Nat
    /\ ble \in BOOLEAN
    /\ cut \in Provisioning \cup Serving \cup Cleaning \cup {"none"}
    /\ faults \in 0..MaxFaults
    /\ dps \in BOOLEAN
    /\ hub \in BOOLEAN
    /\ home \in Hubs

Init ==
    /\ pc = "provision"
    /\ backoff = BACKOFF_INITIAL
    /\ attempts = 0
    /\ assigned \in Hubs
    /\ open = 0 /\ leaks = 0 /\ hot = 0
    /\ ble = FALSE
    /\ cut = "none"
    /\ faults = 0
    /\ dps \in BOOLEAN /\ hub \in BOOLEAN /\ home \in Hubs

Goto(from, to) == pc = from /\ pc' = to

(* A local failure; the bound keeps it from happening for ever. *)
Fault ==
    /\ faults < MaxFaults
    /\ faults' = faults + 1

(* A pipeline is shut down; a failure is logged and the pipeline stays. *)
Shut ==
    \/ /\ open' = open - 1
       /\ UNCHANGED <<leaks, faults>>
    \/ /\ Fault
       /\ leaks' = leaks + 1
       /\ UNCHANGED open

(* The pause after a failure is over; the next one will be twice as long. *)
Pause ==
    /\ backoff' = IF 2 * backoff > BACKOFF_MAX THEN BACKOFF_MAX ELSE 2 * backoff
    /\ hot' = 0
    /\ UNCHANGED <<attempts, assigned, open, leaks, ble, cut, faults, cloudVars>>

-----------------------------------------------------------------------------
(* create_provisioning_device(): a provisioning client opens a pipeline. *)
StartRegister ==
    /\ Goto("provision", "registering")
    /\ open' = open + 1
    /\ UNCHANGED <<backoff, attempts, assigned, leaks, hot, ble, cut, faults,
                   cloudVars>>

(* register() answers "assigned"; the SDK then closes its own pipeline. *)
Registered ==
    /\ Goto("registering", "create")
    /\ dps
    /\ open' = open - 1
    /\ assigned' = home
    /\ UNCHANGED <<backoff, attempts, leaks, hot, ble, cut, faults, cloudVars>>

(* register() raises or answers with another status. *)
RegisterFails ==
    /\ Goto("registering", "shutPipeline")
    /\ ~dps
    /\ hot' = hot + 1
    /\ UNCHANGED <<backoff, attempts, assigned, open, leaks, ble, cut, faults,
                   cloudVars>>

(* Mutant: a failed registration is not shut down. *)
ShutPipelineSkipped ==
    /\ Goto("shutPipeline", "provisionPause")
    /\ UNCHANGED <<backoff, attempts, assigned, open, leaks, hot, ble, cut,
                   faults, cloudVars>>

(* _shutdown_pipeline(), after which the exception is raised on. *)
ShutPipeline ==
    /\ Goto("shutPipeline", "provisionPause")
    /\ Shut
    /\ UNCHANGED <<backoff, attempts, assigned, hot, ble, cut, cloudVars>>

(* X509(), create_from_x509_certificate() or the factory raises with no    *)
(* pipeline open.                                                          *)
ConstructorRaises ==
    /\ pc \in {"provision", "create"}
    /\ pc' = "provisionPause"
    /\ Fault
    /\ hot' = hot + 1
    /\ UNCHANGED <<backoff, attempts, assigned, open, leaks, ble, cut, cloudVars>>

ProvisionPauseEnds == Goto("provisionPause", "provision") /\ Pause

(* DeviceClientFactory.create_client(); the back-off starts again. *)
CreateClient ==
    /\ Goto("create", "connecting")
    /\ open' = open + 1
    /\ backoff' = BACKOFF_INITIAL
    /\ attempts' = 0
    /\ UNCHANGED <<assigned, leaks, hot, ble, cut, faults, cloudVars>>

-----------------------------------------------------------------------------
(* The client reaches its hub only if DPS has not moved the device since. *)
Reachable == hub /\ assigned = home

Connected ==
    /\ Goto("connecting", "identify")
    /\ Reachable
    /\ UNCHANGED <<backoff, attempts, assigned, open, leaks, hot, ble, cut,
                   faults, cloudVars>>

(* Mutant: the last attempt is not followed by a pause. *)
ConnectFailsUnpaced ==
    /\ pc = "connecting"
    /\ ~Reachable
    /\ attempts' = attempts + 1
    /\ pc' = IF attempts' = ATTEMPTS THEN "discard" ELSE "connectPause"
    /\ hot' = hot + 1
    /\ UNCHANGED <<backoff, assigned, open, leaks, ble, cut, faults, cloudVars>>

(* Mutant: the attempts are not counted. *)
ConnectFailsUncounted ==
    /\ Goto("connecting", "connectPause")
    /\ ~Reachable
    /\ hot' = hot + 1
    /\ UNCHANGED <<backoff, attempts, assigned, open, leaks, ble, cut, faults,
                   cloudVars>>

ConnectFails ==
    /\ Goto("connecting", "connectPause")
    /\ ~Reachable
    /\ attempts' = attempts + 1
    /\ hot' = hot + 1
    /\ UNCHANGED <<backoff, assigned, open, leaks, ble, cut, faults, cloudVars>>

(* Mutant: the loop runs once more than it should. *)
ConnectPauseOffByOne ==
    /\ pc = "connectPause"
    /\ pc' = IF attempts <= ATTEMPTS THEN "connecting" ELSE "discard"
    /\ Pause

ConnectPauseEnds ==
    /\ pc = "connectPause"
    /\ pc' = IF attempts < ATTEMPTS THEN "connecting" ELSE "discard"
    /\ Pause

(* _shutdown_client() of the client whose attempts are used up. *)
Discard ==
    /\ Goto("discard", "provision")
    /\ Shut
    /\ UNCHANGED <<backoff, attempts, assigned, hot, ble, cut, cloudVars>>

-----------------------------------------------------------------------------
(* Mutant: without a Bluetooth server there is nothing to clean up. *)
CleanupOnlyBle == pc' = IF ble THEN "stopBle" ELSE "exited"

(* main()'s finally block begins. *)
Cleanup == pc' = IF ble THEN "stopBle" ELSE "shutClient"

(* LiftProxy.create(): an unidentified lift is no error. *)
Identified ==
    /\ Goto("identify", "twin")
    /\ backoff' = BACKOFF_INITIAL
    /\ UNCHANGED <<attempts, assigned, open, leaks, hot, ble, cut, faults,
                   cloudVars>>

(* DeviceTwinDesiredHandler.create() fetches the twin; the other handlers  *)
(* and the Bluetooth server are built and the connection monitor is        *)
(* attached without an await.                                              *)
HandlersBuilt ==
    /\ Goto("twin", "ble")
    /\ Reachable
    /\ ble' = TRUE
    /\ UNCHANGED <<backoff, attempts, assigned, open, leaks, hot, cut, faults,
                   cloudVars>>

(* The same, but the Bluetooth server cannot be built, which is not fatal. *)
BleUnavailable ==
    /\ Goto("twin", "running")
    /\ Reachable
    /\ Fault
    /\ UNCHANGED <<backoff, attempts, assigned, open, leaks, hot, ble, cut,
                   cloudVars>>

TwinFails ==
    /\ Goto("twin", "twinPause")
    /\ ~Reachable
    /\ hot' = hot + 1
    /\ UNCHANGED <<backoff, attempts, assigned, open, leaks, ble, cut, faults,
                   cloudVars>>

TwinPauseEnds == Goto("twinPause", "twin") /\ Pause

(* Building the proxy or a handler raises: fatal. *)
SetupRaises ==
    /\ pc \in {"identify", "twin"}
    /\ Cleanup
    /\ Fault
    /\ UNCHANGED <<backoff, attempts, assigned, open, leaks, hot, ble, cut,
                   cloudVars>>

(* bluetooth_server.start() returns or raises, which is logged. *)
BleStarted ==
    /\ Goto("ble", "running")
    /\ UNCHANGED <<backoff, attempts, assigned, open, leaks, hot, ble, cut,
                   faults, cloudVars>>

(* One of the gathered tasks raises. *)
TaskRaises ==
    /\ pc = "running"
    /\ Cleanup
    /\ UNCHANGED <<backoff, attempts, assigned, open, leaks, hot, ble, cut,
                   faults, cloudVars>>

(* bluetooth_server.stop(); a failure is logged. *)
BleStopped ==
    /\ Goto("stopBle", "shutClient")
    /\ UNCHANGED <<backoff, attempts, assigned, open, leaks, hot, ble, cut,
                   faults, cloudVars>>

ShutClient ==
    /\ Goto("shutClient", "exited")
    /\ Shut
    /\ UNCHANGED <<backoff, attempts, assigned, hot, ble, cut, cloudVars>>

(* CancelledError is no Exception: only main()'s finally sees it, and only *)
(* when it is raised inside the try.                                       *)
Cancel ==
    /\ cut = "none"
    /\ cut' = pc
    /\ \/ /\ pc \in Provisioning \cup Cleaning
          /\ pc' = "exited"
       \/ /\ pc \in Serving
          /\ Cleanup
    /\ UNCHANGED <<backoff, attempts, assigned, open, leaks, hot, ble, faults,
                   cloudVars>>

-----------------------------------------------------------------------------
(* Environment: the services come and go, DPS moves the device. *)
CloudChanges ==
    /\ pc # "exited"
    /\ dps' \in BOOLEAN /\ hub' \in BOOLEAN /\ home' \in Hubs
    /\ UNCHANGED <<pc, backoff, attempts, assigned, open, leaks, hot, ble, cut,
                   faults>>

Progress ==
    \/ StartRegister \/ Registered \/ RegisterFails \/ ShutPipeline
    \/ ProvisionPauseEnds \/ CreateClient
    \/ Connected \/ ConnectFails \/ ConnectPauseEnds \/ Discard
    \/ Identified \/ HandlersBuilt \/ TwinFails \/ TwinPauseEnds \/ BleStarted
    \/ BleStopped \/ ShutClient

Next ==
    \/ Progress
    \/ ConstructorRaises
    \/ SetupRaises
    \/ BleUnavailable
    \/ TaskRaises
    \/ Cancel
    \/ CloudChanges

(* Awaited calls return and sleeps end; nothing else is promised. *)
Spec == Init /\ [][Next]_vars /\ WF_vars(Progress)

-----------------------------------------------------------------------------
(* Whatever fails and is retried, at most one pipeline is open, not        *)
(* counting those whose shutdown itself failed: the docstring of           *)
(* provision_and_connect() says a discarded client's "MQTT pipeline does   *)
(* not leak across retries".                                               *)
OneSession == open <= leaks + 1

(* When main() has ended after the client was connected, by an error or by *)
(* a cancellation, the connection is released; only a cancellation that    *)
(* hits the finally block itself may leave it.                             *)
ReleasedAtExit ==
    (pc = "exited" /\ cut \notin Provisioning \cup Cleaning) => open = leaks

(* No two calls to the cloud fail without a pause in between, the last     *)
(* connect of one registration and the first call of the next included.    *)
Paced == hot <= 1

(* Once DPS and the hub answer for good and the device is not moved after  *)
(* it has connected, the gateway gets to run (or has ended).  It needs the *)
(* re-provisioning: the hub of an old registration may be the wrong one.   *)
CloudReached ==
    (\E h \in Hubs : <>[](dps /\ hub /\ home = h))
    /\ <>[](pc \in Serving => assigned = home)
        => <>(pc \in {"running", "exited"})

(* The cloud answers, and the connected device has not been moved. *)
Settled == dps /\ hub /\ (pc \in Serving => assigned = home)

Arrived == pc \in {"running", "exited"}

(* The awaits that are still before main() when the cloud is settled, on   *)
(* the longest way; with a registration for the wrong hub, its remaining   *)
(* attempts come on top, and a local failure may send it back.             *)
Stage ==
    CASE pc \in {"running", "exited"} -> 0
      [] pc = "shutClient" -> 1
      [] pc = "stopBle" -> 2
      [] pc = "ble" -> 3
      [] pc = "twin" -> 4
      [] pc = "twinPause" -> 5
      [] pc = "identify" -> 6
      [] pc = "connecting" -> 7
      [] pc = "create" -> 8
      [] pc = "registering" -> 9
      [] pc = "provision" -> 10
      [] pc \in {"provisionPause", "discard"} -> 11
      [] pc \in {"shutPipeline", "connectPause"} -> 12

Detour ==
    CASE assigned = home -> 0
      [] assigned # home /\ pc = "create" -> 2 * ATTEMPTS + 4
      [] assigned # home /\ pc = "connecting" -> 2 * (ATTEMPTS - attempts) + 4
      [] assigned # home /\ pc = "connectPause" -> 2 * (ATTEMPTS - attempts)
      [] OTHER -> 0

Ahead == Stage + Detour + 4 * (MaxFaults - faults)

(* While the cloud is settled, every step of main() brings it nearer to    *)
(* running or to its end, from whatever point of provisioning, connecting  *)
(* and pausing the outage left it at; no step loses the connection again.  *)
(* It needs the attempts to be counted and the device to be re-provisioned *)
(* when they are used up.                                                  *)
NearerWhenUp ==
    [][Settled /\ ~Arrived /\ UNCHANGED cloudVars
           => Settled' /\ Ahead' \in 0..(Ahead - 1)]_vars

-----------------------------------------------------------------------------
(* The exact number of open pipelines, by where main() is. *)
Holding == {"registering", "shutPipeline", "connecting", "connectPause",
            "discard"} \cup Serving \cup Cleaning
Accounting ==
    /\ pc \in Holding => open = leaks + 1
    /\ pc \in {"provision", "provisionPause", "create"} => open = leaks
    /\ pc = "exited" => \/ open = leaks
                        \/ open = leaks + 1 /\ cut \in Provisioning \cup Cleaning

(* A failure is owed a pause exactly where one follows. *)
Owed == /\ pc \in {"shutPipeline", "provisionPause", "connectPause", "twinPause"}
              => hot <= 1
        /\ pc \in {"provision", "registering", "create", "connecting", "discard",
                   "identify", "twin"} => hot = 0
        /\ hot <= 1

(* A registration is only used while attempts are left. *)
AttemptsLeft == pc = "connecting" => attempts < ATTEMPTS
=============================================================================
