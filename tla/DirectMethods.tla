----------------------------- MODULE DirectMethods -----------------------------
(***************************************************************************)
(* The cloud's direct methods (cloudApi/method_request_handler.py) and the *)
(* download one of them performs (cloudApi/file_download.py,               *)
(* cloudApi/blob_download_handler.py).                                     *)
(*                                                                         *)
(* One listener takes requests in the order of their arrival, runs their   *)
(* handler and sends its answer, or a 500 if anything raised.  A download  *)
(* goes to a temporary file that replaces the target when it is complete.  *)
(* pc is the await the listener is at.  The connection and the process may *)
(* fail at any time; the blob and the cap in the desired twin may be       *)
(* different for every download.  What a write does to the lift is in      *)
(* AhlPolling and ThousandPolling; here it takes effect or not.            *)
(***************************************************************************)
EXTENDS Integers, Sequences, FiniteSets

CONSTANTS
    Downloads,   \* requests ca.download-file with well-formed arguments
    Writes,      \* requests la.write.* with well-formed arguments
    TwinWrites,  \* those of them that patch the twin next (la.write.ar-number)
    Others,      \* the rest: reads, stubs, unknown names, malformed arguments
    Versions,    \* contents the blob may have
    Size,        \* their size in chunks
    Caps,        \* values of downloadMaxBytes in the desired twin, in chunks
    MaxRestarts  \* bound on ends of the process

Requests == Downloads \cup Writes \cup Others

ASSUME NoneAssumption == "none" \notin Requests \cup Versions
ASSUME KindsAssumption ==
    /\ Downloads \cap (Writes \cup Others) = {}
    /\ Writes \cap Others = {}
ASSUME TwinAssumption == TwinWrites \subseteq Writes
ASSUME SizeAssumption == Versions # {} /\ Size \in [Versions -> Nat]
ASSUME CapsAssumption == Caps # {} /\ Caps \subseteq Nat
ASSUME MaxRestartsAssumption == MaxRestarts \in Nat

NoFile == [v |-> "none", n |-> 0]
File == [v : Versions, n : Nat] \cup {NoFile}
NoRequest == "none"

VARIABLES
    net,       \* is the connection to the hub up?
    sent,      \* requests the cloud has made
    inbox,     \* requests the SDK has queued
    cur,       \* the request being handled
    pc,
    outcome,   \* what the handler returned: "ok", "refused" or "none"
    effect,    \* requests that changed the lift or the target file
    answer,    \* per request, the first answer that reached the hub
    lost,      \* requests whose answer cannot come any more
    maxBytes,  \* the cap this download was started with
    file, tmp, \* the target and its temporary file
    restarts

cloudVars == <<net, sent>>
diskVars == <<file, tmp>>
vars == <<cloudVars, inbox, cur, pc, outcome, effect, answer, lost, maxBytes,
          diskVars, restarts>>

(* Every variable is in range; there is a current request exactly while    *)
(* the listener is not waiting for one.                                    *)
TypeOK ==
    /\ net \in BOOLEAN
    /\ sent \subseteq Requests
    /\ inbox \in Seq(Requests)
    /\ cur \in Requests \cup {NoRequest}
    /\ pc \in {"receive", "handle", "publish", "blocked", "props", "open",
               "stream", "install", "cleanup", "respond", "fail"}
    /\ pc = "receive" <=> cur = NoRequest
    /\ outcome \in {"none", "ok", "refused"}
    /\ effect \subseteq Requests
    /\ answer \in [Requests -> {"none", "ok", "refused", "failed"}]
    /\ lost \subseteq Requests
    /\ maxBytes \in Nat
    /\ file \in File
    /\ tmp \in File
    /\ restarts \in 0..MaxRestarts

Init ==
    /\ net \in BOOLEAN
    /\ sent = {}
    /\ inbox = <<>>
    /\ cur = NoRequest
    /\ pc = "receive"
    /\ outcome = "none"
    /\ effect = {}
    /\ answer = [r \in Requests |-> "none"]
    /\ lost = {}
    /\ maxBytes = 0
    /\ file = NoFile /\ tmp = NoFile
    /\ restarts = 0

-----------------------------------------------------------------------------
(* Environment: the cloud calls a method; the connection comes and goes. *)
CloudCalls(r) ==
    /\ net
    /\ r \notin sent
    /\ sent' = sent \cup {r}
    /\ inbox' = Append(inbox, r)
    /\ UNCHANGED <<net, cur, pc, outcome, effect, answer, lost,
                   maxBytes, diskVars, restarts>>

NetChanges ==
    /\ net' = ~net
    /\ UNCHANGED <<sent, inbox, cur, pc, outcome, effect, answer, lost, maxBytes,
                   diskVars, restarts>>

-----------------------------------------------------------------------------
(* Mutant: the newest request is taken first. *)
ReceiveNewest ==
    /\ pc = "receive"
    /\ inbox # <<>>
    /\ cur' = inbox[Len(inbox)]
    /\ inbox' = SubSeq(inbox, 1, Len(inbox) - 1)
    /\ pc' = "handle"
    /\ UNCHANGED <<cloudVars, outcome, effect, answer, lost, maxBytes, diskVars, restarts>>

(* receive_method_request() returns the oldest request. *)
Receive ==
    /\ pc = "receive"
    /\ inbox # <<>>
    /\ cur' = Head(inbox)
    /\ inbox' = Tail(inbox)
    /\ pc' = "handle"
    /\ UNCHANGED <<cloudVars, outcome, effect, answer, lost, maxBytes, diskVars, restarts>>

(* The handler returns an envelope, to be sent next. *)
Return(o) ==
    /\ outcome' = o
    /\ pc' = "respond"

(* Reads of the cache and stubs answer 200, unknown names and malformed    *)
(* arguments 404 and 400.                                                  *)
HandleAtOnce ==
    /\ pc = "handle"
    /\ cur \in Others
    /\ \E o \in {"ok", "refused"} : Return(o)
    /\ UNCHANGED <<cloudVars, inbox, cur, effect, answer, lost, maxBytes,
                   diskVars, restarts>>

(* The proxy answers with success.  The lift need not have stored anything *)
(* for it: a 1k lift is not asked when the cached value is the requested   *)
(* one, and a late acknowledgement of an earlier request passes for this.  *)
WriteDone ==
    /\ pc = "handle"
    /\ cur \in Writes
    /\ effect' \in {effect, effect \cup {cur}}
    /\ pc' = "publish"
    /\ UNCHANGED <<cloudVars, inbox, cur, outcome, answer, lost, maxBytes, diskVars,
                   restarts>>

(* push_param_event() and report_property() return, whether the cloud got  *)
(* it or not: both log what their send raises.                             *)
Published ==
    /\ pc = "publish"
    /\ Return("ok")
    /\ UNCHANGED <<cloudVars, inbox, cur, effect, answer, lost, maxBytes, diskVars,
                   restarts>>

(* The twin patch has no timeout of its own, and its response never comes. *)
PublishHangs ==
    /\ pc = "publish"
    /\ cur \in TwinWrites
    /\ pc' = "blocked"
    /\ UNCHANGED <<cloudVars, inbox, cur, outcome, effect, answer, lost, maxBytes,
                   diskVars, restarts>>

(* The proxy answers with an error.  The lift may have stored the value. *)
WriteRefused ==
    /\ pc = "handle"
    /\ cur \in Writes
    /\ effect' \in {effect, effect \cup {cur}}
    /\ Return("refused")
    /\ UNCHANGED <<cloudVars, inbox, cur, answer, lost, maxBytes, diskVars,
                   restarts>>

(* Mutant: an exception of a handler is only logged. *)
HandlerRaisesLogged ==
    /\ pc = "handle"
    /\ pc' = "receive"
    /\ cur' = NoRequest
    /\ maxBytes' = 0
    /\ UNCHANGED <<cloudVars, inbox, outcome, effect, answer, lost, diskVars,
                   restarts>>

(* An exception in a handler: the listener answers 500 instead.  A write   *)
(* may have been stored before.                                            *)
HandlerRaises ==
    /\ pc = "handle"
    /\ pc' = "fail"
    /\ effect' \in {effect} \cup {effect \cup {r} : r \in Writes \cap {cur}}
    /\ UNCHANGED <<cloudVars, inbox, cur, outcome, answer, lost, maxBytes,
                   diskVars, restarts>>

-----------------------------------------------------------------------------
(* _ca_download_file(): the cap is what the desired twin says now; type,   *)
(* scheme, host and file name are checked.                                 *)
DownloadStart ==
    /\ pc = "handle"
    /\ cur \in Downloads
    /\ maxBytes' \in Caps
    /\ \/ pc' = "props" /\ UNCHANGED outcome
       \/ Return("refused")
    /\ UNCHANGED <<cloudVars, inbox, cur, effect, answer, lost, diskVars, restarts>>

(* The size the blob reports, which need not be its size, fits the cap. *)
PropsFit ==
    /\ pc = "props"
    /\ pc' = "open"
    /\ UNCHANGED <<cloudVars, inbox, cur, outcome, effect, answer, lost,
                   maxBytes, diskVars, restarts>>

(* It does not, or cannot be read. *)
PropsRefused ==
    /\ pc = "props"
    /\ Return("refused")
    /\ UNCHANGED <<cloudVars, inbox, cur, effect, answer, lost, maxBytes,
                   diskVars, restarts>>

(* _transfer_to_file(), in a worker thread: the temporary file is emptied, *)
(* whatever an earlier process left in it.                                 *)
OpenTmp ==
    /\ pc = "open"
    /\ \E v \in Versions : tmp' = [v |-> v, n |-> 0]
    /\ pc' = "stream"
    /\ UNCHANGED <<cloudVars, inbox, cur, outcome, effect, answer, lost,
                   maxBytes, file, restarts>>

(* Mutant: the size that was reported is believed. *)
ChunkUncounted ==
    /\ pc = "stream"
    /\ tmp.n < Size[tmp.v]
    /\ tmp' = [tmp EXCEPT !.n = @ + 1]
    /\ UNCHANGED <<cloudVars, inbox, cur, pc, outcome, effect, answer, lost,
                   maxBytes, file, restarts>>

(* A chunk arrives; one too many ends the transfer. *)
Chunk ==
    /\ pc = "stream"
    /\ tmp.n < Size[tmp.v]
    /\ IF tmp.n + 1 > maxBytes
          THEN pc' = "cleanup" /\ UNCHANGED tmp
          ELSE tmp' = [tmp EXCEPT !.n = @ + 1] /\ UNCHANGED pc
    /\ UNCHANGED <<cloudVars, inbox, cur, outcome, effect, answer, lost,
                   maxBytes, file, restarts>>

(* The end of the blob. *)
StreamEnds ==
    /\ pc = "stream"
    /\ tmp.n = Size[tmp.v]
    /\ pc' = "install"
    /\ UNCHANGED <<cloudVars, inbox, cur, outcome, effect, answer, lost,
                   maxBytes, diskVars, restarts>>

(* The directory cannot be made, the stream cannot be opened, a read times *)
(* out, the deadline has passed, the blob has changed, the disk is full.   *)
TransferFails ==
    /\ pc \in {"open", "stream"}
    /\ pc' = "cleanup"
    /\ UNCHANGED <<cloudVars, inbox, cur, outcome, effect, answer, lost,
                   maxBytes, diskVars, restarts>>

(* os.replace() moves the complete file over the target. *)
Install ==
    /\ pc = "install"
    /\ file' = tmp
    /\ tmp' = NoFile
    /\ effect' = effect \cup {cur}
    /\ Return("ok")
    /\ UNCHANGED <<cloudVars, inbox, cur, answer, lost, maxBytes, restarts>>

InstallFails ==
    /\ pc = "install"
    /\ pc' = "cleanup"
    /\ UNCHANGED <<cloudVars, inbox, cur, outcome, effect, answer, lost,
                   maxBytes, diskVars, restarts>>

(* Mutant: the result of download_from_blob() is not looked at. *)
CleanupIgnored ==
    /\ pc = "cleanup"
    /\ tmp' \in {NoFile, tmp}
    /\ Return("ok")
    /\ UNCHANGED <<cloudVars, inbox, cur, effect, answer, lost, maxBytes, file,
                   restarts>>

(* The temporary file is removed, if that works; the answer is an error. *)
Cleanup ==
    /\ pc = "cleanup"
    /\ tmp' \in {NoFile, tmp}
    /\ Return("refused")
    /\ UNCHANGED <<cloudVars, inbox, cur, effect, answer, lost, maxBytes, file,
                   restarts>>

-----------------------------------------------------------------------------
(* The hub takes the first answer to a request. *)
Deliver(a) ==
    answer' = [answer EXCEPT ![cur] = IF @ = "none" THEN a ELSE @]

(* The locals of the request are gone. *)
NextRequest ==
    /\ pc' = "receive"
    /\ cur' = NoRequest
    /\ outcome' = "none"
    /\ maxBytes' = 0

Respond ==
    /\ pc = "respond"
    /\ net
    /\ Deliver(outcome)
    /\ NextRequest
    /\ UNCHANGED <<cloudVars, inbox, effect, lost, diskVars, restarts>>

(* Sending raises; the answer may have arrived nevertheless. *)
RespondRaises ==
    /\ pc = "respond"
    /\ ~net
    /\ Deliver(outcome) \/ UNCHANGED answer
    /\ pc' = "fail"
    /\ UNCHANGED <<cloudVars, inbox, cur, outcome, effect, lost, maxBytes,
                   diskVars, restarts>>

(* The 500 of the except branch; if it cannot be sent, that is logged. *)
RespondError ==
    /\ pc = "fail"
    /\ \/ net /\ Deliver("failed") /\ UNCHANGED lost
       \/ ~net /\ lost' = lost \cup {cur} /\ UNCHANGED answer
    /\ NextRequest
    /\ UNCHANGED <<cloudVars, inbox, effect, diskVars, restarts>>

(* The process ends (it is killed or cancelled, or a receive raises) and   *)
(* starts again; the files are as it left them.  A power cut is not meant: *)
(* nothing is synchronised before os.replace().                            *)
Restart ==
    /\ restarts < MaxRestarts
    /\ restarts' = restarts + 1
    /\ lost' = lost \cup {r \in sent : answer[r] = "none"}
    /\ inbox' = <<>>
    /\ NextRequest
    /\ UNCHANGED <<cloudVars, effect, answer, diskVars>>

Handle == HandleAtOnce \/ WriteDone \/ WriteRefused \/ HandlerRaises
Publish == Published \/ PublishHangs
Download ==
    \/ DownloadStart \/ PropsFit \/ PropsRefused \/ OpenTmp \/ Chunk \/ StreamEnds
    \/ TransferFails \/ Install \/ InstallFails \/ Cleanup
Answer == Respond \/ RespondRaises \/ RespondError
Listener == Receive \/ Handle \/ Publish \/ Download \/ Answer

Next ==
    \/ \E r \in Requests : CloudCalls(r)
    \/ NetChanges
    \/ Listener
    \/ Restart

(* Handlers return, reads of the stream end or time out, and sends return  *)
(* or raise: the listener goes on, except where the patch of the twin has  *)
(* blocked it; nothing but a restart, which need not come, helps then.     *)
Spec == Init /\ [][Next]_vars /\ WF_vars(Listener)

-----------------------------------------------------------------------------
(* The target is missing or a complete copy of some version of the blob,   *)
(* no larger than a cap allows, whatever happens in the middle of a        *)
(* download or of its installation ("atomic write", blob_download_handler  *)
(* and the size cap of file_download).                                     *)
InstalledWhole ==
    file # NoFile => /\ file.n = Size[file.v]
                     /\ \E c \in Caps : file.n <= c

(* What the cloud is told of a download is true, however its stages, the   *)
(* connection and the process fail: one answered with success has replaced *)
(* the target, and one answered with an error has left it alone ("a failed *)
(* download leaves any existing file untouched").  Of a write no such      *)
(* thing can be said: see WriteDone and WriteRefused.                      *)
DownloadsTruthful ==
    \A r \in Downloads :
        /\ answer[r] = "ok" => r \in effect
        /\ answer[r] = "refused" => r \notin effect

(* The target changes only by the request being handled, and only to what  *)
(* that request has just downloaded.                                       *)
OnlyDownloadsReplace ==
    [][file' # file => /\ cur \in Downloads /\ cur \notin effect
                       /\ file' = tmp /\ file'.n = Size[file'.v]]_vars

(* Every request that reached the gateway is answered in the end, unless   *)
(* the connection or the process was lost meanwhile, or the listener has   *)
(* come to the patch of the twin that never returns, after which only a    *)
(* restart goes on and gives up what is pending: no other handler, and no  *)
(* exception, stops the listener.                                          *)
Answered ==
    \A r \in Requests :
        r \in sent ~> (answer[r] # "none" \/ r \in lost \/ pc = "blocked")

(* Complete copies of a version of the blob that fits a cap. *)
WholeFiles == {f \in [v : Versions, n : Nat] :
                  f.n = Size[f.v] /\ \E c \in Caps : f.n <= c}

(* The requests not done with, oldest first. *)
Pending == IF cur = NoRequest THEN inbox ELSE <<cur>> \o inbox

Service == INSTANCE MethodService
           WITH called  <- sent,
                pending <- Pending,
                target  <- file,
                Whole   <- WholeFiles,
                Missing <- NoFile

(* The cloud sees MethodService: requests are served one at a time in the  *)
(* order of the calls, each has its effect and its answer at most once and *)
(* in that order, a download a true one, none disappears or comes back     *)
(* after it was given up, and downloads go from one whole file to the      *)
(* next.                                                                   *)
ImplementsMethodService == Service!Spec

-----------------------------------------------------------------------------
DownloadPcs == {"props", "open", "stream", "install", "cleanup"}

(* A request that has neither had an effect nor an answer. *)
Fresh(r) == r \in sent /\ r \notin effect /\ answer[r] = "none"

(* Queued requests are fresh, different from each other and from the one   *)
(* being handled.                                                          *)
QueueInv ==
    /\ \A i \in 1..Len(inbox) : Fresh(inbox[i]) /\ inbox[i] # cur
    /\ \A i, j \in 1..Len(inbox) : inbox[i] = inbox[j] => i = j
    /\ effect \subseteq sent
    /\ \A r \in Requests : answer[r] # "none" => r \in sent
    /\ cur # NoRequest => cur \in sent

(* What is known of the request being handled. *)
RequestInv ==
    /\ pc \in DownloadPcs => cur \in Downloads /\ maxBytes \in Caps
    /\ pc \in {"handle"} \cup DownloadPcs => Fresh(cur)
    /\ pc \in {"publish", "blocked"} => cur \in Writes /\ answer[cur] = "none"
    /\ pc = "respond" =>
          /\ answer[cur] = "none"
          /\ outcome \in {"ok", "refused"}
          /\ cur \in Downloads => (outcome = "ok" <=> cur \in effect)

(* No request is forgotten: one that was made is queued, being handled,    *)
(* answered or counted as lost; and one that is lost is not queued.        *)
NoneForgotten ==
    /\ lost \subseteq sent
    /\ \A r \in lost : r # cur /\ \A i \in 1..Len(inbox) : inbox[i] # r
    /\ \A r \in sent : \/ r = cur
                       \/ \E i \in 1..Len(inbox) : inbox[i] = r
                       \/ answer[r] # "none"
                       \/ r \in lost

(* What is known of the temporary file while it is being written. *)
TransferInv ==
    /\ pc \in {"stream", "install"} =>
          tmp \in [v : Versions, n : Nat] /\ tmp.n <= maxBytes
    /\ pc = "install" => tmp.n = Size[tmp.v]
=============================================================================
