-------------------------- MODULE DirectMethodsProofs --------------------------
(***************************************************************************)
(* For any requests, in any order, any blobs and caps and any failures:    *)
(* what the cloud is told of downloads is true, the target file is always  *)
(* whole, no request is forgotten, only the patch of the twin may keep one *)
(* for ever, and the listener with its handlers and the download           *)
(* implements MethodService.                                               *)
(***************************************************************************)
EXTENDS DirectMethods, SequenceTheorems, TLAPS

USE NoneAssumption, KindsAssumption, TwinAssumption, SizeAssumption, CapsAssumption,
    MaxRestartsAssumption

(* The types apart from the Boolean variable. *)
DataOK ==
    /\ sent \subseteq Requests
    /\ inbox \in Seq(Requests)
    /\ cur \in Requests \cup {NoRequest}
    /\ pc \in {"receive", "handle", "publish", "blocked", "props", "open",
               "stream", "install", "cleanup", "respond", "fail"}
    /\ pc = "receive" <=> cur = NoRequest
    /\ outcome \in {"none", "ok", "refused"}
    /\ effect \subseteq Requests
    /\ answer \in [Requests -> {"none", "ok", "refused", "failed"}]
    /\ lost \subseteq Requests
    /\ maxBytes \in Nat
    /\ file \in File
    /\ tmp \in File
    /\ restarts \in 0..MaxRestarts

Inv == DataOK /\ QueueInv /\ RequestInv /\ TransferInv /\ InstalledWhole
       /\ DownloadsTruthful

(* Nothing has been asked for, nothing installed. *)
LEMMA InitInv == Init => Inv
  BY DEF Init, Inv, DataOK, QueueInv, RequestInv, TransferInv, InstalledWhole,
         DownloadsTruthful, Fresh, DownloadPcs, File, NoFile, NoRequest, Requests

NetOK == net \in BOOLEAN

(* The connection is up or down; Zenon treats the flag on its own. *)
LEMMA NetBoolean == Spec => []NetOK
  <1>1. Init => NetOK
    BY DEF Init, NetOK
  <1>2. NetOK /\ [Next]_vars => NetOK'
    BY Zenon DEF NetOK, Next, vars, cloudVars, CloudCalls, NetChanges, Listener, Receive,
       Handle, HandleAtOnce, WriteDone, WriteRefused, HandlerRaises, Publish,
       Published, PublishHangs, Download, DownloadStart, PropsFit, PropsRefused,
       OpenTmp, Chunk, StreamEnds,
       TransferFails, Install, InstallFails, Cleanup, Answer, Respond,
       RespondRaises, RespondError, Restart
  <1> QED BY <1>1, <1>2, PTL DEF Spec

(* Every step keeps the types. *)
LEMMA StepData == Inv /\ [Next]_vars => DataOK'
  <1> SUFFICES ASSUME Inv, [Next]_vars PROVE DataOK'
    OBVIOUS
  <1> USE DEF DataOK, File, NoFile, NoRequest, cloudVars, diskVars
  <1>1. ASSUME NEW r \in Requests, CloudCalls(r) PROVE DataOK'
    BY <1>1 DEF Inv, CloudCalls
  <1>2. CASE NetChanges
    BY <1>2 DEF Inv, NetChanges
  <1>3. CASE Receive
    <2>1. Head(inbox) \in Requests /\ Tail(inbox) \in Seq(Requests)
      BY <1>3 DEF Inv, Receive
    <2> QED BY <1>3, <2>1 DEF Inv, Receive
  <1>4. CASE Handle
    <2>1. CASE HandleAtOnce \/ HandlerRaises
      BY <2>1 DEF Inv, HandleAtOnce, HandlerRaises, Return
    <2>2. CASE WriteDone \/ WriteRefused
      <3>1. cur \in Requests
        BY <2>2 DEF WriteDone, WriteRefused, Requests
      <3> QED BY <2>2, <3>1 DEF Inv, WriteDone, WriteRefused, Return
    <2> QED BY <1>4, <2>1, <2>2 DEF Handle
  <1>4a. CASE Publish
    BY <1>4a DEF Inv, Publish, Published, PublishHangs, Return
  <1>5. CASE DownloadStart \/ PropsFit \/ PropsRefused \/ StreamEnds
             \/ TransferFails \/ InstallFails
    BY <1>5 DEF Inv, DownloadStart, PropsFit, PropsRefused, StreamEnds,
       TransferFails, InstallFails, Return
  <1>6. CASE OpenTmp \/ Cleanup
    BY <1>6 DEF Inv, OpenTmp, Cleanup, Return
  <1>7. CASE Chunk
    <2>1. tmp' = tmp \/ tmp' = [tmp EXCEPT !.n = tmp.n + 1]
      BY <1>7 DEF Chunk
    <2>2. tmp \in [v : Versions, n : Nat]
      BY <1>7 DEF Inv, Chunk, TransferInv
    <2>3. tmp' \in File
      BY <2>1, <2>2
    <2>4. pc' \in {"stream", "cleanup"} /\ pc = "stream"
      BY <1>7 DEF Inv, Chunk
    <2>5. UNCHANGED <<sent, inbox, cur, outcome, effect, answer, lost, maxBytes,
                      file, restarts>>
      BY <1>7 DEF Chunk
    <2> QED BY <2>3, <2>4, <2>5 DEF Inv
  <1>8. CASE Install
    BY <1>8 DEF Inv, Install, Return, RequestInv, DownloadPcs, Requests
  <1>9. CASE Respond
    BY <1>9 DEF Inv, Respond, Deliver, NextRequest, RequestInv
  <1>10. CASE RespondRaises
    BY <1>10 DEF Inv, RespondRaises, Deliver, RequestInv
  <1>11. CASE RespondError
    BY <1>11 DEF Inv, RespondError, Deliver, NextRequest
  <1>12. CASE Restart
    BY <1>12 DEF Inv, Restart, NextRequest
  <1>13. CASE UNCHANGED vars
    BY <1>13 DEF Inv, vars
  <1> QED
    BY <1>1, <1>2, <1>3, <1>4, <1>4a, <1>5, <1>6, <1>7, <1>8, <1>9, <1>10, <1>11,
       <1>12, <1>13 DEF Next, Listener, Download, Answer

(* Every step keeps the queue of fresh, different requests. *)
LEMMA StepQueue == Inv /\ [Next]_vars => QueueInv'
  <1> SUFFICES ASSUME Inv, [Next]_vars PROVE QueueInv'
    OBVIOUS
  <1> USE DEF Inv, DataOK, QueueInv, Fresh, NoRequest, cloudVars
  <1>1. ASSUME NEW r \in Requests, CloudCalls(r) PROVE QueueInv'
    <2>1. /\ Len(inbox') = Len(inbox) + 1
          /\ inbox'[Len(inbox) + 1] = r
          /\ \A i \in 1..Len(inbox) : inbox'[i] = inbox[i]
      BY <1>1 DEF CloudCalls
    <2>2. Len(inbox) \in Nat
      OBVIOUS
    <2>3. r \notin sent /\ r \notin effect /\ answer[r] = "none" /\ r # cur
      BY <1>1 DEF CloudCalls
    <2>4. \A i \in 1..Len(inbox) : inbox[i] # r
      BY <2>3
    <2>5. sent' = sent \cup {r} /\ UNCHANGED <<cur, effect, answer>>
      BY <1>1 DEF CloudCalls
    <2>6. \A i \in 1..Len(inbox') : Fresh(inbox[i])' /\ inbox'[i] # cur'
      BY <2>1, <2>2, <2>3, <2>5
    <2>7. \A i, j \in 1..Len(inbox') : inbox'[i] = inbox'[j] => i = j
      BY <2>1, <2>2, <2>4
    <2> QED BY <2>5, <2>6, <2>7
  <1>2. CASE Receive
    <2>1. /\ cur' = inbox[1] /\ inbox[1] \in Requests
          /\ Len(inbox) \in Nat \ {0} /\ Len(inbox') = Len(inbox) - 1
          /\ \A i \in 1..Len(inbox') : inbox'[i] = inbox[i + 1]
      BY <1>2 DEF Receive
    <2>2. UNCHANGED <<sent, effect, answer>>
      BY <1>2 DEF Receive
    <2>3. \A i \in 1..Len(inbox') : i + 1 \in 1..Len(inbox) /\ i + 1 # 1
      BY <2>1
    <2>4. ASSUME NEW i \in 1..Len(inbox')
          PROVE  Fresh(inbox[i])' /\ inbox'[i] # cur'
      <3>1. inbox'[i] = inbox[i + 1] /\ i + 1 \in 1..Len(inbox) /\ 1 \in 1..Len(inbox)
        BY <2>1, <2>3
      <3>2. Fresh(inbox[i + 1]) /\ inbox[i + 1] # inbox[1]
        BY <2>3, <3>1
      <3> QED BY <2>1, <2>2, <3>1, <3>2
    <2>5. \A i, j \in 1..Len(inbox') : inbox'[i] = inbox'[j] => i = j
      BY <2>1, <2>3
    <2>6. cur' \in sent
      BY <2>1
    <2> QED BY <2>2, <2>4, <2>5, <2>6
  <1>3. CASE Handle \/ Publish
    <2>1. cur \in sent /\ cur # NoRequest
      BY <1>3 DEF Handle, HandleAtOnce, WriteDone, WriteRefused, HandlerRaises,
         Publish, Published, PublishHangs
    <2>2. UNCHANGED <<sent, inbox, cur, answer>> /\ effect' \subseteq effect \cup {cur}
      BY <1>3 DEF Handle, HandleAtOnce, WriteDone, WriteRefused, HandlerRaises,
         Publish, Published, PublishHangs
    <2> QED BY <2>1, <2>2
  <1>4. CASE Download
    <2>1. cur \in sent
      BY <1>4 DEF Download, DownloadStart, PropsFit, PropsRefused, OpenTmp, Chunk,
         StreamEnds, TransferFails, Install, InstallFails, Cleanup
    <2>2. UNCHANGED <<sent, inbox, cur, answer>> /\ effect' \subseteq effect \cup {cur}
      BY <1>4 DEF Download, DownloadStart, PropsFit, PropsRefused, OpenTmp, Chunk,
         StreamEnds, TransferFails, Install, InstallFails, Cleanup
    <2> QED BY <2>1, <2>2
  <1>5. CASE Answer
    <2>1. cur \in sent
      BY <1>5 DEF Answer, Respond, RespondRaises, RespondError
    <2>2. UNCHANGED <<sent, inbox, effect>> /\ cur' \in {cur, NoRequest}
      BY <1>5 DEF Answer, Respond, RespondRaises, RespondError, NextRequest
    <2>3. \A r \in Requests : r # cur => answer'[r] = answer[r]
      BY <1>5 DEF Answer, Respond, RespondRaises, RespondError, Deliver
    <2>4. \A i \in 1..Len(inbox) : inbox[i] \in Requests
      OBVIOUS
    <2> QED BY <2>1, <2>2, <2>3, <2>4
  <1>6. CASE Restart
    BY <1>6 DEF Restart, NextRequest
  <1>7. CASE NetChanges \/ UNCHANGED vars
    BY <1>7 DEF NetChanges, vars
  <1> QED BY <1>1, <1>2, <1>3, <1>4, <1>5, <1>6, <1>7 DEF Next, Listener

(* Every step keeps what is known of the request and of its transfer. *)
LEMMA StepRequest == Inv /\ [Next]_vars => RequestInv' /\ TransferInv'
  <1> SUFFICES ASSUME Inv, [Next]_vars PROVE RequestInv' /\ TransferInv'
    OBVIOUS
  <1> USE DEF Inv, DataOK, RequestInv, TransferInv, Fresh, NoRequest, DownloadPcs,
              cloudVars, diskVars
  <1>1. ASSUME NEW r \in Requests, CloudCalls(r) PROVE RequestInv' /\ TransferInv'
    BY <1>1 DEF CloudCalls
  <1>2. CASE NetChanges \/ UNCHANGED vars
    BY <1>2 DEF NetChanges, vars
  <1>3. CASE Receive
    <2>1. cur' = inbox[1] /\ 1 \in 1..Len(inbox)
      BY <1>3 DEF Receive
    <2> QED BY <1>3, <2>1 DEF Receive, QueueInv
  <1>4. CASE HandleAtOnce \/ HandlerRaises
    BY <1>4 DEF HandleAtOnce, HandlerRaises, Return
  <1>5. CASE WriteDone \/ WriteRefused \/ Publish
    BY <1>5 DEF WriteDone, WriteRefused, Publish, Published, PublishHangs, Return
  <1>6. CASE DownloadStart \/ PropsFit \/ PropsRefused
    BY <1>6 DEF DownloadStart, PropsFit, PropsRefused, Return
  <1>7. CASE OpenTmp
    BY <1>7 DEF OpenTmp
  <1>8. CASE Chunk
    BY <1>8 DEF Chunk
  <1>9. CASE StreamEnds \/ TransferFails \/ InstallFails
    BY <1>9 DEF StreamEnds, TransferFails, InstallFails
  <1>10. CASE Install \/ Cleanup
    BY <1>10 DEF Install, Cleanup, Return
  <1>11. CASE Answer
    BY <1>11 DEF Answer, Respond, RespondRaises, RespondError, NextRequest
  <1>12. CASE Restart
    BY <1>12 DEF Restart, NextRequest
  <1> QED
    BY <1>1, <1>2, <1>3, <1>4, <1>5, <1>6, <1>7, <1>8, <1>9, <1>10, <1>11, <1>12
       DEF Next, Listener, Handle, Download

(* Only an installation changes the target, and it puts a whole file there. *)
LEMMA StepFile ==
  Inv /\ [Next]_vars =>
     \/ UNCHANGED file
     \/ /\ cur \in Downloads /\ cur \notin effect
        /\ file' = tmp /\ tmp.n = Size[tmp.v]
        /\ maxBytes \in Caps /\ tmp.n <= maxBytes
  BY DEF Inv, DataOK, RequestInv, TransferInv, Fresh, DownloadPcs, Next, vars,
     diskVars, CloudCalls, NetChanges, Listener, Receive, Handle, HandleAtOnce,
     WriteDone, WriteRefused, HandlerRaises, Publish, Published, PublishHangs,
     Download, DownloadStart, PropsFit, PropsRefused, OpenTmp, Chunk, StreamEnds,
     TransferFails, Install, InstallFails, Cleanup, Answer, Respond,
     RespondRaises, RespondError, Restart

(* Only the current request gets an answer, and a download a true one. *)
LEMMA StepTruthful == Inv /\ [Next]_vars => DownloadsTruthful'
  <1> SUFFICES ASSUME Inv, [Next]_vars PROVE DownloadsTruthful'
    OBVIOUS
  <1> USE DEF Inv, DataOK, DownloadsTruthful, Requests
  <1>1. CASE Handle \/ Publish \/ Download
    <2>1. UNCHANGED answer /\ effect \subseteq effect' /\ effect' \subseteq effect \cup {cur}
      BY <1>1 DEF Handle, HandleAtOnce, WriteDone, WriteRefused, HandlerRaises,
         Publish, Published, PublishHangs, Download, DownloadStart, PropsFit,
         PropsRefused, OpenTmp, Chunk,
         StreamEnds, TransferFails, Install, InstallFails, Cleanup
    <2>2. answer[cur] = "none"
      BY <1>1 DEF RequestInv, Fresh, DownloadPcs, Handle, HandleAtOnce, WriteDone,
         WriteRefused, HandlerRaises, Publish, Published, PublishHangs, Download,
         DownloadStart, PropsFit, PropsRefused, OpenTmp, Chunk, StreamEnds,
         TransferFails, Install,
         InstallFails, Cleanup
    <2> QED BY <2>1, <2>2
  <1>2. CASE Respond \/ RespondRaises
    BY <1>2 DEF Respond, RespondRaises, Deliver, RequestInv
  <1>3. CASE RespondError
    BY <1>3 DEF RespondError, Deliver
  <1>4. ASSUME NEW r \in Requests, CloudCalls(r) PROVE DownloadsTruthful'
    BY <1>4 DEF CloudCalls
  <1>5. CASE NetChanges \/ Receive \/ Restart \/ UNCHANGED vars
    BY <1>5 DEF NetChanges, Receive, Restart, vars
  <1> QED BY <1>1, <1>2, <1>3, <1>4, <1>5 DEF Next, Listener, Answer

(* All of it, for the whole of a behaviour. *)
LEMMA Inductive == Spec => []Inv
  <1>1. Inv /\ [Next]_vars => Inv'
    <2> SUFFICES ASSUME Inv, [Next]_vars PROVE Inv'
      OBVIOUS
    <2>1. InstalledWhole'
      BY StepFile DEF Inv, InstalledWhole
    <2> QED BY <2>1, StepData, StepQueue, StepRequest, StepTruthful DEF Inv
  <1> QED BY <1>1, InitInv, PTL DEF Spec

(* The listener and its handlers keep every variable in range. *)
THEOREM TypeCorrect == Spec => []TypeOK
  <1>1. Inv /\ NetOK => TypeOK
    BY Zenon DEF Inv, NetOK, DataOK, TypeOK
  <1> QED BY <1>1, Inductive, NetBoolean, PTL

(* download_from_blob() never leaves a partial or oversized target file.   *)
THEOREM TargetWhole == Spec => []InstalledWhole
  <1>1. Inv => InstalledWhole
    BY DEF Inv
  <1> QED BY <1>1, Inductive, PTL

(* listen_for_method() never tells the cloud of a download that has not    *)
(* replaced the target, nor that one has failed which has, whichever of    *)
(* its stages failed and however often the sending was tried.              *)
THEOREM DownloadsToldTrue == Spec => []DownloadsTruthful
  <1>1. Inv => DownloadsTruthful
    BY DEF Inv
  <1> QED BY <1>1, Inductive, PTL

(* The target only ever changes to what the current download completed.    *)
THEOREM OnlyCompleteReplaces == Spec => OnlyDownloadsReplace
  <1>1. Inv /\ [Next]_vars =>
          [file' # file => /\ cur \in Downloads /\ cur \notin effect
                           /\ file' = tmp /\ file'.n = Size[file'.v]]_vars
    BY StepFile
  <1> QED BY <1>1, Inductive, PTL DEF Spec, OnlyDownloadsReplace

-----------------------------------------------------------------------------
(* The refinement of MethodService. *)

(* The request being served is the first of those pending. *)
LEMMA PendingHead ==
  ASSUME NEW S, NEW c \in S, NEW s \in Seq(S)
  PROVE  /\ <<c>> \o s # <<>>
         /\ Head(<<c>> \o s) = c /\ Tail(<<c>> \o s) = s
  <1>1. /\ <<c>> \o s \in Seq(S) /\ Len(<<c>> \o s) = Len(s) + 1
        /\ (<<c>> \o s)[1] = c
        /\ \A i \in 1..Len(s) : (<<c>> \o s)[i + 1] = s[i]
    OBVIOUS
  <1>2. <<c>> \o s # <<>> /\ Head(<<c>> \o s) = c
    BY <1>1
  <1>3. Tail(<<c>> \o s) = s
    BY <1>1
  <1> QED BY <1>2, <1>3

(* What else is known of the queue with that request in front. *)
LEMMA PendingFacts ==
  ASSUME NEW S, NEW c \in S, NEW s \in Seq(S)
  PROVE  /\ <<c>> \o s \in Seq(S)
         /\ <<c>> \o s # <<>>
         /\ Head(<<c>> \o s) = c
         /\ Tail(<<c>> \o s) = s
         /\ \A r \in S : Append(<<c>> \o s, r) = <<c>> \o Append(s, r)
         /\ s # <<>> => <<Head(s)>> \o Tail(s) = s
         /\ Len(<<c>> \o s) = Len(s) + 1
         /\ (<<c>> \o s)[1] = c
         /\ \A i \in 1..Len(s) : (<<c>> \o s)[i + 1] = s[i]
  <1>1. /\ <<c>> \o s \in Seq(S) /\ Len(<<c>> \o s) = Len(s) + 1
        /\ (<<c>> \o s)[1] = c
        /\ \A i \in 1..Len(s) : (<<c>> \o s)[i + 1] = s[i]
    OBVIOUS
  <1>2. /\ <<c>> \o s # <<>>
        /\ Head(<<c>> \o s) = c /\ Tail(<<c>> \o s) = s
    BY PendingHead
  <1>3. ASSUME NEW r \in S PROVE Append(<<c>> \o s, r) = <<c>> \o Append(s, r)
    OBVIOUS
  <1>4. s # <<>> => <<Head(s)>> \o Tail(s) = s
    OBVIOUS
  <1> QED BY <1>1, <1>2, <1>3, <1>4

(* Every step keeps account of every request that was made. *)
LEMMA StepForgotten == Inv /\ NoneForgotten /\ [Next]_vars => NoneForgotten'
  <1> SUFFICES ASSUME Inv, NoneForgotten, [Next]_vars PROVE NoneForgotten'
    OBVIOUS
  <1> USE DEF Inv, DataOK, NoneForgotten, NoRequest, cloudVars
  <1>1. ASSUME NEW r \in Requests, CloudCalls(r) PROVE NoneForgotten'
    <2>1. /\ Len(inbox) \in Nat /\ Len(inbox') = Len(inbox) + 1
          /\ inbox'[Len(inbox) + 1] = r
          /\ \A i \in 1..Len(inbox) : inbox'[i] = inbox[i]
      BY <1>1 DEF CloudCalls
    <2>2. /\ r \notin sent /\ sent' = sent \cup {r}
          /\ UNCHANGED <<cur, answer, lost>>
      BY <1>1 DEF CloudCalls
    <2>3. \A i \in 1..Len(inbox) : i \in 1..Len(inbox')
      BY <2>1
    <2>4. Len(inbox) + 1 \in 1..Len(inbox')
      BY <2>1
    <2>5. ASSUME NEW q \in sent' PROVE \/ q = cur'
                                       \/ \E i \in 1..Len(inbox') : inbox'[i] = q
                                       \/ answer'[q] # "none"
                                       \/ q \in lost'
      BY <2>1, <2>2, <2>3, <2>4
    <2>6. \A q \in lost' : q # cur' /\ \A i \in 1..Len(inbox') : inbox'[i] # q
      BY <2>1, <2>2
    <2> QED BY <2>2, <2>5, <2>6
  <1>2. CASE Receive
    <2>1. /\ cur' = inbox[1] /\ cur = "none"
          /\ Len(inbox) \in Nat \ {0} /\ Len(inbox') = Len(inbox) - 1
          /\ \A i \in 1..Len(inbox') : inbox'[i] = inbox[i + 1]
      BY <1>2 DEF Receive
    <2>2. UNCHANGED <<sent, answer, lost>>
      BY <1>2 DEF Receive
    <2>3. \A i \in 1..Len(inbox) : i = 1 \/ (i - 1 \in 1..Len(inbox')
                                              /\ inbox'[i - 1] = inbox[i])
      BY <2>1
    <2>4. \A i \in 1..Len(inbox') : i + 1 \in 1..Len(inbox)
      BY <2>1
    <2>5. ASSUME NEW q \in sent' PROVE \/ q = cur'
                                       \/ \E i \in 1..Len(inbox') : inbox'[i] = q
                                       \/ answer'[q] # "none"
                                       \/ q \in lost'
      BY <2>1, <2>2, <2>3
    <2>6. \A q \in lost' : q # cur' /\ \A i \in 1..Len(inbox') : inbox'[i] # q
      BY <2>1, <2>2, <2>4
    <2> QED BY <2>2, <2>5, <2>6
  <1>3. CASE Handle \/ Publish
    BY <1>3 DEF Handle, HandleAtOnce, WriteDone, WriteRefused, HandlerRaises,
       Publish, Published, PublishHangs
  <1>4. CASE Download
    BY <1>4 DEF Download, DownloadStart, PropsFit, PropsRefused, OpenTmp, Chunk,
       StreamEnds, TransferFails, Install, InstallFails, Cleanup
  <1>5. CASE Respond \/ RespondRaises
    <2>1. outcome # "none" /\ answer[cur] = "none" /\ cur \in Requests
      BY <1>5 DEF Respond, RespondRaises, RequestInv
    <2> QED BY <1>5, <2>1 DEF Respond, RespondRaises, NextRequest, Deliver
  <1>6. CASE RespondError
    <2>1. cur \in Requests /\ cur \in sent /\ cur # "none"
          /\ \A i \in 1..Len(inbox) : inbox[i] # cur
      BY <1>6 DEF RespondError, QueueInv
    <2>2. UNCHANGED <<sent, inbox>> /\ cur' = "none"
      BY <1>6 DEF RespondError, NextRequest
    <2>3. CASE net /\ Deliver("failed") /\ UNCHANGED lost
      BY <2>1, <2>2, <2>3 DEF Deliver
    <2>4. CASE ~net /\ lost' = lost \cup {cur} /\ UNCHANGED answer
      BY <2>1, <2>2, <2>4
    <2> QED BY <1>6, <2>3, <2>4 DEF RespondError
  <1>7. CASE Restart
    BY <1>7 DEF Restart, NextRequest
  <1>8. CASE NetChanges \/ UNCHANGED vars
    BY <1>8 DEF NetChanges, vars
  <1> QED BY <1>1, <1>2, <1>3, <1>4, <1>5, <1>6, <1>7, <1>8 DEF Next, Listener, Answer

(* Every step of the listener, the cloud and the process is a step of      *)
(* MethodService or invisible in it.                                       *)
LEMMA StepRefines ==
  Inv /\ Inv' /\ NoneForgotten /\ [Next]_vars => [Service!Next]_(Service!vars)
  <1> SUFFICES ASSUME Inv, Inv', NoneForgotten, [Next]_vars
               PROVE  [Service!Next]_(Service!vars)
    OBVIOUS
  <1> USE DEF NoRequest
  <1>0. /\ inbox \in Seq(Requests) /\ cur \in Requests \cup {"none"}
        /\ pc = "receive" <=> cur = "none"
        /\ inbox' \in Seq(Requests)
        /\ answer \in [Requests -> {"none", "ok", "refused", "failed"}]
        /\ Service!Requests = Requests
    BY DEF Inv, DataOK, Service!Requests, Requests
  <1>a. ASSUME cur # "none"
        PROVE  /\ cur \in Requests
               /\ Pending = <<cur>> \o inbox
               /\ Pending # <<>> /\ Head(Pending) = cur /\ Tail(Pending) = inbox
    <2>1. cur \in Requests /\ Pending = <<cur>> \o inbox
      BY <1>0, <1>a DEF Pending
    <2>2. inbox \in Seq(Requests)
      BY <1>0
    <2>3. /\ <<cur>> \o inbox # <<>>
          /\ Head(<<cur>> \o inbox) = cur /\ Tail(<<cur>> \o inbox) = inbox
      BY <2>1, <2>2, PendingHead
    <2> QED BY <2>1, <2>3, Zenon
  <1>b. ASSUME UNCHANGED <<cur, inbox>> PROVE UNCHANGED Pending
    BY <1>b DEF Pending
  <1>c. ASSUME cur' = "none" PROVE Pending' = inbox'
    BY <1>c DEF Pending
  <1>1. ASSUME NEW r \in Requests, CloudCalls(r) PROVE Service!Call(r)
    <2>1. Pending' = Append(Pending, r)
      <3>1. cur' = cur /\ inbox' = Append(inbox, r)
        BY <1>1 DEF CloudCalls
      <3>2. CASE cur = "none"
        BY <3>1, <3>2 DEF Pending
      <3>3. CASE cur # "none"
        BY <1>0, <3>1, <3>3, PendingFacts DEF Pending
      <3> QED BY <3>2, <3>3
    <2> QED BY <1>1, <2>1 DEF CloudCalls, Service!Call, diskVars
  <1>2. CASE Receive
    <2>1. Pending = inbox /\ cur' = Head(inbox) /\ inbox' = Tail(inbox)
          /\ inbox # <<>> /\ cur' \in Requests /\ cur' # "none"
      BY <1>0, <1>2 DEF Receive, Pending
    <2>2. Pending' = <<Head(inbox)>> \o Tail(inbox)
      BY <2>1 DEF Pending
    <2>3. Pending' = Pending
      BY <1>0, <2>1, <2>2, PendingFacts
    <2> QED BY <1>2, <2>3 DEF Receive, Service!vars, cloudVars, diskVars
  <1>3. CASE HandleAtOnce \/ DownloadStart \/ PropsFit \/ PropsRefused \/ OpenTmp
             \/ Chunk \/ StreamEnds \/ TransferFails \/ InstallFails \/ Cleanup
             \/ Published \/ PublishHangs
    BY <1>3, <1>b DEF HandleAtOnce, Published, PublishHangs, DownloadStart,
       PropsFit, PropsRefused,
       OpenTmp, Chunk, StreamEnds, TransferFails, InstallFails, Cleanup, Service!vars,
       cloudVars, diskVars
  <1>4. CASE WriteDone \/ WriteRefused \/ HandlerRaises
    <2>1. /\ cur # "none" /\ answer[cur] = "none" /\ cur \notin effect
          /\ UNCHANGED <<cur, inbox, sent, answer, lost, file>>
      BY <1>0, <1>4 DEF WriteDone, WriteRefused, HandlerRaises, Inv, RequestInv,
         Fresh, cloudVars, diskVars
    <2>2. \/ effect' = effect
          \/ cur \in Writes /\ effect' = effect \cup {cur}
      BY <1>4 DEF WriteDone, WriteRefused, HandlerRaises
    <2>3. CASE effect' = effect
      BY <1>b, <2>1, <2>3 DEF Service!vars
    <2>4. CASE cur \in Writes /\ effect' = effect \cup {cur}
      <3>1. Service!Store(cur)
        BY <1>a, <1>b, <2>1, <2>4 DEF Service!Store, Service!Served,
           Service!TakesEffect
      <3> QED BY <1>0, <1>a, <2>1, <3>1 DEF Service!Next
    <2> QED BY <2>2, <2>3, <2>4
  <1>5. CASE Install
    <2>1. /\ cur # "none" /\ answer[cur] = "none" /\ cur \notin effect
          /\ cur \in Downloads /\ effect' = effect \cup {cur}
          /\ UNCHANGED <<cur, inbox, sent, answer, lost>>
      BY <1>0, <1>5 DEF Install, Inv, RequestInv, Fresh, DownloadPcs, cloudVars
    <2>2. file' \in WholeFiles
      BY <1>5 DEF Install, Inv, RequestInv, TransferInv, DownloadPcs, WholeFiles
    <2>3. Service!Replace(cur)
      BY <1>a, <1>b, <2>1, <2>2 DEF Service!Replace, Service!Served,
         Service!TakesEffect
    <2> QED BY <1>0, <1>a, <2>1, <2>3 DEF Service!Next
  <1>6. CASE Respond \/ RespondRaises
    <2>1. /\ cur # "none" /\ answer[cur] = "none" /\ outcome \in {"ok", "refused"}
          /\ UNCHANGED <<sent, inbox, effect, lost, file>>
          /\ \/ cur' = cur
             \/ cur' = "none"
          /\ Deliver(outcome) \/ (UNCHANGED answer /\ cur' = cur)
      BY <1>0, <1>6 DEF Respond, RespondRaises, NextRequest, Inv, RequestInv,
         cloudVars, diskVars
    <2>2. Service!Truthful(cur, outcome)
      BY <1>6, <2>1 DEF Respond, RespondRaises, Inv, RequestInv, Service!Truthful
    <2>3. Pending' \in {Pending, Tail(Pending)}
      BY <1>a, <1>b, <1>c, <2>1
    <2>4. CASE Deliver(outcome)
      <3>1. answer' = [answer EXCEPT ![cur] = outcome]
        BY <2>1, <2>4 DEF Deliver
      <3>2. Service!Reply(cur)
        BY <1>a, <2>1, <2>2, <2>3, <3>1 DEF Service!Reply, Service!Served
      <3> QED BY <1>0, <1>a, <2>1, <3>2 DEF Service!Next
    <2>5. CASE UNCHANGED answer /\ cur' = cur
      BY <1>b, <2>1, <2>5 DEF Service!vars
    <2> QED BY <2>1, <2>4, <2>5
  <1>7. CASE RespondError
    <2>1. /\ cur # "none" /\ UNCHANGED <<sent, inbox, effect, file>>
          /\ cur' = "none"
      BY <1>0, <1>7 DEF RespondError, NextRequest, cloudVars, diskVars
    <2>2. Pending # <<>> /\ cur = Head(Pending) /\ Pending' = Tail(Pending)
      BY <1>a, <1>c, <2>1
    <2>3. CASE net /\ Deliver("failed") /\ UNCHANGED lost /\ answer[cur] = "none"
      <3>1. answer' = [answer EXCEPT ![cur] = "failed"]
        BY <2>3 DEF Deliver
      <3>2. Service!Truthful(cur, "failed")
        BY DEF Service!Truthful
      <3>3. Service!Reply(cur)
        BY <2>1, <2>2, <2>3, <3>1, <3>2 DEF Service!Reply, Service!Served
      <3> QED BY <1>0, <1>a, <2>1, <3>3 DEF Service!Next
    <2>4. CASE net /\ Deliver("failed") /\ UNCHANGED lost /\ answer[cur] # "none"
      <3>1. answer' = answer
        BY <1>0, <1>a, <2>1, <2>4 DEF Deliver
      <3>2. Service!Settle(cur)
        BY <2>1, <2>2, <2>4, <3>1 DEF Service!Settle
      <3> QED BY <1>0, <1>a, <2>1, <3>2 DEF Service!Next
    <2>5. CASE ~net /\ lost' = lost \cup {cur} /\ UNCHANGED answer
      <3>1. Service!Settle(cur)
        BY <2>1, <2>2, <2>5 DEF Service!Settle
      <3> QED BY <1>0, <1>a, <2>1, <3>1 DEF Service!Next
    <2> QED BY <1>7, <2>3, <2>4, <2>5 DEF RespondError
  <1>8. CASE Restart
    <2>1. /\ Pending' = <<>> /\ UNCHANGED <<sent, effect, answer, file>>
          /\ lost' = lost \cup {r \in sent : answer[r] = "none"}
      BY <1>8, <1>c DEF Restart, NextRequest, cloudVars, diskVars
    <2>2. /\ sent \subseteq Requests /\ Len(inbox) \in Nat
          /\ \A r \in sent : \/ r = cur
                             \/ \E i \in 1..Len(inbox) : inbox[i] = r
                             \/ answer[r] # "none"
                             \/ r \in lost
          /\ cur # "none" => cur \in sent
          /\ \A i \in 1..Len(inbox) : inbox[i] \in sent
      BY <1>0 DEF NoneForgotten, Inv, DataOK, QueueInv, Fresh
    <2>3. \A r \in Requests : (\E i \in 1..Len(Pending) : Pending[i] = r) <=>
                             (r = cur \/ \E i \in 1..Len(inbox) : inbox[i] = r)
      <3>1. CASE cur = "none"
        BY <3>1 DEF Pending
      <3>2. CASE cur # "none"
        <4>1. /\ Len(Pending) = Len(inbox) + 1 /\ Pending[1] = cur
              /\ \A i \in 1..Len(inbox) : Pending[i + 1] = inbox[i]
          BY <1>0, <1>a, <3>2, PendingFacts
        <4>2. \A i \in 1..Len(Pending) : i = 1 \/ i - 1 \in 1..Len(inbox)
          BY <2>2, <4>1
        <4>3. \A i \in 1..Len(inbox) : i + 1 \in 1..Len(Pending)
          BY <2>2, <4>1
        <4>4. \A i \in 1..Len(Pending) : i # 1 => Pending[i] = inbox[i - 1]
          BY <2>2, <4>1, <4>2
        <4>5. 1 \in 1..Len(Pending)
          BY <2>2, <4>1
        <4> QED BY <4>1, <4>2, <4>3, <4>4, <4>5
      <3> QED BY <3>1, <3>2
    <2>4. lost' = lost \cup {r \in Requests :
                               /\ answer[r] = "none"
                               /\ \E i \in 1..Len(Pending) : Pending[i] = r}
      BY <1>0, <2>1, <2>2, <2>3
    <2>5. Service!Crash
      BY <1>0, <2>1, <2>4 DEF Service!Crash
    <2> QED BY <2>5 DEF Service!Next
  <1>9. CASE NetChanges
    BY <1>9, <1>b DEF NetChanges, Service!vars, diskVars
  <1>10. CASE UNCHANGED vars
    BY <1>10, <1>b DEF vars, Service!vars, cloudVars, diskVars
  <1> QED
    BY <1>0, <1>1, <1>2, <1>3, <1>4, <1>5, <1>6, <1>7, <1>8, <1>9, <1>10
       DEF Next, Listener, Handle, Publish, Download, Answer, Service!Next

(* The listener, its handlers and the download implement MethodService,    *)
(* for any requests, blobs, caps, failures and restarts.                   *)
THEOREM ListenerImplementsService == Spec => ImplementsMethodService
  <1>1. Init => Service!Init /\ NoneForgotten
    BY DEF Init, Service!Init, Service!Requests, Requests, NoneForgotten, Pending,
       NoRequest
  <1> QED
    BY <1>1, StepForgotten, StepRefines, Inductive, PTL
       DEF Spec, ImplementsMethodService, Service!Spec

(* No request the cloud has made is forgotten by the listener: it is       *)
(* queued, being handled, answered or counted as lost.                     *)
THEOREM RequestsAccounted == Spec => []NoneForgotten
  <1>1. Init => NoneForgotten
    BY DEF Init, NoneForgotten, NoRequest
  <1> QED BY <1>1, StepForgotten, Inductive, PTL DEF Spec

-----------------------------------------------------------------------------
(* The argument behind Answered, apart from fairness: serving a request is *)
(* bounded, up to the patch of the twin.  What bounds a download is the    *)
(* cap, not the blob: its size is what the storage says it is, and may     *)
(* change.                                                                 *)

Budget ==
    CASE pc = "fail" -> 1
      [] pc = "respond" -> 2
      [] pc \in {"publish", "cleanup"} -> 3
      [] pc = "install" -> 4
      [] pc = "stream" -> 5 + (maxBytes - tmp.n)
      [] pc = "open" -> 6 + maxBytes
      [] pc = "props" -> 7 + maxBytes
      [] OTHER -> 0

BudgetTable ==
    /\ pc \in {"receive", "handle", "blocked"} => Budget = 0
    /\ pc = "fail" => Budget = 1
    /\ pc = "respond" => Budget = 2
    /\ pc \in {"publish", "cleanup"} => Budget = 3
    /\ pc = "install" => Budget = 4
    /\ pc = "stream" => Budget = 5 + (maxBytes - tmp.n)
    /\ pc = "open" => Budget = 6 + maxBytes
    /\ pc = "props" => Budget = 7 + maxBytes

(* A step of the listener once it has a request: it does not start it      *)
(* again, and from then on each step has less before it.  The others leave *)
(* it alone or, a restart, end it.                                         *)
ServeFalls ==
    pc # "receive" =>
        /\ pc' = "handle" => UNCHANGED pc /\ ~Listener
        /\ pc # "handle" => IF Listener THEN Budget' < Budget ELSE Budget' <= Budget

(* Budget, await by await, before and after a step. *)
LEMMA BudgetNow == BudgetTable
  BY DEF Budget, BudgetTable

LEMMA BudgetThen == BudgetTable'
  BY DEF Budget, BudgetTable

(* Every step of the handler and of the download is one row further down   *)
(* the table, and a chunk stays in its row but uses up some of the cap.    *)
LEMMA ServeStep == Inv /\ [Next]_vars => ServeFalls
  <1> SUFFICES ASSUME Inv, [Next]_vars, pc # "receive" PROVE ServeFalls
    BY DEF ServeFalls
  <1>0. /\ maxBytes \in Nat
        /\ pc = "stream" => tmp.n \in Nat /\ tmp.n <= maxBytes
        /\ pc \in {"handle", "publish", "blocked", "props", "open", "stream",
                   "install", "cleanup", "respond", "fail"}
    BY DEF Inv, DataOK, TransferInv
  <1> USE BudgetNow, BudgetThen, <1>0 DEF BudgetTable
  <1>1. ~Receive
    BY DEF Receive
  <1>2. ASSUME Handle PROVE pc = "handle" /\ pc' # "handle"
    BY <1>2 DEF Handle, HandleAtOnce, WriteDone, WriteRefused, HandlerRaises, Return
  <1>3. ASSUME DownloadStart PROVE pc = "handle" /\ pc' # "handle"
    BY <1>3 DEF DownloadStart, Return
  <1>4. ASSUME Answer PROVE pc # "handle" /\ pc' # "handle" /\ Budget' < Budget
    BY <1>4 DEF Answer, Respond, RespondRaises, RespondError, NextRequest
  <1>5. ASSUME PropsFit \/ PropsRefused \/ TransferFails \/ Install \/ InstallFails
               \/ Cleanup \/ StreamEnds \/ Publish
        PROVE pc # "handle" /\ pc' # "handle" /\ Budget' < Budget
    BY <1>5 DEF PropsFit, PropsRefused, TransferFails, Install, InstallFails, Cleanup,
       StreamEnds, Publish, Published, PublishHangs, Return
  <1>6. ASSUME OpenTmp
        PROVE pc # "handle" /\ pc' # "handle" /\ Budget' < Budget
    <2>1. pc = "open" /\ pc' = "stream" /\ maxBytes' = maxBytes /\ tmp'.n = 0
      BY <1>6 DEF OpenTmp
    <2> QED BY <2>1
  <1>7. ASSUME Chunk
        PROVE pc # "handle" /\ pc' # "handle" /\ Budget' < Budget
    <2>1. CASE tmp.n + 1 > maxBytes
      BY <1>7, <2>1 DEF Chunk
    <2>2. CASE ~(tmp.n + 1 > maxBytes)
      <3>1. pc = "stream" /\ pc' = "stream" /\ maxBytes' = maxBytes
        BY <1>7, <2>2 DEF Chunk
      <3>2. tmp'.n = tmp.n + 1
        BY <1>7, <2>2 DEF Chunk, Inv, TransferInv
      <3> QED BY <3>1, <3>2
    <2> QED BY <2>1, <2>2
  <1>8. Listener => /\ pc' # "handle"
                    /\ pc # "handle" => Budget' < Budget
    BY <1>1, <1>2, <1>3, <1>4, <1>5, <1>6, <1>7 DEF Listener, Download
  <1>9. ASSUME (\E r \in Requests : CloudCalls(r)) \/ NetChanges \/ UNCHANGED vars
        PROVE  pc' = pc /\ maxBytes' = maxBytes /\ tmp' = tmp
    BY <1>9 DEF CloudCalls, NetChanges, vars, diskVars
  <1>10. Restart => pc' = "receive"
    BY DEF Restart, NextRequest
  <1>11. CASE Listener
    BY <1>8, <1>11 DEF ServeFalls
  <1>12. CASE ~Listener
    <2>1. CASE Restart
      BY <2>1, <1>10, <1>12 DEF ServeFalls
    <2>2. CASE (\E r \in Requests : CloudCalls(r)) \/ NetChanges \/ UNCHANGED vars
      <3>1. Budget' = Budget
        BY <2>2, <1>9, Zenon DEF Budget
      <3>2. Budget \in Nat
        OBVIOUS
      <3> QED BY <3>1, <3>2, <2>2, <1>9, <1>12 DEF ServeFalls
    <2> QED BY <2>1, <2>2, <1>12 DEF Next
  <1> QED BY <1>11, <1>12

(* For any requests, blobs, caps and failures, once the listener has taken *)
(* a request it is handled once, and a natural number then falls with      *)
(* every step of the listener until it is ready for the next or blocked by *)
(* the patch of the twin: no download goes on for ever, whatever the       *)
(* storage sends.                                                          *)
THEOREM ServingIsBounded == Spec => [][ServeFalls]_vars /\ [](Budget \in Nat)
  <1>1. Inv => Budget \in Nat
    BY BudgetNow DEF BudgetTable, Inv, DataOK, TransferInv
  <1>2. Inv /\ [Next]_vars => [ServeFalls]_vars
    BY ServeStep
  <1> QED BY <1>1, <1>2, Inductive, PTL DEF Spec
=============================================================================
