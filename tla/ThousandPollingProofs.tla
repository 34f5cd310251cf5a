------------------------ MODULE ThousandPollingProofs ------------------------
(***************************************************************************)
(* TLAPS proofs about ThousandPolling, for any packages, slots and values  *)
(* and any number of faults: what holds with every fault, and what holds   *)
(* as well once the line spares the gateway some of them.                  *)
(***************************************************************************)
EXTENDS ThousandPolling, TLAPS

(* The parts of TypeOK with and without Boolean variables; the provers     *)
(* need them apart.                                                        *)
FlagsOK == arrived \in BOOLEAN /\ doors \in BOOLEAN /\ force \in BOOLEAN

DataOK ==
    /\ lift \in [Packages -> Contents]
    /\ db \in [Packages -> [Slots -> Values \cup {NotSet}]]
    /\ stray \in Strays \cup {NoStray}
    /\ queue \in Seq(Packages)
    /\ nextFile \in 1..Len(FilePackages)
    /\ updated \in SUBSET Params
    /\ motor \in {"none", "good", "bad"}
    /\ step \in {"idle", "poll", "write"}
    /\ write \in Writes \cup {NoWrite}
    /\ unsent \in SUBSET Params
    /\ dropped \in SUBSET Params
    /\ events \in 0..MaxEvents

(* While a write is between its two transactions it is recorded. *)
Typed == DataOK /\ (step = "write" => write \in Writes)

(* The parts make up TypeOK. *)
LEMMA TypeParts == TypeOK <=> FlagsOK /\ DataOK
BY Zenon DEF TypeOK, FlagsOK, DataOK

(* What the assumptions say of the package lists. *)
LEMMA ListFacts ==
    /\ Files \subseteq Packages
    /\ Elements(AlwaysPolled) \subseteq Packages
    /\ AlwaysPolled \in Seq(Packages)
    /\ FilePackages \in Seq(Packages)
    /\ Len(FilePackages) \in Nat /\ Len(FilePackages) > 0
    /\ \A i \in 1..Len(FilePackages) : FilePackages[i] \in Packages
<1>1. Files \subseteq Packages /\ Elements(AlwaysPolled) \subseteq Packages
  BY DEF Packages
<1>2. AlwaysPolled \in Seq(Elements(AlwaysPolled)) /\ FilePackages \in Seq(Files)
        /\ Len(FilePackages) > 0
  BY PackagesAssumption
<1>3. AlwaysPolled \in Seq(Packages) /\ FilePackages \in Seq(Packages)
  BY <1>1, <1>2
<1> QED
  BY <1>1, <1>2, <1>3

(* The round robin stays within the list of files. *)
LEMMA AfterFileInRange ==
    ASSUME NEW i \in 1..Len(FilePackages)
    PROVE  AfterFile(i) \in 1..Len(FilePackages)
BY ListFacts DEF AfterFile

Kinds == {"answer", "ack"}

(* The answer taken for a request is an answer of the lift. *)
LEMMA AnswerTyped ==
    ASSUME DataOK, NEW q \in Packages
    PROVE  /\ \A kind \in Kinds : Own(kind, q) \in Strays
           /\ Answer(q) \in Strays
           /\ Answer(q).data \in Contents
BY DEF DataOK, Own, Answer, Stale, Strays, Kinds

(* What a transaction may leave on the line and in the queue of motor data. *)
WireOK == stray \in Strays \cup {NoStray} /\ motor \in {"none", "good", "bad"}

(* The helpers of a transaction stay within the types: emptying the        *)
(* buffer,                                                                 *)
LEMMA DrainTyped ==
    ASSUME DataOK, Drain
    PROVE  WireOK'
BY DEF DataOK, Drain, SaveNotes, WireOK

(* a response that is on its way, *)
LEMMA LateTyped ==
    ASSUME DataOK, NEW kind \in Kinds, NEW q \in Packages, IsLate(kind, q)
    PROVE  WireOK'
BY AnswerTyped DEF DataOK, IsLate, SaveNotes, WireOK

(* the number of faults, *)
LEMMA SpendTyped ==
    ASSUME DataOK, Spend \/ UNCHANGED events
    PROVE  events' \in 0..MaxEvents
BY MaxEventsAssumption DEF DataOK, Spend

(* a response in time, *)
LEMMA ReceiveTyped ==
    ASSUME DataOK, NEW kind \in Kinds, NEW q \in Packages, Receive(kind, q)
    PROVE  WireOK' /\ events' \in 0..MaxEvents
BY LateTyped, DrainTyped, SpendTyped, Zenon DEF Receive

(* no response, *)
LEMMA SilenceTyped ==
    ASSUME DataOK, NEW kind \in Kinds, NEW q \in Packages, Silence(kind, q)
    PROVE  WireOK' /\ events' \in 0..MaxEvents
BY LateTyped, DrainTyped, SpendTyped, Zenon DEF Silence

(* a response that makes no sense, *)
LEMMA GarbledTyped ==
    ASSUME DataOK, Garbled
    PROVE  WireOK' /\ events' \in 0..MaxEvents
BY DrainTyped, SpendTyped, Zenon DEF Garbled

(* what the lift has after a write, *)
LEMMA StoredTyped ==
    ASSUME DataOK, NEW q \in Packages, NEW c \in Contents,
           lift' \in MaybeStored(q, c) \/ lift' \in Stored(q, c)
    PROVE  lift' \in [Packages -> Contents]
BY DEF DataOK, MaybeStored, Stored

(* a value put into the contents of a package, *)
LEMMA PutTyped ==
    ASSUME DataOK, NEW q \in Packages, NEW s \in Slots, NEW v \in Values
    PROVE  [lift[q] EXCEPT ![s] = v] \in Contents
BY DEF DataOK, Contents

(* and unpacking an answer into the database. *)
LEMMA UnpackTyped ==
    ASSUME DataOK, NEW q \in Packages, NEW data \in Contents,
           NEW ok \in SUBSET Slots, Unpack(q, data, ok)
    PROVE  /\ db' \in [Packages -> [Slots -> Values \cup {NotSet}]]
           /\ Differs(q, data, ok) \in SUBSET Params
           /\ unsent' \in SUBSET Params
<1>1. Differs(q, data, ok) \in SUBSET Params
  BY DEF Differs, Params
<1>2. db' \in [Packages -> [Slots -> Values \cup {NotSet}]]
  BY DEF DataOK, Unpack, Contents
<1>3. unsent' \in SUBSET Params
  BY <1>1 DEF DataOK, Unpack
<1> QED
  BY <1>1, <1>2, <1>3

(* The database is empty, the line quiet. *)
LEMMA InitTyped == Init => FlagsOK /\ Typed
<1>1. Init => FlagsOK
  BY Zenon DEF Init, FlagsOK
<1>2. Init => Typed
  BY ListFacts, MaxEventsAssumption DEF Init, DataOK, Typed
<1> QED
  BY <1>1, <1>2

-----------------------------------------------------------------------------
(* Zenon keeps the Boolean variables, *)
LEMMA FlagsStep == FlagsOK /\ [Next]_vars => FlagsOK'
<1> SUFFICES ASSUME FlagsOK, [Next]_vars PROVE FlagsOK'
  OBVIOUS
<1> USE DEF FlagsOK
<1>0. ASSUME SaveNotes PROVE doors' \in BOOLEAN
  BY <1>0, Zenon DEF SaveNotes
<1>1. ASSUME Drain PROVE arrived' \in BOOLEAN /\ doors' \in BOOLEAN
  BY <1>0, <1>1, Zenon DEF Drain
<1>21. ASSUME NEW kind, NEW q, IsLate(kind, q)
       PROVE  arrived' \in BOOLEAN /\ doors' \in BOOLEAN
  BY <1>0, <1>21, Zenon DEF IsLate
<1>2. ASSUME NEW kind, NEW q, Receive(kind, q)
      PROVE  arrived' \in BOOLEAN /\ doors' \in BOOLEAN
  BY <1>1, <1>2, <1>21, Zenon DEF Receive
<1>3. ASSUME NEW kind, NEW q, Silence(kind, q)
      PROVE  arrived' \in BOOLEAN /\ doors' \in BOOLEAN
  BY <1>1, <1>3, <1>21, Zenon DEF Silence
<1>4. ASSUME Garbled PROVE arrived' \in BOOLEAN /\ doors' \in BOOLEAN
  BY <1>1, <1>4, Zenon DEF Garbled
<1>5. CASE LiftStep
  BY <1>5, Zenon DEF LiftStep, StrayArrives, LiftChange, wireVars, pollVars,
     noteVars
<1>6. CASE PollStart
  BY <1>6, Zenon DEF PollStart, wireVars, noteVars
<1>7. CASE PollPackage
  BY <1>2, <1>7, Zenon DEF PollPackage
<1>8. CASE PollEnds \/ PollEndRaises
  BY <1>8, Zenon DEF PollEnds, PollEndRaises, wireVars
<1>9. CASE \E ok \in SUBSET Slots : PollShortPackage(ok)
  BY <1>1, <1>9, Zenon DEF PollShortPackage
<1>10. CASE PackageFails
  BY <1>4, <1>10, Zenon DEF PackageFails
<1>11. CASE PollAborts
  BY <1>3, <1>11, Zenon DEF PollAborts
<1>12. CASE PollRaises
  BY <1>12, Zenon DEF PollRaises, wireVars, noteVars
<1>13. CASE \E q \in Packages, s \in Slots : WriteSame(q, s)
  BY <1>13, Zenon DEF WriteSame, wireVars, pollVars, noteVars
<1>14. CASE \E q \in Packages, s \in Slots, v \in Values : WriteSetting(q, s, v)
  BY <1>1, <1>14, <1>21, Zenon DEF WriteSetting, pollVars
<1>15. CASE \E q \in Packages, s \in Slots, v \in Values :
               WriteSettingFails(q, s, v)
  BY <1>1, <1>3, <1>4, <1>15, <1>21, Zenon DEF WriteSettingFails, pollVars
<1>16. CASE \E q \in Packages, s \in Slots, v \in Values : WriteText(q, s, v)
  BY <1>0, <1>1, <1>16, Zenon DEF WriteText, pollVars
<1>22. CASE \E q \in Packages : ReadText(q)
  BY <1>2, <1>3, <1>4, <1>22, Zenon DEF ReadText, pollVars
<1>17. CASE \E f \in Files, s \in Slots, v \in Values : WriteRead(f, s, v)
  BY <1>2, <1>17, Zenon DEF WriteRead, pollVars
<1>18. CASE \E f \in Files, s \in Slots : WriteReadFails(f, s)
  BY <1>3, <1>4, <1>18, Zenon DEF WriteReadFails, pollVars
<1>19. CASE WriteDone
  BY <1>2, <1>3, <1>4, <1>19, Zenon DEF WriteDone, WriteFile, WriteFileFails, pollVars
<1>20. CASE UNCHANGED vars
  BY <1>20, Zenon DEF vars, wireVars, pollVars, noteVars
<1> QED
  BY <1>5, <1>6, <1>7, <1>8, <1>9, <1>10, <1>11, <1>12, <1>13, <1>14, <1>15,
     <1>16, <1>17, <1>18, <1>19, <1>20, <1>22, Zenon
     DEF Next, PollStep, PollFault, WriteStep

(* SMT the others. *)
LEMMA DataStep == Typed /\ [Next]_vars => Typed'
<1> SUFFICES ASSUME Typed, [Next]_vars PROVE Typed'
  OBVIOUS
<1> USE ListFacts, MaxEventsAssumption
<1>0. DataOK
  BY DEF Typed
<1>1. CASE StrayArrives
  BY <1>1 DEF StrayArrives, DataOK, Typed, pollVars, noteVars, cloudVars
<1>2. ASSUME NEW q \in Packages, NEW s \in Slots, LiftChange(q, s)
      PROVE  Typed'
  BY <1>2 DEF LiftChange, Spend, Contents, DataOK, Typed, wireVars, pollVars,
              noteVars, cloudVars
<1>3. CASE PollStart
  <2>1. queue' \in Seq(Packages)
    BY <1>0, <1>3 DEF PollStart, DataOK
  <2>2. nextFile' \in 1..Len(FilePackages)
    BY <1>0, <1>3, AfterFileInRange DEF PollStart, DataOK
  <2> QED
    BY <1>3, <2>1, <2>2 DEF PollStart, DataOK, Typed, wireVars, noteVars,
       cloudVars
<1>4. ASSUME step = "poll", queue # <<>>
      PROVE  Head(queue) \in Packages /\ Tail(queue) \in Seq(Packages)
  BY <1>0, <1>4 DEF DataOK
<1>5. CASE PollPackage
  <2>1. Answer(Head(queue)).data \in Contents
    BY <1>0, <1>4, <1>5, AnswerTyped DEF PollPackage
  <2>2. WireOK' /\ events' \in 0..MaxEvents
    BY <1>0, <1>4, <1>5, ReceiveTyped DEF PollPackage, Kinds
  <2>3. /\ db' \in [Packages -> [Slots -> Values \cup {NotSet}]]
        /\ Differs(Head(queue), Answer(Head(queue)).data, Slots)
             \in SUBSET Params
        /\ unsent' \in SUBSET Params
    BY <1>0, <1>4, <1>5, <2>1, UnpackTyped DEF PollPackage
  <2> QED
    BY <1>4, <1>5, <2>2, <2>3 DEF PollPackage, DataOK, Typed, WireOK
<1>6. ASSUME NEW ok \in SUBSET Slots, PollShortPackage(ok)
      PROVE  Typed'
  <2>1. lift[Head(queue)] \in Contents
    BY <1>0, <1>4, <1>6 DEF PollShortPackage, DataOK
  <2>2. WireOK' /\ events' \in 0..MaxEvents
    BY <1>0, <1>6, DrainTyped, SpendTyped DEF PollShortPackage
  <2>3. /\ db' \in [Packages -> [Slots -> Values \cup {NotSet}]]
        /\ Differs(Head(queue), lift[Head(queue)], ok) \in SUBSET Params
        /\ unsent' \in SUBSET Params
    BY <1>0, <1>4, <1>6, <2>1, UnpackTyped DEF PollShortPackage
  <2> QED
    BY <1>4, <1>6, <2>2, <2>3 DEF PollShortPackage, DataOK, Typed, WireOK
<1>7. CASE PackageFails
  <2>1. WireOK' /\ events' \in 0..MaxEvents
    BY <1>0, <1>7, GarbledTyped DEF PackageFails
  <2> QED
    BY <1>4, <1>7, <2>1 DEF PackageFails, DataOK, Typed, cloudVars, WireOK
<1>8. CASE PollAborts
  <2>1. WireOK' /\ events' \in 0..MaxEvents
    BY <1>0, <1>4, <1>8, SilenceTyped DEF PollAborts, Kinds
  <2> QED
    BY <1>8, <2>1 DEF PollAborts, DataOK, Typed, WireOK
<1>9. CASE PollRaises
  BY <1>0, <1>9, SpendTyped DEF PollRaises, DataOK, Typed, wireVars,
     noteVars
<1>10. CASE PollEnds \/ PollEndRaises
  BY <1>10 DEF PollEnds, PollEndRaises, DataOK, Typed, wireVars
<1>11. ASSUME NEW q \in Packages, NEW s \in Slots, WriteSame(q, s)
       PROVE  Typed'
  BY <1>11 DEF WriteSame, Pushed, DataOK, Typed, wireVars, pollVars, noteVars
<1>12. ASSUME NEW q \in Packages, NEW s \in Slots, NEW v \in Values,
              WriteSetting(q, s, v)
       PROVE  Typed'
  <2>1. WireOK' /\ events' \in 0..MaxEvents
    BY <1>0, <1>12, DrainTyped, LateTyped, SpendTyped DEF WriteSetting, Kinds
  <2>2. lift' \in [Packages -> Contents]
    BY <1>0, <1>12, PutTyped, StoredTyped DEF WriteSetting
  <2> QED
    BY <1>12, <2>1, <2>2
       DEF WriteSetting, Pushed, DataOK, Typed, pollVars, WireOK
<1>13. ASSUME NEW q \in Packages, NEW s \in Slots, NEW v \in Values,
              WriteSettingFails(q, s, v)
       PROVE  Typed'
  <2>1. WireOK' /\ events' \in 0..MaxEvents
    BY <1>0, <1>13, DrainTyped, LateTyped, SpendTyped, SilenceTyped, GarbledTyped
       DEF WriteSettingFails, Kinds
  <2>2. lift' \in [Packages -> Contents]
    BY <1>0, <1>13, PutTyped, StoredTyped DEF WriteSettingFails
  <2> QED
    BY <1>13, <2>1, <2>2
       DEF WriteSettingFails, DataOK, Typed, pollVars, cloudVars, WireOK
<1>14. ASSUME NEW q \in Packages, ReadText(q)
       PROVE  Typed'
  <2>1. WireOK' /\ events' \in 0..MaxEvents
    BY <1>0, <1>14, ReceiveTyped, SilenceTyped, GarbledTyped DEF ReadText, Kinds
  <2> QED
    BY <1>14, <2>1 DEF ReadText, DataOK, Typed, pollVars, cloudVars, WireOK
<1>15. ASSUME NEW q \in Packages, NEW s \in Slots, NEW v \in Values,
              WriteText(q, s, v)
       PROVE  Typed'
  <2> DEFINE c == [lift[q] EXCEPT ![s] = v]
  <2>0. c \in Contents
    BY <1>0, PutTyped
  <2>1. events' \in 0..MaxEvents
    BY <1>0, <1>15, SpendTyped DEF WriteText
  <2>2. CASE Drain /\ lift' \in MaybeStored(q, c)
    <3>1. WireOK' /\ lift' \in [Packages -> Contents]
      BY <1>0, <2>0, <2>2, DrainTyped, StoredTyped
    <3> QED
      BY <1>15, <2>1, <3>1 DEF WriteText, DataOK, Typed, pollVars, cloudVars, WireOK
  <2>3. CASE /\ lift' = [lift EXCEPT ![q][s] = v]
             /\ stray' = [kind |-> "answer", pkg |-> q, data |-> c]
             /\ SaveNotes
    <3>1. WireOK'
      BY <1>0, <2>0, <2>3 DEF SaveNotes, Strays, WireOK, DataOK
    <3>2. lift' \in [Packages -> Contents]
      BY <1>0, <2>3 DEF DataOK, Contents
    <3> QED
      BY <1>15, <2>1, <3>1, <3>2
         DEF WriteText, DataOK, Typed, pollVars, cloudVars, WireOK
  <2> QED
    BY <1>15, <2>2, <2>3 DEF WriteText
<1>16. ASSUME NEW f \in Files, NEW s \in Slots, NEW v \in Values,
              WriteRead(f, s, v)
       PROVE  Typed'
  <2>1. Answer(f).data \in Contents
    BY <1>0, AnswerTyped
  <2>2. WireOK' /\ events' \in 0..MaxEvents
    BY <1>0, <1>16, ReceiveTyped DEF WriteRead, Kinds
  <2>3. write' \in Writes
    BY <1>16, <2>1 DEF WriteRead, Writes
  <2> QED
    BY <1>16, <2>2, <2>3 DEF WriteRead, DataOK, Typed, pollVars, cloudVars,
       WireOK
<1>17. ASSUME NEW f \in Files, NEW s \in Slots, WriteReadFails(f, s)
       PROVE  Typed'
  <2>1. WireOK' /\ events' \in 0..MaxEvents
    BY <1>0, <1>17, SilenceTyped, GarbledTyped DEF WriteReadFails, Kinds
  <2> QED
    BY <1>17, <2>1 DEF WriteReadFails, DataOK, Typed, pollVars, cloudVars,
       WireOK
<1>18. ASSUME step = "write"
       PROVE  /\ write.pkg \in Packages /\ write.slot \in Slots
              /\ write.value \in Values
              /\ Patched \in Contents
  BY <1>18 DEF Typed, Writes, Contents, Patched
<1>19. CASE WriteFile
  <2>1. WireOK' /\ events' \in 0..MaxEvents
    BY <1>0, <1>18, <1>19, ReceiveTyped DEF WriteFile, Kinds
  <2>2. lift' \in [Packages -> Contents]
    BY <1>0, <1>18, <1>19, StoredTyped DEF WriteFile
  <2> QED
    BY <1>18, <1>19, <2>1, <2>2
       DEF WriteFile, Pushed, DataOK, Typed, pollVars, WireOK
<1>20. CASE WriteFileFails
  <2>1. WireOK' /\ events' \in 0..MaxEvents
    BY <1>0, <1>18, <1>20, SilenceTyped, GarbledTyped DEF WriteFileFails, Kinds
  <2>2. lift' \in [Packages -> Contents]
    BY <1>0, <1>18, <1>20, StoredTyped DEF WriteFileFails
  <2> QED
    BY <1>18, <1>20, <2>1, <2>2
       DEF WriteFileFails, DataOK, Typed, pollVars, cloudVars, WireOK
<1>21. CASE UNCHANGED vars
  BY <1>21 DEF vars, DataOK, Typed, wireVars, pollVars, noteVars, cloudVars
<1> QED
  BY <1>1, <1>2, <1>3, <1>5, <1>6, <1>7, <1>8, <1>9, <1>10, <1>11, <1>12,
     <1>13, <1>14, <1>15, <1>16, <1>17, <1>19, <1>20, <1>21
     DEF Next, LiftStep, PollStep, PollFault, WriteStep, WriteDone

(* The handler's state keeps its types: no error value of a failed         *)
(* transaction enters the database, and the file index stays in its list.  *)
THEOREM PollingTypeCorrect == Spec => []TypeOK
<1>1. TypeOK <=> FlagsOK /\ DataOK
  BY TypeParts
<1>2. Typed => DataOK
  BY DEF Typed
<1> QED
  BY <1>1, <1>2, InitTyped, FlagsStep, DataStep, PTL DEF Spec

-----------------------------------------------------------------------------
(* A change found by a poll is on its list until the poll ends. *)
LEMMA DropStep == OnlyAbortsDrop /\ [Next]_vars => OnlyAbortsDrop'
<1> SUFFICES ASSUME OnlyAbortsDrop, [Next]_vars PROVE OnlyAbortsDrop'
  OBVIOUS
<1> USE DEF OnlyAbortsDrop, pollVars, cloudVars
<1>1. CASE LiftStep
  BY <1>1 DEF LiftStep, StrayArrives, LiftChange
<1>2. CASE PollStart
  BY <1>2 DEF PollStart
<1>3. CASE PollPackage
  BY <1>3 DEF PollPackage, Unpack
<1>4. CASE PollEnds \/ PollEndRaises
  BY <1>4 DEF PollEnds, PollEndRaises
<1>5. CASE \E ok \in SUBSET Slots : PollShortPackage(ok)
  BY <1>5 DEF PollShortPackage, Unpack
<1>6. CASE PackageFails
  BY <1>6 DEF PackageFails
<1>7. CASE PollAborts
  BY <1>7 DEF PollAborts
<1>8. CASE PollRaises
  BY <1>8 DEF PollRaises
<1>9. CASE WriteStep
  BY <1>9 DEF WriteStep, WriteSame, WriteSetting, WriteSettingFails, ReadText,
              WriteText, WriteRead, WriteReadFails, Pushed
<1>10. CASE WriteDone
  BY <1>10 DEF WriteDone, WriteFile, WriteFileFails, Pushed
<1>11. CASE UNCHANGED vars
  BY <1>11 DEF vars
<1> QED
  BY <1>1, <1>2, <1>3, <1>4, <1>5, <1>6, <1>7, <1>8, <1>9, <1>10,
     <1>11 DEF Next, PollStep, PollFault

(* A changed parameter that the cloud has not got is on the list of the    *)
(* running poll, unless a poll that was given up or raised, or a short      *)
(* package, dropped it.                                                    *)
THEOREM NothingElseDrops == Spec => []OnlyAbortsDrop
<1>1. Init => OnlyAbortsDrop
  BY DEF Init, OnlyAbortsDrop
<1> QED
  BY <1>1, DropStep, PTL DEF Spec

-----------------------------------------------------------------------------
(* What the two transactions of a write do when the line and the lift leave *)
(* them alone.                                                              *)

NoStrayInv == stray = NoStray

(* Without late answers there is never a foreign one in the buffer. *)
LEMMA StrayStep ==
    ASSUME "late" \notin Events, NoStrayInv, [Next]_vars
    PROVE  NoStrayInv'
<1> USE DEF NoStrayInv
<1>1. ASSUME Drain PROVE stray' = NoStray
  BY <1>1 DEF Drain
<1>2. ASSUME NEW kind, NEW q, Receive(kind, q) \/ Silence(kind, q)
      PROVE  stray' = NoStray
  BY <1>1, <1>2 DEF Receive, Silence, IsLate
<1>3. CASE LiftStep
  BY <1>3 DEF LiftStep, StrayArrives, LiftChange, wireVars
<1>4. CASE PollStep
  BY <1>2, <1>4 DEF PollStep, PollStart, PollPackage, PollEnds,
     PollEndRaises, wireVars
<1>5. CASE PollFault
  BY <1>1, <1>2, <1>5 DEF PollFault, PollShortPackage, PackageFails, Garbled,
     PollAborts, PollRaises, wireVars
<1>6. CASE WriteStep
  BY <1>1, <1>2, <1>6 DEF WriteStep, WriteSame, WriteSetting, WriteRead,
     WriteSettingFails, ReadText, WriteText, WriteReadFails, Garbled, IsLate,
     wireVars
<1>7. CASE WriteDone
  BY <1>1, <1>2, <1>7 DEF WriteDone, WriteFile, WriteFileFails, Garbled
<1>8. CASE UNCHANGED vars
  BY <1>8 DEF vars, wireVars
<1> QED BY <1>3, <1>4, <1>5, <1>6, <1>7, <1>8 DEF Next

(* The contents between the two transactions are the lift's. *)
CopyInv == step = "write" => write.copy = lift[write.pkg]

(* Between the two transactions nobody but the lift could change the file. *)
LEMMA CopyStep ==
    ASSUME "change" \notin Events, NoStrayInv, CopyInv, [Next]_vars
    PROVE  CopyInv'
<1> USE DEF CopyInv
<1>1. CASE LiftStep
  BY <1>1 DEF LiftStep, StrayArrives, LiftChange
<1>2. CASE PollStep \/ PollFault
  BY <1>2 DEF PollStep, PollStart, PollPackage, PollEnds, PollEndRaises,
     PollFault, PollShortPackage, PackageFails, PollAborts, PollRaises
<1>3. ASSUME NEW f \in Files, NEW s \in Slots, NEW v \in Values,
             WriteRead(f, s, v)
      PROVE  CopyInv'
  <2>1. Answer(f).data = lift[f]
    BY DEF Answer, Stale, Own, NoStrayInv
  <2> QED BY <1>3, <2>1 DEF WriteRead
<1>4. CASE \E q \in Packages, s \in Slots, v \in Values :
              WriteSetting(q, s, v) \/ WriteSettingFails(q, s, v)
              \/ WriteText(q, s, v)
  BY <1>4 DEF WriteSetting, WriteSettingFails, WriteText
<1>5. CASE \/ \E q \in Packages : ReadText(q)
           \/ \E q \in Packages, s \in Slots :
                 WriteSame(q, s) \/ WriteReadFails(q, s)
  BY <1>5 DEF ReadText, WriteSame, WriteReadFails
<1>6. CASE WriteDone
  BY <1>6 DEF WriteDone, WriteFile, WriteFileFails
<1>7. CASE UNCHANGED vars
  BY <1>7 DEF vars
<1> QED
  BY <1>1, <1>2, <1>3, <1>4, <1>5, <1>6, <1>7, ListFacts DEF Next, WriteStep

(* The file that is saved differs from the lift's in the one parameter. *)
LEMMA PatchedIs ==
    ASSUME DataOK, write \in Writes, step = "write", CopyInv
    PROVE  /\ write.pkg \in Packages /\ write.pkg \in Files
           /\ write.slot \in Slots
           /\ Patched \in Contents
           /\ Patched[write.slot] = write.value
           /\ \A s \in Slots : s # write.slot => Patched[s] = lift[write.pkg][s]
BY ListFacts DEF DataOK, Writes, Contents, Patched, CopyInv

(* What a step that ends a write may do to the lift. *)
OneParamStep ==
    step = "write" /\ step' = "idle" =>
        \A p \in Params \ {<<write.pkg, write.slot>>} :
            lift'[p[1]][p[2]] = lift[p[1]][p[2]]

(* The file is written back as it was read, with one value replaced. *)
LEMMA OneParam ==
    ASSUME Typed, CopyInv, [Next]_vars
    PROVE  OneParamStep
<1> SUFFICES ASSUME step = "write", step' = "idle",
                    NEW p \in Params, p # <<write.pkg, write.slot>>
             PROVE  lift'[p[1]][p[2]] = lift[p[1]][p[2]]
  BY DEF OneParamStep
<1>1. PICK q \in Packages, s \in Slots : p = <<q, s>>
  BY DEF Params
<1>2. /\ write \in Writes /\ lift \in [Packages -> Contents]
      /\ write.pkg \in Packages /\ Patched \in Contents
      /\ \A t \in Slots : t # write.slot => Patched[t] = lift[write.pkg][t]
  BY PatchedIs DEF Typed, DataOK
<1>3. lift' = lift \/ lift' = [lift EXCEPT ![write.pkg] = Patched]
  BY DEF Next, LiftStep, StrayArrives, LiftChange, PollStep, PollStart,
     PollPackage, PollEnds, PollEndRaises, PollFault, PollShortPackage,
     PackageFails, PollAborts,
     PollRaises, WriteStep, WriteSame, WriteSetting, WriteSettingFails, ReadText,
     WriteText, WriteRead, WriteReadFails, WriteDone, WriteFile, WriteFileFails,
     MaybeStored, Stored, vars
<1>4. lift'[q][s] = lift[q][s]
  <2>1. CASE q = write.pkg
    BY <1>1, <1>2, <1>3, <2>1
  <2>2. CASE q # write.pkg
    BY <1>2, <1>3, <2>2
  <2> QED BY <2>1, <2>2
<1> QED BY <1>1, <1>4

(* write_parameter() saves back what it has read, with the one parameter   *)
(* replaced, as long as no late answer is taken for the file and the lift  *)
(* does not change it in between.  (With late answers it does not: the     *)
(* name in a readFile response is not compared with the file asked for.)   *)
THEOREM QuietWriteChangesOneParam ==
    ASSUME Events \cap {"late", "change"} = {}
    PROVE  Spec => WriteChangesOneParam
<1>1. "late" \notin Events /\ "change" \notin Events
  OBVIOUS
<1>2. Init => NoStrayInv /\ CopyInv
  BY DEF Init, NoStrayInv, CopyInv
<1>3. NoStrayInv /\ CopyInv /\ [Next]_vars => NoStrayInv' /\ CopyInv'
  BY <1>1, StrayStep, CopyStep
<1>4. Typed /\ CopyInv /\ [Next]_vars => [OneParamStep]_vars
  BY OneParam
<1>5. Spec => [][OneParamStep]_vars
  BY <1>2, <1>3, <1>4, InitTyped, DataStep, PTL DEF Spec
<1> QED BY <1>5 DEF WriteChangesOneParam, OneParamStep

(* A write takes its own value over into the database, a poll the lift's. *)
LEMMA CurrentStep ==
    ASSUME Events \cap {"late", "change", "silent", "garbled"} = {},
           Typed, NoStrayInv, CopyInv, FilesCurrent, [Next]_vars
    PROVE  FilesCurrent'
<1>0. /\ "late" \notin Events /\ "change" \notin Events /\ "silent" \notin Events
      /\ "garbled" \notin Events
      /\ DataOK /\ Files \subseteq Packages
      /\ lift \in [Packages -> Contents]
      /\ db \in [Packages -> [Slots -> Values \cup {NotSet}]]
  BY ListFacts DEF Typed, DataOK
<1>1. ASSUME UNCHANGED <<lift, db>> PROVE FilesCurrent'
  BY <1>1 DEF FilesCurrent
(* A package, whole or short, brings the lift's own values. *)
<1>2. ASSUME NEW q \in Packages, NEW ok \in SUBSET Slots, Unpack(q, lift[q], ok),
             UNCHANGED lift
      PROVE  FilesCurrent'
  <2> SUFFICES ASSUME NEW f \in Files, NEW s \in Slots
               PROVE  db'[f][s] \in {NotSet, lift[f][s]}
    BY <1>2 DEF FilesCurrent
  <2>1. db'[f][s] \in {db[f][s], lift[f][s]}
    BY <1>0, <1>2 DEF Unpack
  <2> QED BY <2>1 DEF FilesCurrent
<1>3. ASSUME step = "poll", queue # <<>> PROVE Head(queue) \in Packages
  BY <1>0, <1>3 DEF DataOK
<1>4. CASE LiftStep
  BY <1>0, <1>1, <1>4 DEF LiftStep, StrayArrives, LiftChange
<1>5. CASE \/ PollStart \/ PollEnds \/ PollEndRaises
           \/ PackageFails \/ PollAborts \/ PollRaises
  BY <1>1, <1>5 DEF PollStart, PollEnds, PollEndRaises, PackageFails, PollAborts, PollRaises
<1>6. CASE PollPackage
  <2>1. Answer(Head(queue)).data = lift[Head(queue)]
    BY DEF Answer, Stale, Own, NoStrayInv
  <2> QED BY <1>2, <1>3, <1>6, <2>1 DEF PollPackage
<1>7. CASE \E ok \in SUBSET Slots : PollShortPackage(ok)
  BY <1>2, <1>3, <1>7 DEF PollShortPackage
<1>8. ASSUME NEW q \in Packages, NEW s \in Slots, NEW v \in Values,
             WriteSetting(q, s, v) \/ WriteText(q, s, v)
      PROVE  FilesCurrent'
  <2>1. \A f \in Files : lift'[f] = lift[f] /\ db'[f] = db[f]
    BY <1>0, <1>8 DEF WriteSetting, WriteText, MaybeStored, Stored
  <2> QED BY <2>1 DEF FilesCurrent
<1>9. CASE \/ \E q \in Packages : ReadText(q)
           \/ \E q \in Packages, s \in Slots : WriteSame(q, s) \/ WriteReadFails(q, s)
           \/ \E f \in Files, s \in Slots, v \in Values : WriteRead(f, s, v)
  BY <1>1, <1>9 DEF ReadText, WriteSame, WriteReadFails, WriteRead
<1>10. CASE \E q \in Packages, s \in Slots, v \in Values : WriteSettingFails(q, s, v)
  <2>1. PICK q \in Packages, s \in Slots, v \in Values : WriteSettingFails(q, s, v)
    BY <1>10
  <2>2. \A f \in Files : lift'[f] = lift[f] /\ db'[f] = db[f]
    BY <1>0, <2>1 DEF WriteSettingFails, MaybeStored
  <2> QED BY <2>2 DEF FilesCurrent
<1>11. CASE WriteFile
  <2>1. /\ write \in Writes /\ write.pkg \in Packages /\ write.slot \in Slots
        /\ Patched \in Contents /\ Patched[write.slot] = write.value
        /\ \A s \in Slots : s # write.slot => Patched[s] = lift[write.pkg][s]
    BY <1>0, <1>11, PatchedIs DEF WriteFile, Typed
  <2>2. /\ lift' = [lift EXCEPT ![write.pkg] = Patched]
        /\ db' = [db EXCEPT ![write.pkg][write.slot] = write.value]
    BY <1>11 DEF WriteFile, Stored, Stale, NoStrayInv
  <2> SUFFICES ASSUME NEW f \in Files, NEW s \in Slots
               PROVE  db'[f][s] \in {NotSet, lift'[f][s]}
    BY DEF FilesCurrent
  <2>3. CASE f # write.pkg
    BY <1>0, <2>2, <2>3 DEF FilesCurrent
  <2>4. CASE f = write.pkg /\ s = write.slot
    BY <1>0, <2>1, <2>2, <2>4
  <2>5. CASE f = write.pkg /\ s # write.slot
    BY <1>0, <2>1, <2>2, <2>5 DEF FilesCurrent
  <2> QED BY <2>3, <2>4, <2>5
<1>12. CASE WriteFileFails
  BY <1>0, <1>12 DEF WriteFileFails, Silence, IsLate, Garbled
<1>13. CASE UNCHANGED vars
  BY <1>1, <1>13 DEF vars
<1> QED
  BY <1>0, <1>4, <1>5, <1>6, <1>7, <1>8, <1>9, <1>10, <1>11, <1>12, <1>13
     DEF Next, PollStep, PollFault, WriteStep, WriteDone

(* On a line that may cut off or raise, but loses, garbles and delays      *)
(* nothing, the database never has another value of a file's parameter     *)
(* than the lift: polls and writes keep it coherent between them.          *)
THEOREM QuietFilesCurrent ==
    ASSUME Events \cap {"late", "change", "silent", "garbled"} = {}
    PROVE  Spec => []FilesCurrent
<1>1. "late" \notin Events /\ "change" \notin Events
  OBVIOUS
<1>2. Init => NoStrayInv /\ CopyInv /\ FilesCurrent
  <2>1. Files \subseteq Packages
    BY ListFacts
  <2> QED BY <2>1 DEF Init, NoStrayInv, CopyInv, FilesCurrent
<1>3. /\ NoStrayInv /\ [Next]_vars => NoStrayInv'
      /\ NoStrayInv /\ CopyInv /\ [Next]_vars => CopyInv'
  BY <1>1, StrayStep, CopyStep
<1>4. Typed /\ NoStrayInv /\ CopyInv /\ FilesCurrent /\ [Next]_vars => FilesCurrent'
  BY CurrentStep
<1> QED BY <1>2, <1>3, <1>4, InitTyped, DataStep, PTL DEF Spec

-----------------------------------------------------------------------------
(* The cold start. *)

Filled(q) == \A s \in Slots : db[q][s] # NotSet

(* A package is still to come in the forced poll, or it has been read. *)
ColdInv ==
    /\ ~force => \A q \in Packages : Filled(q)
    /\ force /\ step = "poll" =>
          \A q \in Packages : Filled(q) \/ \E i \in 1..Len(queue) : queue[i] = q

(* Nothing that was read is forgotten. *)
LEMMA StaysFilled ==
    ASSUME NotSet \notin Values,
           Typed, [Next]_vars, NEW q \in Packages, Filled(q)
    PROVE  Filled(q)'
<1> SUFFICES ASSUME NEW s \in Slots PROVE db'[q][s] # NotSet
  BY DEF Filled
<1>0. /\ DataOK /\ db \in [Packages -> [Slots -> Values \cup {NotSet}]]
      /\ db[q][s] # NotSet
  BY DEF Typed, DataOK, Filled
<1>1. ASSUME NEW p \in Packages, NEW data \in Contents, NEW ok, Unpack(p, data, ok)
      PROVE  db'[q][s] # NotSet
  BY <1>0, <1>1 DEF Unpack, Contents
<1>2. ASSUME NEW p \in Packages, NEW t \in Slots, NEW v \in Values,
             db' = [db EXCEPT ![p][t] = v]
      PROVE  db'[q][s] # NotSet
  BY <1>0, <1>2
<1>3. ASSUME step = "poll", queue # <<>>
      PROVE  /\ Head(queue) \in Packages /\ lift[Head(queue)] \in Contents
             /\ Answer(Head(queue)).data \in Contents
  BY <1>0, <1>3, AnswerTyped DEF DataOK
<1>4. CASE PollPackage
  BY <1>1, <1>3, <1>4 DEF PollPackage
<1>5. CASE \E ok \in SUBSET Slots : PollShortPackage(ok)
  BY <1>1, <1>3, <1>5 DEF PollShortPackage
<1>6. CASE \E p \in Packages, t \in Slots, v \in Values : WriteSetting(p, t, v)
  BY <1>2, <1>6 DEF WriteSetting
<1>7. CASE WriteFile
  <2>1. write.pkg \in Packages /\ write.slot \in Slots /\ write.value \in Values
    BY <1>7, ListFacts DEF WriteFile, Typed, Writes
  <2> QED BY <1>2, <1>7, <2>1 DEF WriteFile
<1>8. CASE UNCHANGED db
  BY <1>0, <1>8
<1> QED
  BY <1>4, <1>5, <1>6, <1>7, <1>8
     DEF Next, LiftStep, StrayArrives, LiftChange, PollStep, PollStart, PollEnds,
         PollEndRaises, PollFault, PackageFails, PollAborts, PollRaises,
         WriteStep, WriteSame,
         WriteSettingFails, ReadText, WriteText, WriteRead, WriteReadFails,
         WriteDone, WriteFileFails, vars

(* The forced poll asks for every package. *)
LEMMA ForcedPollAsksAll ==
    ASSUME NEW q \in Packages
    PROVE  \E i \in 1..Len(AlwaysPolled \o FilePackages) :
               (AlwaysPolled \o FilePackages)[i] = q
<1>1. /\ AlwaysPolled \in Seq(Packages) /\ FilePackages \in Seq(Packages)
  BY ListFacts
<1>2. CASE q \in Elements(AlwaysPolled)
  <2>1. PICK i \in 1..Len(AlwaysPolled) : AlwaysPolled[i] = q
    BY <1>1, <1>2 DEF Elements
  <2> QED BY <1>1, <2>1
<1>3. CASE q \in Files
  <2>1. PICK i \in 1..Len(FilePackages) : FilePackages[i] = q
    BY <1>1, <1>3 DEF Elements, Files
  <2> WITNESS Len(AlwaysPolled) + i \in 1..Len(AlwaysPolled \o FilePackages)
  <2> QED BY <1>1, <2>1
<1> QED BY <1>2, <1>3 DEF Packages

(* A package leaves the queue of the forced poll only with its values in   *)
(* the database; a poll that raises starts again with the flag still set.  *)
LEMMA ColdStep ==
    ASSUME NotSet \notin Values,
           Events \cap {"silent", "late", "garbled", "short"} = {},
           Typed, ColdInv, [Next]_vars
    PROVE  ColdInv'
<1>0. /\ "silent" \notin Events /\ "late" \notin Events
      /\ "garbled" \notin Events /\ "short" \notin Events
      /\ DataOK /\ queue \in Seq(Packages)
  BY DEF Typed, DataOK
<1>1. \A q \in Packages : Filled(q) => Filled(q)'
  BY StaysFilled
<1>2. ~PollAborts /\ ~PackageFails /\ \A ok \in SUBSET Slots : ~PollShortPackage(ok)
  BY <1>0 DEF PollAborts, Silence, IsLate, PackageFails, Garbled, PollShortPackage
<1>3. CASE PollStart
  <2>1. force' = force /\ step' = "poll" /\ UNCHANGED db
    BY <1>3 DEF PollStart
  <2>2. force => queue' = AlwaysPolled \o FilePackages
    BY <1>3 DEF PollStart
  <2> QED BY <2>1, <2>2, <1>1, ForcedPollAsksAll DEF ColdInv
<1>4. CASE PollPackage
  <2>1. /\ force' = force /\ step' = step /\ queue' = Tail(queue) /\ queue # <<>>
        /\ step = "poll"
    BY <1>4 DEF PollPackage
  <2>2. Head(queue) \in Packages /\ Answer(Head(queue)).data \in Contents
    BY <1>0, <2>1, AnswerTyped
  <2>3. ASSUME NEW q \in Packages, q = Head(queue)
        PROVE  Filled(q)'
    <3>1. Unpack(q, Answer(q).data, Slots)
      BY <1>4, <2>3 DEF PollPackage
    <3> QED
      BY <1>0, <2>2, <2>3, <3>1 DEF Unpack, Filled, DataOK, Contents
  <2>4. ASSUME force, NEW q \in Packages
        PROVE  Filled(q)' \/ \E i \in 1..Len(queue') : queue'[i] = q
    <3>1. CASE Filled(q)
      BY <1>1, <3>1
    <3>2. CASE \E i \in 1..Len(queue) : queue[i] = q
      <4>1. PICK i \in 1..Len(queue) : queue[i] = q
        BY <3>2
      <4>2. CASE i = 1
        BY <1>0, <2>1, <2>3, <4>1, <4>2
      <4>3. CASE i # 1
        <5>1. i - 1 \in 1..Len(Tail(queue)) /\ Tail(queue)[i - 1] = q
          BY <1>0, <2>1, <4>1, <4>3
        <5> QED BY <2>1, <5>1
      <4> QED BY <4>2, <4>3
    <3> QED BY <2>1, <2>4, <3>1, <3>2 DEF ColdInv
  <2> QED BY <2>1, <2>4, <1>1 DEF ColdInv
<1>5. CASE PollEnds
  <2>1. ASSUME force PROVE \A q \in Packages : Filled(q)
    BY <1>5, <2>1 DEF PollEnds, ColdInv
  <2> QED BY <1>1, <1>5, <2>1 DEF PollEnds, ColdInv
<1>6. CASE PollRaises \/ PollEndRaises
  BY <1>1, <1>6 DEF PollRaises, PollEndRaises, ColdInv
<1>7. CASE LiftStep
  BY <1>1, <1>7 DEF LiftStep, StrayArrives, LiftChange, pollVars, ColdInv
<1>8. CASE WriteStep
  <2>1. force' = force /\ step' # "poll"
    BY <1>8 DEF WriteStep, WriteSame, WriteSetting, WriteRead, WriteSettingFails,
       ReadText, WriteText, WriteReadFails, pollVars
  <2> QED BY <1>1, <2>1 DEF ColdInv
<1>9. CASE WriteDone
  BY <1>1, <1>9 DEF WriteDone, WriteFile, WriteFileFails, pollVars, ColdInv
<1>10. CASE UNCHANGED vars
  BY <1>1, <1>10 DEF vars, pollVars, ColdInv
<1> QED
  BY <1>2, <1>3, <1>4, <1>5, <1>6, <1>7, <1>8, <1>9, <1>10
     DEF Next, PollStep, PollFault

ColdStartFills == ~force => \A q \in Packages, s \in Slots : db[q][s] # NotSet

(* _polling_loop(): once the forced read has been given up, "the db is     *)
(* fully populated", however many polls raised before and whatever the     *)
(* lift changed and the cloud wrote meanwhile, if every request is         *)
(* answered, in time and whole, and no parameter is really empty.  Each of *)
(* the four faults excluded loses a package of the cold start: poll_lift() *)
(* answers them with a code, not an exception, and the flag is cleared.    *)
THEOREM AnsweredColdStartFills ==
    ASSUME NotSet \notin Values,
           Events \cap {"silent", "late", "garbled", "short"} = {}
    PROVE  Spec => []ColdStartFills
<1>1. Init => ColdInv
  BY DEF Init, ColdInv
<1>2. Typed /\ ColdInv /\ [Next]_vars => ColdInv'
  BY ColdStep
<1>3. ColdInv => ColdStartFills
  BY DEF ColdInv, Filled, ColdStartFills
<1> QED BY <1>1, <1>2, <1>3, InitTyped, DataStep, PTL DEF Spec
=============================================================================
