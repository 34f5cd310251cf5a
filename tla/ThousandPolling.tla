---------------------------- MODULE ThousandPolling ----------------------------
(***************************************************************************)
(* Polling and writing of a 1k lift over RS232: Rs232Handler.poll_lift(),  *)
(* get_signal_from_serial_buffer() and write_parameter(), and              *)
(* ThousandLib.poll_params() and get_updated_params(), as LiftProxy calls  *)
(* them.  _handler_lock makes polls and writes exclude each other; what    *)
(* runs beside them is the lift, which changes values, does not answer,    *)
(* or answers when nobody waits for it any more.                           *)
(*                                                                         *)
(* A package is what one request fetches.  Its parameters are slots        *)
(* <<package, slot>> of its data; that the slot is unpacked from bits and  *)
(* bytes is left out.  A package with a command of its own (texts,         *)
(* version, operation types) is in AlwaysPolled; the five parameter files  *)
(* share the command readFile.  doorOpenCount is modelled by DoorCounters, *)
(* virtual parameters are functions of the others, and every parameter is  *)
(* taken to be on the on-change list.                                      *)
(***************************************************************************)
EXTENDS Naturals, Sequences

CONSTANTS
    AlwaysPolled,   \* always_polled_packages
    FilePackages,   \* file_packages
    Slots,
    Values,
    NotSet,         \* the "" of a parameter that was never unpacked
    NoStray,
    NoWrite,
    Events,         \* what the lift and the line may do
    MaxEvents       \* bound on changes, faults, and writes outside the files

Elements(s) == {s[i] : i \in DOMAIN s}
Files    == Elements(FilePackages)
Packages == Elements(AlwaysPolled) \cup Files
Params   == Packages \X Slots
Contents == [Slots -> Values]

ASSUME PackagesAssumption ==
    /\ AlwaysPolled \in Seq(Elements(AlwaysPolled))
    /\ FilePackages \in Seq(Files) /\ Len(FilePackages) > 0
    /\ Elements(AlwaysPolled) \cap Files = {}
ASSUME MaxEventsAssumption == MaxEvents \in Nat
ASSUME EventsAssumption ==
    Events \subseteq {"change", "silent", "late", "garbled", "short", "raise",
                      "badResult"}

VARIABLES
    lift,      \* the contents of the packages in the lift
    db,        \* ThousandLib.database
    stray,     \* an answer or confirmation whose request has been given up
    arrived,   \* whether it is in the serial buffer by now
    queue,     \* the rest of polled_packages
    nextFile,  \* polled_file_package
    updated,   \* updated_parameters of the running poll
    doors,     \* saved_operation_notifications has 135 messages
    motor,     \* saved_vfdResult_notification: "none", "good", or "bad" if a
               \* message among them has too few values to be unpacked
    force,     \* LiftProxy._force_read_all
    step,      \* "idle", "poll", or "write" between readFile and writeFile
    write,     \* the write in progress, with the file contents it read
    unsent,    \* parameters changed in db since they were last pushed
    dropped,   \* changed parameters poll_lift() did not return
    events     \* changes, faults and such writes so far

wireVars  == <<stray, arrived>>
pollVars  == <<queue, nextFile, updated, force>>
noteVars  == <<doors, motor>>
cloudVars == <<unsent, dropped>>
vars == <<lift, db, wireVars, pollVars, noteVars, step, write, cloudVars,
          events>>

(* Answers to reads, and confirmations of writes (whose data is not used). *)
Strays == [kind : {"answer", "ack"}, pkg : Packages, data : Contents]
Writes == [pkg : Files, slot : Slots, value : Values, copy : Contents]

(* Every variable keeps its type: no -1 of a failed transaction enters the *)
(* database, and only parameters of the protocol are reported.             *)
TypeOK ==
    /\ lift \in [Packages -> Contents]
    /\ db \in [Packages -> [Slots -> Values \cup {NotSet}]]
    /\ stray \in Strays \cup {NoStray}
    /\ arrived \in BOOLEAN
    /\ queue \in Seq(Packages)
    /\ nextFile \in 1..Len(FilePackages)
    /\ updated \in SUBSET Params
    /\ doors \in BOOLEAN
    /\ motor \in {"none", "good", "bad"}
    /\ force \in BOOLEAN
    /\ step \in {"idle", "poll", "write"}
    /\ write \in Writes \cup {NoWrite}
    /\ unsent \in SUBSET Params
    /\ dropped \in SUBSET Params
    /\ events \in 0..MaxEvents

Init ==
    /\ lift \in [Packages -> Contents]
    /\ db = [q \in Packages |-> [s \in Slots |-> NotSet]]
    /\ stray = NoStray /\ arrived = FALSE
    /\ queue = <<>> /\ nextFile = 1 /\ updated = {} /\ force = TRUE
    /\ doors = FALSE /\ motor = "none" /\ step = "idle" /\ write = NoWrite
    /\ unsent = {} /\ dropped = {} /\ events = 0

Spend == events < MaxEvents /\ events' = events + 1

-----------------------------------------------------------------------------
(* The serial line.  A response is matched by command and operation type:  *)
(* all files are read with readFile and written with writeFile, and the    *)
(* name in the response is not compared with the file asked for.  Whatever *)
(* the buffer holds is consumed by any transaction.                        *)

SameCommand(q, r) == q = r \/ {q, r} \subseteq Files

Stale(kind, q) ==
    stray # NoStray /\ arrived /\ stray.kind = kind /\ SameCommand(stray.pkg, q)

Own(kind, q) == [kind |-> kind, pkg |-> q, data |-> lift[q]]

(* The oldest match is the answer (resp_wanted[0]). *)
Answer(q) == IF Stale("answer", q) THEN stray ELSE Own("answer", q)

(* What the buffer has besides is saved: 135 messages in a list, vfdResult *)
(* messages in a queue of limited length, where newer ones push out an     *)
(* older, also a bad one.                                                  *)
SaveNotes ==
    /\ doors' \in {doors, TRUE}
    /\ \/ motor' \in {motor, "good"}
       \/ "badResult" \in Events /\ motor' = "bad"

(* A transaction empties the buffer, whatever its outcome. *)
Drain ==
    /\ stray' = IF arrived THEN NoStray ELSE stray
    /\ arrived' = FALSE
    /\ SaveNotes

(* The lift's response is still to come; at most one is kept track of. *)
IsLate(kind, q) ==
    /\ "late" \in Events
    /\ stray' = Own(kind, q) /\ arrived' = FALSE
    /\ SaveNotes

(* A transaction that finds a response, which may be that of an earlier    *)
(* one; its own is then discarded with it or comes later.                  *)
Receive(kind, q) ==
    \/ Drain /\ UNCHANGED events
    \/ Stale(kind, q) /\ Spend /\ IsLate(kind, q)

(* NO_WAITING_BYTES_ERR or SERIAL_COM_ERR: no response in the time allowed. *)
Silence(kind, q) ==
    /\ ~Stale(kind, q)
    /\ Spend
    /\ \/ "silent" \in Events /\ Drain
       \/ IsLate(kind, q)

(* Any other error: bytes that cannot be decoded, or an error status. *)
Garbled == "garbled" \in Events /\ Spend /\ Drain

StrayArrives ==
    /\ stray # NoStray /\ ~arrived
    /\ arrived' = TRUE
    /\ UNCHANGED <<lift, db, stray, pollVars, noteVars, step, write, cloudVars,
                   events>>

LiftChange(q, s) ==
    /\ "change" \in Events /\ Spend
    /\ \E v \in Values \ {lift[q][s]} : lift' = [lift EXCEPT ![q][s] = v]
    /\ UNCHANGED <<db, wireVars, pollVars, noteVars, step, write, cloudVars>>

-----------------------------------------------------------------------------
(* poll_lift(). *)

(* Mutant: the last file is never reached by the round robin. *)
AfterFileShort(i) == IF i + 1 >= Len(FilePackages) THEN 1 ELSE i + 1

AfterFile(i) == IF i + 1 > Len(FilePackages) THEN 1 ELSE i + 1

(* poll_type 1 fetches every file, poll_type 0 one file per poll. *)
PollStart ==
    /\ step = "idle"
    /\ step' = "poll"
    /\ queue' = AlwaysPolled \o
                    (IF force THEN FilePackages ELSE <<FilePackages[nextFile]>>)
    /\ nextFile' = IF force THEN nextFile ELSE AfterFile(nextFile)
    /\ UNCHANGED <<lift, db, wireVars, updated, force, noteVars, write,
                   cloudVars, events>>

(* get_updated_params(): the slots in ok are unpacked into the database. *)
Differs(q, data, ok) == {<<q, s>> : s \in {t \in ok : db[q][t] # data[t]}}

Unpack(q, data, ok) ==
    /\ db' = [db EXCEPT ![q] = [s \in Slots |->
                                   IF s \in ok THEN data[s] ELSE db[q][s]]]
    /\ unsent' = unsent \cup Differs(q, data, ok)

(* Mutant: the list of updated parameters starts afresh with each package. *)
PollPackageForgets ==
    /\ step = "poll" /\ queue # <<>>
    /\ Receive("answer", Head(queue))
    /\ Unpack(Head(queue), Answer(Head(queue)).data, Slots)
    /\ updated' = Differs(Head(queue), Answer(Head(queue)).data, Slots)
    /\ queue' = Tail(queue)
    /\ UNCHANGED <<lift, nextFile, force, step, write, dropped>>

PollPackage ==
    /\ step = "poll" /\ queue # <<>>
    /\ Receive("answer", Head(queue))
    /\ Unpack(Head(queue), Answer(Head(queue)).data, Slots)
    /\ updated' = updated \cup
                      Differs(Head(queue), Answer(Head(queue)).data, Slots)
    /\ queue' = Tail(queue)
    /\ UNCHANGED <<lift, nextFile, force, step, write, dropped>>

(* A response with fewer bytes than the protocol knows, as older AR-Gates  *)
(* send: what is there enters the database, get_updated_params() returns   *)
(* an error, and poll_lift() goes on without the parameters it named.      *)
PollShortPackage(ok) ==
    /\ "short" \in Events /\ Spend
    /\ step = "poll" /\ queue # <<>>
    /\ ~Stale("answer", Head(queue))
    /\ Drain
    /\ Unpack(Head(queue), lift[Head(queue)], ok)
    /\ dropped' = dropped \cup Differs(Head(queue), lift[Head(queue)], ok)
    /\ queue' = Tail(queue)
    /\ UNCHANGED <<lift, nextFile, updated, force, step, write>>

PackageFails ==
    /\ step = "poll" /\ queue # <<>>
    /\ Garbled
    /\ queue' = Tail(queue)
    /\ UNCHANGED <<lift, db, nextFile, updated, force, step, write, cloudVars>>

(* A silent lift ends the poll with an error code.  ThousandLib returns    *)
(* no parameters, and as nothing was raised LiftProxy clears the flag.     *)
PollAborts ==
    /\ step = "poll" /\ queue # <<>>
    /\ Silence("answer", Head(queue))
    /\ dropped' = dropped \cup updated
    /\ updated' = {} /\ queue' = <<>> /\ force' = FALSE /\ step' = "idle"
    /\ UNCHANGED <<lift, db, nextFile, write, unsent>>

(* write_serial() lets the exception of a failing port through; the        *)
(* polling loop logs it, and the forced read stays pending.                *)
PollRaises ==
    /\ "raise" \in Events /\ Spend
    /\ step = "poll" /\ queue # <<>>
    /\ dropped' = dropped \cup updated
    /\ updated' = {} /\ queue' = <<>> /\ step' = "idle"
    /\ UNCHANGED <<lift, db, wireVars, nextFile, force, noteVars, write, unsent>>

(* Mutant: a poll without updated parameters returns before it drains. *)
PollEndsUndrained ==
    /\ step = "poll" /\ queue = <<>> /\ motor # "bad"
    /\ doors' = (doors /\ updated = {})
    /\ motor' = IF updated = {} THEN motor ELSE "none"
    /\ unsent' = unsent \ updated /\ dropped' = dropped \ updated
    /\ updated' = {} /\ force' = FALSE /\ step' = "idle"
    /\ UNCHANGED <<lift, db, wireVars, queue, nextFile, write, events>>

(* The saved notifications are drained, the flag is cleared, and           *)
(* _polling_loop() pushes what was updated.                                *)
PollEnds ==
    /\ step = "poll" /\ queue = <<>> /\ motor # "bad"
    /\ doors' = FALSE /\ motor' = "none"
    /\ unsent' = unsent \ updated /\ dropped' = dropped \ updated
    /\ updated' = {} /\ force' = FALSE /\ step' = "idle"
    /\ UNCHANGED <<lift, db, wireVars, queue, nextFile, write, events>>

(* get_vfd_motor_data() raises on a vfdResult with too few values, before  *)
(* it clears its queue and after get_notification() has cleared the 135    *)
(* messages.  The poll's result is lost with the exception, the forced     *)
(* read stays pending, and the next poll meets the same message.           *)
PollEndRaises ==
    /\ step = "poll" /\ queue = <<>> /\ motor = "bad"
    /\ doors' = FALSE /\ UNCHANGED motor
    /\ dropped' = dropped \cup updated
    /\ updated' = {} /\ step' = "idle"
    /\ UNCHANGED <<lift, db, wireVars, queue, nextFile, force, write, unsent,
                   events>>

-----------------------------------------------------------------------------
(* write_parameter() and the push that follows a successful write. *)

Pushed(p) == unsent' = unsent \ {p} /\ dropped' = dropped \ {p}

(* The parameter has the requested value already. *)
WriteSame(q, s) ==
    /\ step = "idle" /\ db[q][s] # NotSet
    /\ Pushed(<<q, s>>)
    /\ UNCHANGED <<lift, db, wireVars, pollVars, noteVars, step, write, events>>

(* What the lift has after a write of contents to q: a stale confirmation  *)
(* says nothing of it.                                                     *)
MaybeStored(q, contents) == {lift, [lift EXCEPT ![q] = contents]}

Stored(q, contents) ==
    IF Stale("ack", q) THEN MaybeStored(q, contents)
    ELSE {[lift EXCEPT ![q] = contents]}

(* childLock, floorLock and oilLevel have commands of their own, and the   *)
(* data of the confirmation is compared: a stale one may fit or not.       *)
WriteSetting(q, s, v) ==
    /\ step = "idle" /\ q \notin Files /\ db[q][s] # v
    /\ Spend
    /\ Drain \/ (Stale("ack", q) /\ IsLate("ack", q))
    /\ lift' \in Stored(q, [lift[q] EXCEPT ![s] = v])
    /\ db' = [db EXCEPT ![q][s] = v]
    /\ Pushed(<<q, s>>)
    /\ UNCHANGED <<pollVars, step, write>>

(* The lift may have stored what it did not confirm. *)
WriteSettingFails(q, s, v) ==
    /\ step = "idle" /\ q \notin Files /\ db[q][s] # v
    /\ \/ Silence("ack", q)
       \/ Garbled
       \/ /\ Stale("ack", q) /\ Spend
          /\ Drain \/ IsLate("ack", q)
    /\ lift' \in MaybeStored(q, [lift[q] EXCEPT ![s] = v])
    /\ UNCHANGED <<db, pollVars, step, write, cloudVars>>

(* read_ar_number() and write_ar_number() leave the database alone; the    *)
(* next poll finds a difference and reports it.                            *)
ReadText(q) ==
    /\ step = "idle" /\ q \notin Files
    /\ Receive("answer", q) \/ Silence("answer", q) \/ Garbled
    /\ UNCHANGED <<lift, db, pollVars, step, write, cloudVars>>

(* A text is written with the command that reads it, and the lift echoes   *)
(* it.                                                                     *)
WriteText(q, s, v) ==
    /\ step = "idle" /\ q \notin Files
    /\ Spend
    /\ \/ /\ Drain
          /\ lift' \in MaybeStored(q, [lift[q] EXCEPT ![s] = v])
       \/ /\ "late" \in Events
          /\ lift' = [lift EXCEPT ![q][s] = v]
          /\ stray' = [kind |-> "answer", pkg |-> q,
                       data |-> [lift[q] EXCEPT ![s] = v]]
          /\ arrived' = FALSE
          /\ SaveNotes
    /\ UNCHANGED <<db, pollVars, step, write, cloudVars>>

(* Any other parameter: read its file, ... *)
WriteRead(f, s, v) ==
    /\ step = "idle" /\ db[f][s] \notin {v, NotSet}
    /\ Receive("answer", f)
    /\ write' = [pkg |-> f, slot |-> s, value |-> v, copy |-> Answer(f).data]
    /\ step' = "write"
    /\ UNCHANGED <<lift, db, pollVars, cloudVars>>

WriteReadFails(f, s) ==
    /\ step = "idle" /\ db[f][s] # NotSet
    /\ Silence("answer", f) \/ Garbled
    /\ UNCHANGED <<lift, db, pollVars, step, write, cloudVars>>

Patched == [write.copy EXCEPT ![write.slot] = write.value]

(* ... replace the parameter, and save the file.  Any writeFile response   *)
(* without an error status confirms it, also a late one to another file.   *)
WriteFile ==
    /\ step = "write"
    /\ Receive("ack", write.pkg)
    /\ lift' \in Stored(write.pkg, Patched)
    /\ db' = [db EXCEPT ![write.pkg][write.slot] = write.value]
    /\ Pushed(<<write.pkg, write.slot>>)
    /\ step' = "idle" /\ write' = NoWrite
    /\ UNCHANGED pollVars

(* The request or its answer is lost: an error, and the database is kept. *)
WriteFileFails ==
    /\ step = "write"
    /\ Silence("ack", write.pkg) \/ Garbled
    /\ lift' \in MaybeStored(write.pkg, Patched)
    /\ step' = "idle" /\ write' = NoWrite
    /\ UNCHANGED <<db, pollVars, cloudVars>>

-----------------------------------------------------------------------------
LiftStep == StrayArrives \/ \E q \in Packages, s \in Slots : LiftChange(q, s)

PollStep == PollStart \/ PollPackage \/ PollEnds \/ PollEndRaises

PollFault ==
    \/ \E ok \in SUBSET Slots : PollShortPackage(ok)
    \/ PackageFails
    \/ PollAborts
    \/ PollRaises

WriteStep ==
    \/ \E q \in Packages, s \in Slots : WriteSame(q, s)
    \/ \E q \in Packages, s \in Slots, v \in Values : WriteSetting(q, s, v)
    \/ \E f \in Files, s \in Slots, v \in Values : WriteRead(f, s, v)
    \/ \E q \in Packages, s \in Slots, v \in Values : WriteSettingFails(q, s, v)
    \/ \E q \in Packages : ReadText(q)
    \/ \E q \in Packages, s \in Slots, v \in Values : WriteText(q, s, v)
    \/ \E f \in Files, s \in Slots : WriteReadFails(f, s)

WriteDone == WriteFile \/ WriteFileFails

Next == LiftStep \/ PollStep \/ PollFault \/ WriteStep \/ WriteDone

Spec == Init /\ [][Next]_vars

(* The polling loop runs for ever, and cloud calls are too rare to keep it *)
(* from the lock; a transaction in a thread always ends.                   *)
Fairness == WF_vars(PollStep) /\ WF_vars(WriteDone) /\ SF_vars(PollStart)

FairSpec == Spec /\ Fairness

-----------------------------------------------------------------------------
(* poll_params() of the proxy: "List of parameter IDs that changed since   *)
(* last poll".  Only a poll that is given up half-way or raises, also at   *)
(* its very end, and a short package lose changed parameters; failing      *)
(* packages, stray answers and writes never do.                            *)
OnlyAbortsDrop == unsent \subseteq updated \cup dropped

(* write_parameter(): "Read the file, replace the parameter we are writing *)
(* to, save the file."  The save changes no other parameter of the lift.   *)
WriteChangesOneParam ==
    [][step = "write" /\ step' = "idle" =>
           \A p \in Params \ {<<write.pkg, write.slot>>} :
               lift'[p[1]][p[2]] = lift[p[1]][p[2]]]_vars

(* The database has the lift's own values of the files, or none yet. *)
FilesCurrent ==
    \A f \in Files, s \in Slots : db[f][s] \in {NotSet, lift[f][s]}

(* Saved notifications are reported and do not pile up, not even on a lift *)
(* whose parameters never change: again and again both lists are drained.  *)
(* The exception is a vfdResult with too few values, which validation lets *)
(* through: from then on every poll raises at its end, before it clears    *)
(* the motor data, until newer messages push that one out of the queue.    *)
NotesDrained == []<>(~doors /\ motor # "good")

(* With the round robin over the files the database settles on the lift's  *)
(* values, whatever was lost, late, short or written before.               *)
Converges == <>[](db = lift)
=============================================================================
