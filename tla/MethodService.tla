----------------------------- MODULE MethodService -----------------------------
(***************************************************************************)
(* What the gateway promises the cloud about direct methods, without the   *)
(* listener, the stages of a download, the temporary file and the          *)
(* connection.                                                             *)
(*                                                                         *)
(* Requests are served one at a time in the order of the calls.  A request *)
(* has its effect at most once, while it is being served and before it is  *)
(* answered.  It is answered at most once, a download truthfully.  If it   *)
(* was given up it is never taken up again, and none disappears: it is     *)
(* pending, answered or given up.  The target of the downloads goes from   *)
(* one whole file to the next.                                             *)
(***************************************************************************)
EXTENDS Naturals, Sequences

CONSTANTS
    Downloads,   \* requests that replace the target
    Writes,      \* requests that change the lift
    Others,      \* requests without an effect
    Whole,       \* the complete files of an allowed size
    Missing      \* the target before the first download

VARIABLES
    called,    \* requests made
    pending,   \* those not done with, in the order they were made
    effect,    \* requests that had their effect
    answer,    \* per request, the answer or "none"
    lost,      \* requests whose caller may wait in vain
    target     \* the downloaded file

vars == <<called, pending, effect, answer, lost, target>>

Requests == Downloads \cup Writes \cup Others

Init ==
    /\ called = {}
    /\ pending = <<>>
    /\ effect = {}
    /\ answer = [r \in Requests |-> "none"]
    /\ lost = {}
    /\ target = Missing

Call(r) ==
    /\ r \notin called
    /\ called' = called \cup {r}
    /\ pending' = Append(pending, r)
    /\ UNCHANGED <<effect, answer, lost, target>>

(* The request being served; it has its effect before it is answered. *)
Served(r) == pending # <<>> /\ r = Head(pending) /\ answer[r] = "none"

TakesEffect(r) == r \notin effect /\ effect' = effect \cup {r}

Store(r) ==
    /\ Served(r) /\ r \in Writes
    /\ TakesEffect(r)
    /\ UNCHANGED <<called, pending, answer, lost, target>>

Replace(r) ==
    /\ Served(r) /\ r \in Downloads
    /\ TakesEffect(r)
    /\ target' \in Whole
    /\ UNCHANGED <<called, pending, answer, lost>>

(* A success means that a download has happened, a refusal that it has     *)
(* not; a failure says nothing, and neither do the answers to writes.      *)
Truthful(r, a) ==
    r \in Downloads => /\ a = "ok" => r \in effect
                       /\ a = "refused" => r \notin effect

(* The gateway may know that the answer has arrived, or not. *)
Reply(r) ==
    /\ Served(r)
    /\ \E a \in {"ok", "refused", "failed"} :
           /\ Truthful(r, a)
           /\ answer' = [answer EXCEPT ![r] = a]
    /\ pending' \in {pending, Tail(pending)}
    /\ UNCHANGED <<called, effect, lost, target>>

(* Done with a request whose answer has, or may not have, arrived. *)
Settle(r) ==
    /\ pending # <<>> /\ r = Head(pending)
    /\ pending' = Tail(pending)
    /\ \/ answer[r] # "none" /\ UNCHANGED lost
       \/ lost' = lost \cup {r}
    /\ UNCHANGED <<called, effect, answer, target>>

(* The process ends; whatever was pending is given up. *)
Crash ==
    /\ pending' = <<>>
    /\ lost' = lost \cup {r \in Requests :
                             /\ answer[r] = "none"
                             /\ \E i \in 1..Len(pending) : pending[i] = r}
    /\ UNCHANGED <<called, effect, answer, target>>

Next ==
    \/ \E r \in Requests : Call(r) \/ Store(r) \/ Replace(r) \/ Reply(r) \/ Settle(r)
    \/ Crash

Spec == Init /\ [][Next]_vars
=============================================================================
