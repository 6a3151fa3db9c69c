---------------------------- MODULE EventDelivery ----------------------------
(***************************************************************************)
(* What the spool and its forwarder promise for the events of a PBX, with  *)
(* no file, request, crash or program counter in sight.  Under one name    *)
(* events are written one after another.  Of each name at most one event   *)
(* waits.  It is filed as delivered only when the backend knows it, or set *)
(* aside when the backend refuses it, and may wait again after that.       *)
(* EventForwarder implements this specification.                           *)
(***************************************************************************)
EXTENDS Naturals

CONSTANT Name

VARIABLES
  written,  \* how many events were written under each name
  waiting,  \* the one that is still to be delivered, or 0
  known,    \* those the backend has processed
  filed,    \* those filed as delivered
  refused   \* those set aside as refused

vars == <<written, waiting, known, filed, refused>>

Init ==
  /\ written = [n \in Name |-> 0] /\ waiting = [n \in Name |-> 0]
  /\ known = [n \in Name |-> {}] /\ filed = [n \in Name |-> {}]
  /\ refused = [n \in Name |-> {}]

(* A new event takes the place of one that was still waiting.              *)
Write(n) ==
  /\ written' = [written EXCEPT ![n] = @ + 1]
  /\ waiting' = [waiting EXCEPT ![n] = written[n] + 1]
  /\ UNCHANGED <<known, filed, refused>>

(* The backend may learn an event more than once, and late.                *)
Deliver(n) ==
  /\ \E k \in 1 .. written[n] : known' = [known EXCEPT ![n] = @ \cup {k}]
  /\ UNCHANGED <<written, waiting, filed, refused>>

(* Nothing is filed as delivered that the backend does not know.           *)
File(n) ==
  /\ waiting[n] \in known[n]
  /\ filed' = [filed EXCEPT ![n] = @ \cup {waiting[n]}]
  /\ waiting' = [waiting EXCEPT ![n] = 0]
  /\ UNCHANGED <<written, known, refused>>

Refuse(n) ==
  /\ waiting[n] # 0
  /\ refused' = [refused EXCEPT ![n] = @ \cup {waiting[n]}]
  /\ waiting' = [waiting EXCEPT ![n] = 0]
  /\ UNCHANGED <<written, known, filed>>

(* A refused event waits again, in the place of no other.                  *)
Replay(n) ==
  /\ waiting[n] = 0
  /\ \E k \in refused[n] : waiting' = [waiting EXCEPT ![n] = k]
  /\ UNCHANGED <<written, known, filed, refused>>

(* A refused event is forgotten only where it waits, was filed, or is not  *)
(* the newest of its name.                                                 *)
Forget(n) ==
  /\ \E k \in refused[n] :
       /\ k = waiting[n] \/ k \in filed[n] \/ k < written[n]
       /\ refused' = [refused EXCEPT ![n] = @ \ {k}]
  /\ UNCHANGED <<written, waiting, known, filed>>

Next == \E n \in Name : \/ Write(n) \/ Deliver(n) \/ File(n)
                        \/ Refuse(n) \/ Replay(n) \/ Forget(n)

Spec == Init /\ [][Next]_vars
=============================================================================
