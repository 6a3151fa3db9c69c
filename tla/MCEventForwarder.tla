-------------------------- MODULE MCEventForwarder --------------------------
(* Instances of EventForwarder for TLC: one event name per kind of event.  *)
EXTENDS EventForwarder, TLC

CONSTANTS call, fax, attempt

KindOf == (call :> "calls") @@ (fax :> "faxes") @@ (attempt :> "fax-attempts")
MCKind == [n \in Name |-> KindOf[n]]
=============================================================================
