--------------------------- MODULE EndpointConfig ---------------------------
(***************************************************************************)
(* The poll loop that keeps the PBX's smartphone endpoints equal to the    *)
(* backend's (pbx_management.py --poll): fetch the configuration, compare, *)
(* rewrite managed-endpoints.conf, reload PJSIP, confirm, acknowledge.     *)
(*                                                                         *)
(* A configuration is identified by its revision, the hash of extensions   *)
(* and passwords; Extensions gives the part of it the PBX can be asked     *)
(* about.  The PBX is external: the loop ignores what the reload command   *)
(* says and waits up to five seconds for its effect, so a reload may take  *)
(* effect late or not at all.                                              *)
(*                                                                         *)
(* An operator X_Fault is X with a fault the code does not have.  No       *)
(* specification uses it; it shows that a property notices the fault.      *)
(***************************************************************************)
EXTENDS Naturals, FiniteSets

CONSTANTS
  Config,        \* configurations the backend may serve
  Blank,         \* managed-endpoints.conf as the container starts: empty
  None,          \* no revision
  Extensions,    \* the extensions of a configuration
  MaxChanges,    \* bound: changes of the backend's configuration
  MaxRestarts    \* bound: restarts of the PBX container

ASSUME ConstantsAssumption ==
  /\ Blank \notin Config /\ None \notin Config \cup {Blank}
  /\ DOMAIN Extensions = Config \cup {Blank} /\ Extensions[Blank] = {}
  /\ MaxChanges \in Nat /\ MaxRestarts \in Nat

VARIABLES
  desired,      \* the backend's configuration
  acked,        \* the revision it was last told is applied
  file,         \* managed-endpoints.conf
  loaded,       \* what PJSIP runs with
  reloading,    \* a reload was accepted and has not taken effect
  pc,
  value,        \* the configuration fetched in this round
  last,         \* last_revision
  changes, restarts

backend == <<desired, acked>>
pbx     == <<loaded, reloading>>
poller  == <<pc, value, last>>
bounds  == <<changes, restarts>>
vars == <<backend, file, pbx, poller, bounds>>

Phase == {"sleep", "observe", "write", "reload", "confirm", "acknowledge"}

TypeOK ==
  /\ desired \in Config
  /\ acked \in Config \cup {None}
  /\ file \in Config \cup {Blank}
  /\ loaded \in Config \cup {Blank}
  /\ reloading \in BOOLEAN
  /\ pc \in Phase
  /\ value \in Config \cup {None}
  /\ last \in Config \cup {None}
  /\ changes \in 0 .. MaxChanges /\ restarts \in 0 .. MaxRestarts

Init ==
  /\ desired \in Config
  /\ acked = None
  /\ file = Blank
  /\ loaded = Blank /\ reloading = FALSE
  /\ pc = "sleep" /\ value = None /\ last = None
  /\ changes = 0 /\ restarts = 0

-----------------------------------------------------------------------------
(* One round of the loop.  An exception in any phase ends the round.       *)

Fetch ==
  /\ pc = "sleep"
  /\ value' = desired
  /\ pc' = "observe"
  /\ UNCHANGED <<backend, file, pbx, last, bounds>>

Applied == Extensions[loaded]

(* Faulty: only the revision is compared, not what the PBX serves.         *)
Observe_RevisionOnly ==
  /\ pc = "observe"
  /\ pc' = (IF last # value THEN "write" ELSE "acknowledge")
  /\ UNCHANGED <<backend, file, pbx, value, last, bounds>>

Observe ==
  /\ pc = "observe"
  /\ \/ /\ last # value \/ Applied # Extensions[value]
        /\ pc' = "write"
     \/ /\ last = value /\ Applied = Extensions[value]
        /\ pc' = "acknowledge"
  /\ UNCHANGED <<backend, file, pbx, value, last, bounds>>

(* Faulty: the previous round's configuration is written.                  *)
Write_Previous ==
  /\ pc = "write"
  /\ file' = last
  /\ pc' = "reload"
  /\ UNCHANGED <<backend, pbx, value, last, bounds>>

(* The complete file replaces the old one.                                 *)
Write ==
  /\ pc = "write"
  /\ file' = value
  /\ pc' = "reload"
  /\ UNCHANGED <<backend, pbx, value, last, bounds>>

(* module reload res_pjsip.so: the answer is not looked at.                *)
Reload ==
  /\ pc = "reload"
  /\ reloading' \in {TRUE, reloading}
  /\ pc' = "confirm"
  /\ UNCHANGED <<backend, file, loaded, value, last, bounds>>

(* Faulty: the reload counts as done.                                      *)
Confirm_Unchecked ==
  /\ pc = "confirm"
  /\ last' = value
  /\ pc' = "acknowledge"
  /\ UNCHANGED <<backend, file, pbx, value, bounds>>

Confirm ==
  /\ pc = "confirm"
  /\ Applied = Extensions[value]
  /\ last' = value
  /\ pc' = "acknowledge"
  /\ UNCHANGED <<backend, file, pbx, value, bounds>>

(* The request carries last_revision; its answer may get lost.             *)
Acknowledge ==
  /\ pc = "acknowledge"
  /\ acked' = last
  /\ pc' = "sleep" /\ value' = None
  /\ UNCHANGED <<desired, file, pbx, last, bounds>>

EndRound == pc' = "sleep" /\ value' = None /\ UNCHANGED last

(* A failed request, write or command, or the five seconds are over.  A    *)
(* reload command that timed out may still take effect.                    *)
RoundFails ==
  /\ pc \notin {"sleep", "reload"}
  /\ EndRound
  /\ UNCHANGED <<backend, file, pbx, bounds>>

ReloadFails ==
  /\ pc = "reload"
  /\ reloading' \in {TRUE, reloading}
  /\ EndRound
  /\ UNCHANGED <<backend, file, loaded, bounds>>

-----------------------------------------------------------------------------
(* The PBX and the backend                                                 *)

PbxLoads ==
  /\ reloading
  /\ loaded' = file /\ reloading' = FALSE
  /\ UNCHANGED <<backend, file, poller, bounds>>

Change ==
  /\ changes < MaxChanges
  /\ changes' = changes + 1
  /\ desired' \in Config \ {desired}
  /\ UNCHANGED <<acked, file, pbx, poller, restarts>>

(* render_config empties the file before Asterisk and the loop start.      *)
Restart ==
  /\ restarts < MaxRestarts
  /\ restarts' = restarts + 1
  /\ file' = Blank
  /\ loaded' = Blank /\ reloading' = FALSE
  /\ pc' = "sleep" /\ value' = None /\ last' = None
  /\ UNCHANGED <<backend, changes>>

PollStep == Fetch \/ Observe \/ Write \/ Reload \/ Confirm \/ Acknowledge
            \/ RoundFails \/ ReloadFails

Next == PollStep \/ PbxLoads \/ Change \/ Restart

Spec == Init /\ [][Next]_vars

(* The loop runs for ever; what it keeps trying succeeds for ever again,   *)
(* and a reload it keeps asking for is accepted for ever again.            *)
ReloadAccepted == Reload /\ reloading'

Fairness ==
  /\ WF_vars(PollStep) /\ WF_vars(PbxLoads)
  /\ SF_vars(Observe) /\ SF_vars(Write) /\ SF_vars(ReloadAccepted)
  /\ SF_vars(Confirm) /\ SF_vars(Acknowledge)

FairSpec == Spec /\ Fairness

-----------------------------------------------------------------------------
(* When a revision is acknowledged and its own file is the one on disk,    *)
(* the PBX serves exactly its extensions: a suspended endpoint is gone and *)
(* a new one is there, whatever reloads are still outstanding.             *)
AckedEndpointsServed ==
  [][pc = "acknowledge" /\ acked' = last /\ pc' = "sleep" /\ file = last
       => Applied = Extensions[last]]_vars

(* The backend is told a revision only when that revision is running,      *)
(* passwords included.                                                     *)
AckedIsLoaded ==
  [][acked' # acked => acked' = loaded]_vars

(* When the backend's configuration stays the same, the PBX comes to serve *)
(* its extensions and the backend to know it, for good.                    *)
EndpointsConverge ==
  <>[](Applied = Extensions[desired] /\ acked = desired)
=============================================================================

