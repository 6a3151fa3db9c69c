------------------------- MODULE BackupMaintenance -------------------------
(***************************************************************************)
(* What the operator does to the installed backup                          *)
(* (scripts/phone_postgresql_backup_adapter.py): first installation,       *)
(* update with compensation, restore into an isolated drill, activation of *)
(* the timers; beside the services the timers start, deploys, which run    *)
(* the installed backup themselves (Runtime.backup) and then hold the      *)
(* guest lock, and edits of the installed files by somebody else.          *)
(*                                                                         *)
(* The content of a part is its version: 1, 2, ... as distributed, Absent, *)
(* or Unknown for bytes no distribution contains. The operator starts one  *)
(* operation after another, and none after a report that asks for a look.  *)
(* Operators named X_Fault are faulty versions of X; nothing uses them.    *)
(***************************************************************************)
EXTENDS Naturals

CONSTANTS
  Unit, Leaf,         \* sources and systemd units; leaf credentials and profile
  Backup, Retention,  \* the timers, with their services
  Operator, Deploy,   \* holders of the guest lock, beside the services
  None,
  MaxVersion, MaxBackups

Part     == {Unit, Leaf}
Timer    == {Backup, Retention}
Producer == Timer \cup {Deploy}

ASSUME MaintenanceAssumption ==
  /\ Unit # Leaf /\ Backup # Retention
  /\ None # Operator /\ None # Deploy /\ Operator # Deploy
  /\ {None, Operator, Deploy} \cap Timer = {}
  /\ MaxVersion \in Nat \ {0} /\ MaxBackups \in Nat

Version == 1 .. MaxVersion
Absent  == 0
Unknown == MaxVersion + 1
Content == Absent .. Unknown

ASSUME NoneAssumption == None \notin [Part -> Content]

VARIABLES
  disk,     \* content of each part
  loaded,   \* the units systemd has loaded
  timers,   \* enabled and active, for each timer
  service,  \* what each timer's service and a deploy do, and the code they run
  lock,     \* the guest lock
  latest,   \* the last backup: latest-success.json
  receipt,  \* what the restore receipt of each backup says
  drill,    \* the restore drill that has containers: its backup and reader
  inputs,   \* the private inputs of the restore exist
  work,     \* the private inputs of the update exist
  told,     \* the operator was told to look, or saw his process killed
  job       \* the operator's step and locals

schedule  == <<timers, service>>
restoring == <<receipt, drill, inputs>>
vars == <<disk, loaded, schedule, lock, latest, restoring, work, told, job>>

Off == [enabled |-> FALSE, active |-> FALSE]
TimerState == [enabled : BOOLEAN, active : BOOLEAN]
NoDrill   == [gen |-> 0, reader |-> "none"]
NoService == [step |-> "idle", code |-> Absent]

NoJob == [pc |-> "idle", new |-> Absent, expected |-> None, before |-> None,
          changed |-> {}, left |-> {}, undo |-> FALSE, gen |-> 0]

Whole(v) == [p \in Part |-> v]
AllOff   == [t \in Timer |-> Off]

(* installation_state: the hashes of the files and the schedule. *)
InstallationState == [disk |-> disk, timers |-> timers]

Init ==
  /\ \E v \in {Absent, 1} : disk = Whole(v) /\ loaded = v
  /\ timers = AllOff /\ service = [w \in Producer |-> NoService]
  /\ lock = None /\ latest = 0
  /\ receipt = [g \in 0 .. MaxBackups |-> "none"] /\ drill = NoDrill /\ inputs = FALSE
  /\ work = FALSE /\ told = FALSE /\ job = NoJob

At(step) == job.pc = step
Goto(step) == job' = [job EXCEPT !.pc = step]
Begin(step) == At("idle") /\ ~told /\ Goto(step)
TakeLock(who) == lock = None /\ lock' = who
LetGo(who) == lock' = IF lock = who THEN None ELSE lock

(* The operation ends; the lock and its locals are gone. *)
Finish == job' = NoJob /\ LetGo(Operator)

(* The timers after systemctl failed on its way to the wanted state. *)
Towards(wanted) ==
  {some \in [Timer -> TimerState] : \A t \in Timer :
     some[t] \in {timers[t], wanted[t], [timers[t] EXCEPT !.enabled = wanted[t].enabled]}}

-----------------------------------------------------------------------------
(* install_backup, first installation                                      *)

Install ==
  /\ Begin("install") /\ TakeLock(Operator)
  /\ \A t \in Timer : ~timers[t].enabled
  /\ UNCHANGED <<disk, loaded, schedule, latest, restoring, work, told>>

(* A file that exists must have the very bytes; nothing is replaced. *)
InstallPart(p) ==
  /\ At("install") /\ disk[p] = Absent
  /\ disk' = [disk EXCEPT ![p] = 1]
  /\ UNCHANGED <<loaded, schedule, lock, latest, restoring, work, told, job>>

Installed ==
  /\ At("install") /\ disk = Whole(1)
  /\ loaded' = disk[Unit]
  /\ Finish
  /\ UNCHANGED <<disk, schedule, latest, restoring, work, told>>

InstallFails ==
  /\ At("install") /\ Finish
  /\ UNCHANGED <<disk, loaded, schedule, latest, restoring, work, told>>

-----------------------------------------------------------------------------
(* update_backup                                                           *)

(* The expectation is what an earlier status observed.                     *)
BeginUpdate ==
  /\ At("idle") /\ ~told
  /\ \E now, v \in Version :
       /\ disk = Whole(now) /\ v > now
       /\ job' = [NoJob EXCEPT !.pc = "precheck", !.new = v, !.expected = InstallationState]
  /\ UNCHANGED <<disk, loaded, schedule, lock, latest, restoring, work, told>>

(* The expected state, then the preimages and private copies of the new    *)
(* credentials.                                                            *)
Prepare ==
  /\ At("precheck") /\ InstallationState = job.expected
  /\ job' = [job EXCEPT !.pc = "disable", !.before = disk]
  /\ work' = TRUE
  /\ UNCHANGED <<disk, loaded, schedule, lock, latest, restoring, told>>

NotPrepared ==
  /\ At("precheck") /\ Finish
  /\ UNCHANGED <<disk, loaded, schedule, latest, restoring, work, told>>

Disable ==
  /\ At("disable")
  /\ timers' = AllOff
  /\ Goto("stop")
  /\ UNCHANGED <<disk, loaded, service, lock, latest, restoring, work, told>>

(* Faulty: a service that runs is left to end. *)
StopServices_Left ==
  /\ At("stop")
  /\ Goto("lock")
  /\ UNCHANGED <<disk, loaded, schedule, lock, latest, restoring, work, told>>

(* Only what systemd started: a deploy's own backup goes on.               *)
StopServices ==
  /\ At("stop")
  /\ service' = [w \in Producer |-> IF w \in Timer THEN NoService ELSE service[w]]
  /\ lock' = IF lock \in Timer THEN None ELSE lock
  /\ Goto("lock")
  /\ UNCHANGED <<disk, loaded, timers, latest, restoring, work, told>>

LockForUpdate ==
  /\ At("lock") /\ TakeLock(Operator)
  /\ job' = [job EXCEPT !.pc = IF job.undo THEN "revert" ELSE "recheck", !.left = Part]
  /\ UNCHANGED <<disk, loaded, schedule, latest, restoring, work, told>>

(* Everything but the schedule, which the update itself has changed; then  *)
(* all four roles must authenticate with the new leaf and read the backup. *)
Recheck ==
  /\ At("recheck") /\ disk = job.expected.disk
  /\ Goto("replace")
  /\ UNCHANGED <<disk, loaded, schedule, lock, latest, restoring, work, told>>

(* replace_known: only the known preimage is replaced, by a rename. *)
Replace(p) ==
  /\ At("replace") /\ p \in job.left /\ disk[p] = job.before[p]
  /\ job' = [job EXCEPT !.left = @ \ {p}, !.changed = @ \cup {p}]
  /\ disk' = [disk EXCEPT ![p] = job.new]
  /\ UNCHANGED <<loaded, schedule, lock, latest, restoring, work, told>>

(* daemon-reload, readback of every file, health; the lock is let go       *)
(* before a persistent timer can fire.                                     *)
Reload ==
  /\ At("replace") /\ job.left = {} /\ disk = Whole(job.new)
  /\ loaded' = disk[Unit]
  /\ lock' = None
  /\ job' = [job EXCEPT !.pc = "schedule", !.left = Timer]
  /\ UNCHANGED <<disk, schedule, latest, restoring, work, told>>

(* restore_schedule, one timer after the other. *)
RestoreTimer(t) ==
  /\ At("schedule") /\ t \in job.left
  /\ timers' = [timers EXCEPT ![t] = job.expected.timers[t]]
  /\ job' = [job EXCEPT !.left = @ \ {t}]
  /\ UNCHANGED <<disk, loaded, service, lock, latest, restoring, work, told>>

(* Updated; or reverted, which is reported as the first failure. *)
EndUpdate ==
  /\ At("schedule") /\ job.left = {} /\ Finish
  /\ work' = FALSE
  /\ UNCHANGED <<disk, loaded, schedule, latest, restoring, told>>

-----------------------------------------------------------------------------
(* The failures of update_backup                                           *)

(* What a step that fails has done before it failed.                       *)
PartOfStep ==
  \/ /\ At("replace") /\ loaded' \in {loaded, disk[Unit]}
     /\ UNCHANGED <<disk, timers>>
  \/ /\ At("revert")
     /\ \E some \in SUBSET {p \in job.changed : disk[p] = job.new} :
          disk' = [p \in Part |-> IF p \in some THEN job.before[p] ELSE disk[p]]
     /\ loaded' \in {loaded, disk'[Unit]}
     /\ UNCHANGED timers
  \/ /\ At("schedule")
     /\ timers' \in Towards([t \in Timer |-> IF t \in job.left THEN job.expected.timers[t]
                                               ELSE timers[t]])
     /\ UNCHANGED <<disk, loaded>>
  \/ At("recheck") /\ UNCHANGED <<disk, loaded, timers>>

(* Compensation begins, once the services were stopped and the lock was    *)
(* held: whatever timer was started is stopped again.                      *)
Compensate(parts) ==
  /\ ~job.undo
  /\ job' = [job EXCEPT !.pc = "disable", !.undo = TRUE, !.changed = @ \cup parts]
  /\ LetGo(Operator)

(* Faulty: only a part that was replaced counts as changed. *)
ReplaceFails_Uncounted(p) ==
  /\ At("replace") /\ p \in job.left
  /\ disk' \in {disk} \cup {[disk EXCEPT ![q] = job.new] : q \in {r \in {p} : disk[r] = job.before[r]}}
  /\ Compensate({})
  /\ UNCHANGED <<loaded, schedule, latest, restoring, work, told>>

(* The part counts as changed although its replacement failed. *)
ReplaceFails(p) ==
  /\ At("replace") /\ p \in job.left
  /\ \/ UNCHANGED disk
     \/ disk[p] = job.before[p] /\ disk' = [disk EXCEPT ![p] = job.new]
  /\ Compensate({p})
  /\ UNCHANGED <<loaded, schedule, latest, restoring, work, told>>

Undo ==
  /\ PartOfStep /\ (At("replace") => job.left = {})
  /\ Compensate({})
  /\ UNCHANGED <<service, latest, restoring, work, told>>

(* Every changed part is either still or again what it was, or the bytes   *)
(* this update wrote.                                                      *)
Revert ==
  /\ At("revert")
  /\ \A p \in job.changed : disk[p] \in {job.before[p], job.new}
  /\ disk' = [p \in Part |-> IF p \in job.changed THEN job.before[p] ELSE disk[p]]
  /\ loaded' = disk'[Unit]
  /\ lock' = None
  /\ job' = [job EXCEPT !.pc = "schedule", !.left = Timer]
  /\ UNCHANGED <<schedule, latest, restoring, work, told>>

(* Faulty: the failure is reported as an ordinary one. *)
GiveUp_Untold ==
  /\ job.before # None
  /\ PartOfStep \/ (UNCHANGED <<disk, loaded>> /\ timers' \in Towards(AllOff))
  /\ Finish
  /\ UNCHANGED <<service, latest, restoring, work, told>>

(* phone_backup_update_cleanup_unconfirmed: a process of a step may still  *)
(* run, the services may not have stopped, the lock is taken, or the       *)
(* compensation failed. The timers are disabled if that succeeds, and the  *)
(* private inputs kept.                                                    *)
GiveUp ==
  /\ job.before # None
  /\ PartOfStep \/ (UNCHANGED <<disk, loaded>> /\ timers' \in Towards(AllOff))
  /\ Finish
  /\ told' = TRUE
  /\ UNCHANGED <<service, latest, restoring, work>>

-----------------------------------------------------------------------------
(* restore_backup                                                          *)

BeginRestore ==
  /\ Begin("restore") /\ ~inputs
  /\ disk[Leaf] \in Version
  /\ inputs' = TRUE
  /\ UNCHANGED <<disk, loaded, schedule, lock, latest, receipt, drill, work, told>>

(* The last backup, if it was not restored before. *)
StartDrill ==
  /\ At("restore") /\ latest # 0 /\ receipt[latest] = "none"
  /\ drill' = [gen |-> latest, reader |-> "none"]
  /\ job' = [job EXCEPT !.pc = "drill", !.gen = latest]
  /\ UNCHANGED <<disk, loaded, schedule, lock, latest, receipt, inputs, work, told>>

NotStarted ==
  /\ At("restore") /\ Finish
  /\ inputs' = FALSE
  /\ UNCHANGED <<disk, loaded, schedule, latest, receipt, drill, work, told>>

(* verify_restored_fax: the restored faxes are verified and laid out for   *)
(* the reader, which runs in a container inside the drill's network.       *)
ReaderStarts ==
  /\ drill.gen # 0 /\ drill.reader = "none"
  /\ drill' = [drill EXCEPT !.reader = "runs"]
  /\ UNCHANGED <<disk, loaded, schedule, lock, latest, receipt, inputs, work, told, job>>

(* The reader read every document that has not expired, and no tenant's    *)
(* with another's name; it is removed. Or it failed and was removed.       *)
ReaderEnds ==
  /\ drill.reader = "runs"
  /\ \E verdict \in {"ok", "failed"} : drill' = [drill EXCEPT !.reader = verdict]
  /\ UNCHANGED <<disk, loaded, schedule, lock, latest, receipt, inputs, work, told, job>>

(* The script's own end, with or without the operator: its session is its  *)
(* own. The containers go with it; where the reader could not be stopped   *)
(* (exit 76) they stay.                                                    *)
DrillEnds ==
  /\ drill.gen # 0 /\ drill.reader # "runs"
  /\ \E says \in {"none", "failed", "success"} :
       /\ says = "success" => drill.reader = "ok"
       /\ receipt' = [receipt EXCEPT ![drill.gen] = says]
  /\ drill' = NoDrill
  /\ UNCHANGED <<disk, loaded, schedule, lock, latest, inputs, work, told, job>>

Restored ==
  /\ At("drill") /\ drill = NoDrill /\ receipt[job.gen] = "success" /\ Finish
  /\ inputs' = FALSE
  /\ UNCHANGED <<disk, loaded, schedule, latest, receipt, drill, work, told>>

(* Faulty: the private inputs are removed whatever still runs. *)
RestoreFails_Cleans ==
  /\ At("drill") /\ Finish
  /\ inputs' = FALSE
  /\ UNCHANGED <<disk, loaded, schedule, latest, receipt, drill, work, told>>

(* No container and no marker of the drill is left. *)
RestoreFails ==
  /\ At("drill") /\ drill = NoDrill /\ Finish
  /\ inputs' = FALSE
  /\ UNCHANGED <<disk, loaded, schedule, latest, receipt, drill, work, told>>

(* Something is left, or cannot be looked at, or its process is unknown.   *)
RestoreUnconfirmed ==
  /\ At("drill") /\ Finish
  /\ told' = TRUE
  /\ UNCHANGED <<disk, loaded, schedule, latest, restoring, work>>

-----------------------------------------------------------------------------
(* activate_backup                                                         *)

(* Faulty: any restored backup will do. *)
Activate_AnyReceipt ==
  /\ Begin("enable") /\ TakeLock(Operator)
  /\ \A t \in Timer : ~timers[t].enabled
  /\ \E g \in 1 .. latest : receipt[g] = "success"
  /\ UNCHANGED <<disk, loaded, schedule, latest, restoring, work, told>>

Activate ==
  /\ Begin("enable") /\ TakeLock(Operator)
  /\ \A t \in Timer : ~timers[t].enabled
  /\ receipt[latest] = "success"
  /\ UNCHANGED <<disk, loaded, schedule, latest, restoring, work, told>>

(* Faulty: the timers start while the lock is held. *)
Enable_UnderLock ==
  /\ At("enable")
  /\ timers' = [t \in Timer |-> [timers[t] EXCEPT !.enabled = TRUE]]
  /\ Goto("start")
  /\ UNCHANGED <<disk, loaded, service, lock, latest, restoring, work, told>>

(* The lock is let go before the timers start. *)
Enable ==
  /\ At("enable")
  /\ timers' = [t \in Timer |-> [timers[t] EXCEPT !.enabled = TRUE]]
  /\ lock' = None /\ Goto("start")
  /\ UNCHANGED <<disk, loaded, service, latest, restoring, work, told>>

EnableFails ==
  /\ At("enable")
  /\ timers' \in Towards([t \in Timer |-> [timers[t] EXCEPT !.enabled = TRUE]])
  /\ Finish
  /\ UNCHANGED <<disk, loaded, service, latest, restoring, work, told>>

Start ==
  /\ At("start")
  /\ timers' = [t \in Timer |-> [timers[t] EXCEPT !.active = TRUE]]
  /\ Finish
  /\ UNCHANGED <<disk, loaded, service, latest, restoring, work, told>>

(* Some timers have started, or none, and the disabling that follows may   *)
(* fail in its turn.                                                       *)
StartFails ==
  /\ At("start")
  /\ timers' \in [Timer -> TimerState]
  /\ Finish
  /\ UNCHANGED <<disk, loaded, service, latest, restoring, work, told>>

-----------------------------------------------------------------------------
(* The timers' services, deploys, edits, and a killed operator             *)

(* Sources are read from the disk when the process starts. *)
Begins(w, step) ==
  /\ service[w] = NoService
  /\ service' = [service EXCEPT ![w] = [step |-> step, code |-> disk[Unit]]]

(* A timer fires, or the operator starts the first backup by hand. *)
Fire(t) ==
  /\ loaded # Absent /\ disk[Unit] # Absent
  /\ timers[t].active \/ (t = Backup /\ At("idle") /\ ~told)
  /\ Begins(t, "started")
  /\ UNCHANGED <<disk, loaded, timers, lock, latest, restoring, work, told, job>>

(* A deploy over a recorded release starts the backup that is installed,   *)
(* whatever the timers and the operator do.                                *)
DeployBacksUp ==
  /\ disk[Unit] # Absent
  /\ Begins(Deploy, "started")
  /\ UNCHANGED <<disk, loaded, timers, lock, latest, restoring, work, told, job>>

Works(w) ==
  /\ service[w].step = "started" /\ TakeLock(w)
  /\ service' = [service EXCEPT ![w].step = "work"]
  /\ UNCHANGED <<disk, loaded, timers, latest, restoring, work, told, job>>

(* Done, or failed; a lock that is taken is a failure as well. *)
Ends(w) ==
  /\ service[w].step # "idle"
  /\ service' = [service EXCEPT ![w] = NoService]
  /\ LetGo(w)
  /\ latest' \in IF w # Retention /\ service[w].step = "work" /\ latest < MaxBackups
                 THEN {latest, latest + 1} ELSE {latest}
  /\ UNCHANGED <<disk, loaded, timers, restoring, work, told, job>>

(* The deploy's own part under the lock, after its backup or without one.  *)
Releases ==
  /\ Begins(Deploy, "release") /\ TakeLock(Deploy)
  /\ UNCHANGED <<disk, loaded, timers, latest, restoring, work, told, job>>

Edit(p) ==
  /\ disk[p] \in Version
  /\ disk' = [disk EXCEPT ![p] = Unknown]
  /\ UNCHANGED <<loaded, schedule, lock, latest, restoring, work, told, job>>

Killed ==
  /\ ~At("idle") /\ Finish
  /\ told' = TRUE
  /\ UNCHANGED <<disk, loaded, schedule, latest, restoring, work>>

UpdateStep ==
  \/ Prepare \/ NotPrepared \/ Disable \/ StopServices \/ LockForUpdate \/ Recheck
  \/ \E p \in Part : Replace(p)
  \/ Reload \/ (\E t \in Timer : RestoreTimer(t)) \/ EndUpdate
  \/ (\E p \in Part : ReplaceFails(p)) \/ Undo \/ Revert \/ GiveUp

OtherStep ==
  \/ \E p \in Part : InstallPart(p)
  \/ Installed \/ InstallFails
  \/ StartDrill \/ NotStarted \/ Restored \/ RestoreFails \/ RestoreUnconfirmed
  \/ Enable \/ EnableFails \/ Start \/ StartFails

Next ==
  \/ Install \/ BeginUpdate \/ BeginRestore \/ Activate
  \/ UpdateStep \/ OtherStep
  \/ ReaderStarts \/ ReaderEnds \/ DrillEnds
  \/ \E t \in Timer : Fire(t)
  \/ \E w \in Producer : Works(w) \/ Ends(w)
  \/ DeployBacksUp \/ Releases
  \/ \E p \in Part : Edit(p)
  \/ Killed

Spec == Init /\ [][Next]_vars

-----------------------------------------------------------------------------
(* Properties                                                              *)

Locked == {"install", "recheck", "replace", "revert", "enable"}
Step == {"idle", "install", "precheck", "disable", "stop", "lock", "recheck", "replace",
         "schedule", "revert", "restore", "drill", "enable", "start"}
Installation == [disk : [Part -> Content], timers : [Timer -> TimerState]]
Job == [pc : Step, new : Content, expected : {None} \cup Installation,
        before : {None} \cup [Part -> Content], changed : SUBSET Part,
        left : SUBSET (Part \cup Timer), undo : BOOLEAN, gen : 0 .. MaxBackups]

(* Every variable is of its type, and the lock belongs to the one process  *)
(* between taking it and letting it go.                                    *)
TypeOK ==
  /\ disk \in [Part -> Content] /\ loaded \in Content
  /\ timers \in [Timer -> TimerState]
  /\ service \in [Producer -> [step : {"idle", "started", "work", "release"},
                               code : Content]]
  /\ lock \in {None, Operator} \cup Producer
  /\ lock = Operator <=> job.pc \in Locked
  /\ \A w \in Producer : lock = w <=> service[w].step \in {"work", "release"}
  /\ latest \in 0 .. MaxBackups
  /\ receipt \in [0 .. MaxBackups -> {"none", "failed", "success"}]
  /\ drill \in [gen : 0 .. MaxBackups, reader : {"none", "runs", "ok", "failed"}]
  /\ inputs \in BOOLEAN /\ work \in BOOLEAN /\ told \in BOOLEAN
  /\ job \in Job

(* Nothing that the timers or the operator started works with sources of   *)
(* one version and credentials of another. A deploy's backup does only     *)
(* after a killed or unconfirmed update of which the operator was told,    *)
(* between a failed update and its compensation, which lets the lock go,   *)
(* or when files were replaced between the start of its process and its    *)
(* lock.                                                                   *)
NoMixedBackup ==
  \A w \in Producer :
    service[w].step = "work" /\ {service[w].code, disk[Leaf]} \subseteq Version
      => \/ service[w].code = disk[Leaf]
         \/ w = Deploy /\ (told \/ job.undo \/ service[w].code # disk[Unit])

(* Private inputs of an update or a restore outlive their operation only   *)
(* after a report that they do.                                            *)
PrivateInputsAccounted ==
  /\ work => job.before # None \/ told
  /\ inputs => At("restore") \/ At("drill") \/ told

(* The inputs stay as long as a container of the drill may read them.      *)
InputsWhileDrill == drill # NoDrill => inputs

(* An update that ends without asking for a look has put the whole new     *)
(* version in place, or the whole old one, and the schedule as it was.     *)
UpdateAllOrNothing ==
  [][job.before # None /\ job' = NoJob /\ ~told' =>
       LET version == IF job.undo THEN job.before ELSE Whole(job.new)
       IN /\ \A p \in Part : disk'[p] \in {version[p], Unknown}
          /\ loaded' \in {version[Unit], Unknown}
          /\ timers' = job.expected.timers]_vars

(* A timer that was disabled is enabled by an activation only when the     *)
(* very last backup has been restored, even if backups run meanwhile.      *)
ActivatedOnProvenBackup ==
  [][\A t \in Timer : At("enable") /\ ~timers[t].enabled /\ timers'[t].enabled
       => receipt[latest] = "success"]_vars
=============================================================================
