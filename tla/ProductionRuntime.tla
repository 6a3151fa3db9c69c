------------------------- MODULE ProductionRuntime -------------------------
(***************************************************************************)
(* The release runtime of the guest (scripts/production_runtime.py) with   *)
(* the jobs that share its lock: the paired database and FAX backup and    *)
(* the FAX retention (scripts/phone_postgresql_backup_adapter.py).         *)
(*                                                                         *)
(* A check that does not hold leaves only Fails: every command may fail,   *)
(* and a failed check ends the operation the same way.                     *)
(* Operators named X_Fault are faulty versions of X; nothing uses them.    *)
(***************************************************************************)
EXTENDS Naturals, FiniteSets

CONSTANTS
  Release,       \* candidates the release owner may deploy
  Deployer,      \* processes running deploy
  Timer,         \* the scheduled backup
  Purger,        \* the FAX retention job
  None,
  LateSignal,    \* may SIGTERM arrive between the replace in save and the return?
  MaxDeploys, MaxJobs, MaxKills, MaxWrites, MaxSchema

ASSUME ActorAssumption ==
  /\ Timer \notin Deployer /\ Purger \notin Deployer /\ Timer # Purger
  /\ None \notin Release \cup Deployer \cup {Timer, Purger}
  /\ LateSignal \in BOOLEAN
  /\ {MaxDeploys, MaxJobs, MaxKills, MaxWrites, MaxSchema} \subseteq Nat

(* What a backup keeps: the state of the database, and when database and   *)
(* files were read. The code has no flag quiet; it says that no migration  *)
(* was left running beside the dump.                                       *)
Pair == [schema : Nat, db : Nat, fax : Nat, quiet : BOOLEAN]

ASSUME NoneAssumption == None \notin Pair

VARIABLES
  profile,    \* runtime.json
  backend,    \* the backend container: release, start, running
  volumes,    \* do the data volumes exist?
  schema,     \* how often a migration changed the database
  data,       \* how often the backend or the retention changed database and files
  oneoffs,    \* one-off containers that exist
  running,    \* and those that run
  lock,       \* holder of the guest lock
  failed,     \* did the last holder end in failure?
  pc, job,    \* each process's step and locals
  snapshot,   \* the last pair that was captured and stored
  recovery,   \* what the last failed first deploy reported
  migrators,  \* releases whose migration has touched the volumes
  used        \* how many deploys, timed jobs and kills there were

guest   == <<profile, backend, volumes, schema, data>>
docker  == <<oneoffs, running>>
owner   == <<lock, failed>>
records == <<snapshot, recovery, migrators>>
vars    == <<guest, docker, owner, pc, job, records, used>>

Actor   == Deployer \cup {Timer, Purger}
Caller  == Deployer \cup {Timer}             \* who runs the scheduled backup
Oneoff  == {"settings", "migration", "retention", "backup"}

(* Identity and start of the containers and the volumes, not whether they run. *)
Observation ==
  [release |-> backend.release, started |-> backend.started,
   oneoffs |-> oneoffs, volumes |-> volumes]

Existing(seen) == seen.release # None \/ seen.oneoffs # {} \/ seen.volumes

Healthy(r) == r # None /\ backend.up /\ backend.release = r

(* compose up: a container of the wrong release is replaced, a stopped one *)
(* started, and both give a start never seen before.                       *)
Upped(r) ==
  IF Healthy(r) THEN backend
  ELSE [release |-> r, started |-> backend.started + 1, up |-> TRUE]

(* What a compose up that did not succeed may have left behind. *)
HalfUpped(r) ==
  {backend, [backend EXCEPT !.up = FALSE], Upped(r), [Upped(r) EXCEPT !.up = FALSE]}

NoJob == [candidate |-> None, previous |-> None, recovery |-> None, before |-> None,
          installed |-> None, base |-> None, pair |-> None, ok |-> TRUE]

Init ==
  /\ \/ profile = None /\ volumes = FALSE
        /\ backend = [release |-> None, started |-> 0, up |-> FALSE]
     \/ profile \in Release /\ volumes = TRUE
        /\ backend = [release |-> profile, started |-> 0, up |-> TRUE]
  /\ schema = 0 /\ data = 0
  /\ oneoffs = {} /\ running = {}
  /\ lock = None /\ failed = FALSE
  /\ pc = [a \in Actor |-> "idle"] /\ job = [a \in Actor |-> NoJob]
  /\ snapshot = None /\ recovery = None
  /\ migrators = {profile} \ {None}
  /\ used = [deploys |-> 0, jobs |-> 0, kills |-> 0]

Goto(a, step) == pc' = [pc EXCEPT ![a] = step]

(* The process ends; whatever it holds is released. *)
Finish(a, bad) ==
  /\ Goto(a, "idle") /\ job' = [job EXCEPT ![a] = NoJob]
  /\ IF lock = a THEN lock' = None /\ failed' = bad ELSE UNCHANGED owner

-----------------------------------------------------------------------------
(* deploy, before the lock                                                 *)

ReadProfile(d) ==
  /\ pc[d] = "idle" /\ used.deploys < MaxDeploys
  /\ used' = [used EXCEPT !.deploys = @ + 1]
  /\ \E c \in Release, r \in {None, recovery} :
       job' = [job EXCEPT ![d] = [NoJob EXCEPT !.candidate = c, !.recovery = r,
                                               !.previous = profile]]
  /\ Goto(d, "observe")
  /\ UNCHANGED <<guest, docker, owner, records>>

(* Faulty: the candidate that failed is not compared. *)
MayProceed_CandidateUnchecked(j, seen) ==
  /\ j.recovery # None =>
       j.previous = None /\ Existing(seen) /\ j.recovery.observation = seen
  /\ j.previous = None /\ Existing(seen) => j.recovery # None

(* A failed first deploy may be repaired only with what it reported, and   *)
(* data without a profile is touched in no other case.                     *)
MayProceed(j, seen) ==
  /\ j.recovery # None =>
       /\ j.previous = None /\ Existing(seen)
       /\ j.recovery = [candidate |-> j.candidate, observation |-> seen]
  /\ j.previous = None /\ Existing(seen) => j.recovery # None

Observe(d) ==
  /\ pc[d] = "observe"
  /\ MayProceed(job[d], Observation)
  /\ job' = [job EXCEPT ![d].before = Observation]
  /\ Goto(d, IF job[d].previous = None THEN "lock" ELSE "health")
  /\ UNCHANGED <<guest, docker, owner, records, used>>

CheckPrevious(d) ==
  /\ pc[d] = "health" /\ Healthy(job[d].previous)
  /\ Goto(d, "schedule")
  /\ UNCHANGED <<guest, docker, owner, job, records, used>>

-----------------------------------------------------------------------------
(* scheduled_backup and, under the lock, capture_pair                      *)

StartBackup ==
  /\ pc[Timer] = "idle" /\ used.jobs < MaxJobs
  /\ used' = [used EXCEPT !.jobs = @ + 1]
  /\ Goto(Timer, "schedule")
  /\ UNCHANGED <<guest, docker, owner, job, records>>

Schedule(a) ==
  /\ pc[a] = "schedule" /\ Healthy(profile)
  /\ job' = [job EXCEPT ![a].installed = profile]
  /\ Goto(a, "capture")
  /\ UNCHANGED <<guest, docker, owner, records, used>>

(* Faulty: an unsettled retention is not looked for. *)
BeginCapture_BesideRetention(a) ==
  /\ pc[a] = "capture" /\ lock = None
  /\ Healthy(profile) /\ volumes
  /\ "backup" \notin oneoffs
  /\ lock' = a
  /\ job' = [job EXCEPT ![a].base = [profile |-> profile, seen |-> Observation]]
  /\ Goto(a, "stop")
  /\ UNCHANGED <<guest, docker, failed, records, used>>

(* What must be absent: a retention that was not settled, helpers of an    *)
(* earlier capture.                                                        *)
BeginCapture(a) ==
  /\ pc[a] = "capture" /\ lock = None
  /\ Healthy(profile) /\ volumes
  /\ oneoffs \cap {"retention", "backup"} = {}
  /\ lock' = a
  /\ job' = [job EXCEPT ![a].base = [profile |-> profile, seen |-> Observation]]
  /\ Goto(a, "stop")
  /\ UNCHANGED <<guest, docker, failed, records, used>>

StopBackend(a) ==
  /\ pc[a] = "stop"
  /\ backend' = [backend EXCEPT !.up = FALSE]
  /\ Goto(a, "dump")
  /\ UNCHANGED <<profile, volumes, schema, data, docker, owner, job, records, used>>

(* Faulty: the stop is not confirmed. *)
StopUnconfirmed_GoesOn(a) ==
  /\ pc[a] = "stop"
  /\ Goto(a, "dump")
  /\ UNCHANGED <<guest, docker, owner, job, records, used>>

(* Not known to have stopped: nothing more is touched. *)
StopUnconfirmed(a) ==
  /\ pc[a] = "stop"
  /\ \E up \in BOOLEAN : backend' = [backend EXCEPT !.up = up]
  /\ Finish(a, TRUE)
  /\ UNCHANGED <<profile, volumes, schema, data, docker, records, used>>

(* The helper counts the clients of the database once, before the dump. A  *)
(* migration left running by a killed or timed out deploy may at that      *)
(* moment have no session: it passes, or is counted (CaptureFails).        *)
Dump(a) ==
  /\ pc[a] = "dump"
  /\ oneoffs' = oneoffs \cup {"backup"}
  /\ job' = [job EXCEPT ![a].pair = [schema |-> schema, db |-> data, fax |-> data,
                                    quiet |-> "migration" \notin running]]
  /\ Goto(a, "fax")
  /\ UNCHANGED <<guest, running, owner, records, used>>

CaptureFax(a) ==
  /\ pc[a] = "fax"
  /\ job' = [job EXCEPT ![a].pair.fax = data]
  /\ Goto(a, "restart")
  /\ UNCHANGED <<guest, docker, owner, records, used>>

CaptureFails(a) ==
  /\ pc[a] \in {"dump", "fax"}
  /\ job' = [job EXCEPT ![a].ok = FALSE]
  /\ Goto(a, "restart")
  /\ UNCHANGED <<guest, docker, owner, records, used>>

(* A helper whose creation or end is not known stays, and the backend is   *)
(* not started beside it.                                                  *)
CaptureUnknown(a) ==
  /\ pc[a] \in {"dump", "fax", "restart"}
  /\ oneoffs' \in {oneoffs, oneoffs \cup {"backup"}, oneoffs \ {"backup"}}
  /\ Finish(a, TRUE)
  /\ UNCHANGED <<guest, running, records, used>>

(* Helpers are removed and the backend started, after a failure too. *)
Restart(a) ==
  /\ pc[a] = "restart"
  /\ oneoffs' = oneoffs \ {"backup"}
  /\ backend' = Upped(backend.release)
  /\ IF job[a].ok THEN Goto(a, "transition") /\ UNCHANGED <<owner, job>>
     ELSE Finish(a, TRUE)
  /\ UNCHANGED <<profile, volumes, schema, data, running, records, used>>

RestartFails(a) ==
  /\ pc[a] = "restart"
  /\ oneoffs' = oneoffs \ {"backup"}
  /\ backend' \in {backend, Upped(backend.release)}
  /\ Finish(a, TRUE)
  /\ UNCHANGED <<profile, volumes, schema, data, running, records, used>>

(* Only the start of the backend may differ. *)
SameButStart(old, new) == [old EXCEPT !.started = new.started] = new

Transition(a) ==
  /\ pc[a] = "transition"
  /\ profile = job[a].base.profile
  /\ SameButStart(job[a].base.seen, Observation)
  /\ snapshot' = job[a].pair
  /\ lock' = None /\ failed' = FALSE
  /\ job' = [job EXCEPT ![a].base = [profile |-> profile, before |-> job[a].base.seen,
                                     after |-> Observation],
                        ![a].pair = None]
  /\ Goto(a, "verify")
  /\ UNCHANGED <<guest, docker, recovery, migrators, used>>

(* The rest of scheduled_backup and, for a deploy, what it asks of it. *)
Verify(a) ==
  /\ pc[a] = "verify"
  /\ profile = job[a].installed /\ Healthy(profile)
  /\ job[a].base.profile = job[a].installed
  /\ IF a = Timer THEN Finish(a, FALSE)
     ELSE /\ job[a].installed = job[a].previous
          /\ job[a].base.before = job[a].before
          /\ job' = [job EXCEPT ![a].before = job[a].base.after,
                                ![a].base = None, ![a].installed = None]
          /\ Goto(a, "lock") /\ UNCHANGED owner
  /\ UNCHANGED <<guest, docker, records, used>>

-----------------------------------------------------------------------------
(* deploy, under the lock                                                  *)

(* Faulty: what was observed before the backup is not compared again. *)
TakeLock_Unchecked(d) ==
  /\ pc[d] = "lock" /\ lock = None
  /\ "retention" \notin oneoffs
  /\ profile = job[d].previous
  /\ lock' = d
  /\ Goto(d, "settings")
  /\ job' = [job EXCEPT ![d] = [NoJob EXCEPT !.candidate = job[d].candidate,
                                            !.previous = job[d].previous]]
  /\ UNCHANGED <<guest, docker, failed, records, used>>

TakeLock(d) ==
  /\ pc[d] = "lock" /\ lock = None
  /\ "retention" \notin oneoffs
  /\ profile = job[d].previous /\ Observation = job[d].before
  /\ lock' = d
  /\ Goto(d, "settings")
  /\ job' = [job EXCEPT ![d] = [NoJob EXCEPT !.candidate = job[d].candidate,
                                            !.previous = job[d].previous]]
  /\ UNCHANGED <<guest, docker, failed, records, used>>

(* Pull, revision and the one-off that loads the candidate's settings. *)
CheckSettings(d) ==
  /\ pc[d] = "settings" /\ "settings" \notin oneoffs
  /\ Goto(d, "postgres")
  /\ UNCHANGED <<guest, docker, owner, job, records, used>>

SettingsFail(d) ==
  /\ pc[d] = "settings"
  /\ oneoffs' \in {oneoffs \ {"settings"}, oneoffs \cup {"settings"}}
  /\ Finish(d, TRUE)
  /\ UNCHANGED <<guest, running, records, used>>

(* A failure inside the try block: rollback, unless a child process could  *)
(* not be ended, which stops everything.                                   *)
Abort(d) == \/ Goto(d, "rollback") /\ UNCHANGED <<owner, job>>
            \/ Finish(d, TRUE)

UpPostgres(d) ==
  /\ pc[d] = "postgres"
  /\ volumes' = TRUE
  /\ Goto(d, "migrate")
  /\ UNCHANGED <<profile, backend, schema, data, docker, owner, job, records, used>>

UpPostgresFails(d) ==
  /\ pc[d] = "postgres"
  /\ volumes' \in {volumes, TRUE}
  /\ Abort(d)
  /\ UNCHANGED <<profile, backend, schema, data, docker, records, used>>

StartMigration(d) ==
  /\ pc[d] = "migrate" /\ "migration" \notin oneoffs
  /\ oneoffs' = oneoffs \cup {"migration"} /\ running' = running \cup {"migration"}
  /\ migrators' = migrators \cup {job[d].candidate}
  /\ Goto(d, "migrating")
  /\ UNCHANGED <<guest, owner, job, snapshot, recovery, used>>

MigrationNotStarted(d) ==
  /\ pc[d] = "migrate"
  /\ oneoffs' \in {oneoffs, oneoffs \cup {"migration"}}
  /\ Abort(d)
  /\ UNCHANGED <<guest, running, records, used>>

(* Faulty: the container is removed before it has ended. *)
Migrated_Early(d) ==
  /\ pc[d] = "migrating"
  /\ oneoffs' = oneoffs \ {"migration"}
  /\ Goto(d, "backend")
  /\ UNCHANGED <<guest, running, owner, job, records, used>>

Migrated(d) ==
  /\ pc[d] = "migrating" /\ "migration" \notin running
  /\ oneoffs' = oneoffs \ {"migration"}
  /\ Goto(d, "backend")
  /\ UNCHANGED <<guest, running, owner, job, records, used>>

(* The container may have failed, or outlive the command that waited. *)
MigrationFails(d) ==
  /\ pc[d] = "migrating"
  /\ Abort(d)
  /\ UNCHANGED <<guest, docker, records, used>>

UpBackend(d) ==
  /\ pc[d] = "backend"
  /\ backend' = Upped(job[d].candidate)
  /\ Goto(d, "check")
  /\ UNCHANGED <<profile, volumes, schema, data, docker, owner, job, records, used>>

UpBackendFails(d) ==
  /\ pc[d] = "backend"
  /\ backend' \in HalfUpped(job[d].candidate)
  /\ Abort(d)
  /\ UNCHANGED <<profile, volumes, schema, data, docker, records, used>>

CheckCandidate(d) ==
  /\ pc[d] = "check" /\ Healthy(job[d].candidate)
  /\ Goto(d, "save")
  /\ UNCHANGED <<guest, docker, owner, job, records, used>>

CheckFails(d) ==
  /\ pc[d] = "check" /\ Abort(d)
  /\ UNCHANGED <<guest, docker, records, used>>

Save(d) ==
  /\ pc[d] = "save"
  /\ profile' = job[d].candidate
  /\ Goto(d, "saved")
  /\ UNCHANGED <<backend, volumes, schema, data, docker, owner, job, records, used>>

SaveFails(d) ==
  /\ pc[d] \in IF LateSignal THEN {"save", "saved"} ELSE {"save"}
  /\ Goto(d, "rollback")
  /\ UNCHANGED <<guest, docker, owner, job, records, used>>

Deployed(d) ==
  /\ pc[d] = "saved"
  /\ Finish(d, FALSE)
  /\ UNCHANGED <<guest, docker, records, used>>

-----------------------------------------------------------------------------
(* rollback                                                                *)

(* Faulty: the migration is left to itself. *)
StopMigration_Skipped(d) ==
  /\ pc[d] = "rollback"
  /\ Goto(d, "restore")
  /\ UNCHANGED <<guest, docker, owner, job, records, used>>

StopMigration(d) ==
  /\ pc[d] = "rollback"
  /\ oneoffs' = oneoffs \ {"migration"} /\ running' = running \ {"migration"}
  /\ Goto(d, "restore")
  /\ UNCHANGED <<guest, owner, job, records, used>>

StopMigrationFails(d) ==
  /\ pc[d] = "rollback"
  /\ running' \in {running, running \ {"migration"}}
  /\ Finish(d, TRUE)
  /\ UNCHANGED <<guest, oneoffs, records, used>>

(* Faulty: the health of the restored release is not asked for. *)
RolledBack_Unchecked(d) ==
  /\ pc[d] = "restore" /\ job[d].previous # None
  /\ backend' \in HalfUpped(job[d].previous)
  /\ Finish(d, FALSE)
  /\ UNCHANGED <<profile, volumes, schema, data, docker, records, used>>

RolledBack(d) ==
  /\ pc[d] = "restore" /\ job[d].previous # None
  /\ backend' = Upped(job[d].previous)
  /\ Finish(d, FALSE)
  /\ UNCHANGED <<profile, volumes, schema, data, docker, records, used>>

RestoreFails(d) ==
  /\ pc[d] = "restore" /\ job[d].previous # None
  /\ backend' \in HalfUpped(job[d].previous)
  /\ Finish(d, TRUE)
  /\ UNCHANGED <<profile, volumes, schema, data, docker, records, used>>

(* A failed first deploy: the backend is stopped, the data kept, and the   *)
(* report says what a repair may start from.                               *)
StopCandidate(d) ==
  /\ pc[d] = "restore" /\ job[d].previous = None
  /\ backend' = [backend EXCEPT !.up = FALSE]
  /\ recovery' = [candidate |-> job[d].candidate, observation |-> Observation]
  /\ Finish(d, TRUE)
  /\ UNCHANGED <<profile, volumes, schema, data, docker, snapshot, migrators, used>>

StopCandidateFails(d) ==
  /\ pc[d] = "restore" /\ job[d].previous = None
  /\ backend' \in {backend, [backend EXCEPT !.up = FALSE]}
  /\ Finish(d, TRUE)
  /\ UNCHANGED <<profile, volumes, schema, data, docker, records, used>>

-----------------------------------------------------------------------------
(* purge_expired                                                           *)

StartPurge ==
  /\ pc[Purger] = "idle" /\ used.jobs < MaxJobs
  /\ lock = None /\ "retention" \notin oneoffs /\ Healthy(profile)
  /\ used' = [used EXCEPT !.jobs = @ + 1]
  /\ lock' = Purger
  /\ job' = [job EXCEPT ![Purger].installed = profile]
  /\ Goto(Purger, "create")
  /\ UNCHANGED <<guest, docker, failed, records>>

CreateRetention ==
  /\ pc[Purger] = "create"
  /\ oneoffs' = oneoffs \cup {"retention"} /\ running' = running \cup {"retention"}
  /\ Goto(Purger, "wait")
  /\ UNCHANGED <<guest, owner, job, records, used>>

(* A container whose identity was not confirmed is left alone. *)
CreateFails ==
  /\ pc[Purger] = "create"
  /\ \/ UNCHANGED docker
     \/ oneoffs' = oneoffs \cup {"retention"} /\ running' = running \cup {"retention"}
  /\ Finish(Purger, TRUE)
  /\ UNCHANGED <<guest, records, used>>

AwaitRetention ==
  /\ pc[Purger] = "wait"
  /\ \/ "retention" \notin running /\ UNCHANGED job
     \/ job' = [job EXCEPT ![Purger].ok = FALSE]
  /\ Goto(Purger, "cleanup")
  /\ UNCHANGED <<guest, docker, owner, records, used>>

RemoveRetention ==
  /\ pc[Purger] = "cleanup"
  /\ oneoffs' = oneoffs \ {"retention"} /\ running' = running \ {"retention"}
  /\ \/ /\ job[Purger].ok /\ profile = job[Purger].installed /\ Healthy(profile)
        /\ Finish(Purger, FALSE)
     \/ Finish(Purger, TRUE)
  /\ UNCHANGED <<guest, records, used>>

(* The children of the wait, or the removal, end in doubt. *)
RetentionUnknown ==
  /\ pc[Purger] \in {"wait", "cleanup"}
  /\ running' \in {running, running \ {"retention"}}
  /\ Finish(Purger, TRUE)
  /\ UNCHANGED <<guest, oneoffs, records, used>>

-----------------------------------------------------------------------------
(* Failures and the containers themselves                                  *)

(* A command or a check outside the try blocks fails. *)
Fails(a) ==
  /\ pc[a] \in {"observe", "health", "schedule", "capture", "transition",
                "verify", "lock"}
  /\ Finish(a, TRUE)
  /\ UNCHANGED <<guest, docker, records, used>>

(* The process and its commands are killed; containers are not. *)
Kill(a) ==
  /\ pc[a] # "idle" /\ used.kills < MaxKills
  /\ used' = [used EXCEPT !.kills = @ + 1]
  /\ Finish(a, TRUE)
  /\ UNCHANGED <<guest, docker, records>>

BackendWrites ==
  /\ backend.up /\ volumes /\ data < MaxWrites
  /\ data' = data + 1
  /\ UNCHANGED <<profile, backend, volumes, schema, docker, owner, pc, job, records, used>>

RetentionWrites ==
  /\ "retention" \in running /\ data < MaxWrites
  /\ data' = data + 1
  /\ UNCHANGED <<profile, backend, volumes, schema, docker, owner, pc, job, records, used>>

RetentionEnds ==
  /\ "retention" \in running
  /\ running' = running \ {"retention"}
  /\ UNCHANGED <<guest, oneoffs, owner, pc, job, records, used>>

MigrationApplies ==
  /\ "migration" \in running /\ schema < MaxSchema
  /\ schema' = schema + 1
  /\ UNCHANGED <<profile, backend, volumes, data, docker, owner, pc, job, records, used>>

(* With --rm the container goes when it ends, unless its command is gone. *)
MigrationEnds ==
  /\ "migration" \in running
  /\ running' = running \ {"migration"}
  /\ oneoffs' \in {oneoffs, oneoffs \ {"migration"}}
  /\ UNCHANGED <<guest, owner, pc, job, records, used>>

-----------------------------------------------------------------------------
BackupStep(a) ==
  \/ Schedule(a) \/ BeginCapture(a) \/ StopBackend(a) \/ StopUnconfirmed(a)
  \/ Dump(a) \/ CaptureFax(a) \/ CaptureFails(a) \/ CaptureUnknown(a)
  \/ Restart(a) \/ RestartFails(a) \/ Transition(a) \/ Verify(a)

DeployStep(d) ==
  \/ ReadProfile(d) \/ Observe(d) \/ CheckPrevious(d) \/ TakeLock(d)
  \/ CheckSettings(d) \/ SettingsFail(d) \/ UpPostgres(d) \/ UpPostgresFails(d)
  \/ StartMigration(d) \/ MigrationNotStarted(d) \/ Migrated(d) \/ MigrationFails(d)
  \/ UpBackend(d) \/ UpBackendFails(d) \/ CheckCandidate(d) \/ CheckFails(d)
  \/ Save(d) \/ SaveFails(d) \/ Deployed(d)
  \/ StopMigration(d) \/ StopMigrationFails(d) \/ RolledBack(d) \/ RestoreFails(d)
  \/ StopCandidate(d) \/ StopCandidateFails(d)

PurgeStep ==
  \/ StartPurge \/ CreateRetention \/ CreateFails \/ AwaitRetention
  \/ RemoveRetention \/ RetentionUnknown

ContainerStep ==
  \/ BackendWrites \/ RetentionWrites \/ RetentionEnds
  \/ MigrationApplies \/ MigrationEnds

Next ==
  \/ \E d \in Deployer : DeployStep(d)
  \/ \E a \in Caller : BackupStep(a)
  \/ StartBackup \/ PurgeStep
  \/ \E a \in Actor : Fails(a) \/ Kill(a)
  \/ ContainerStep

Spec == Init /\ [][Next]_vars

-----------------------------------------------------------------------------
Seen == [release : Release \cup {None}, started : Nat,
         oneoffs : SUBSET Oneoff, volumes : BOOLEAN]

Holding == {"stop", "dump", "fax", "restart", "transition", "settings", "postgres",
            "migrate", "migrating", "backend", "check", "save", "saved",
            "rollback", "restore", "create", "wait", "cleanup"}

(* Every variable is of its type; what runs exists; and the lock belongs   *)
(* to the one process between taking it and letting it go.                 *)
TypeOK ==
  /\ profile \in Release \cup {None}
  /\ backend \in [release : Release \cup {None}, started : Nat, up : BOOLEAN]
  /\ volumes \in BOOLEAN /\ schema \in 0 .. MaxSchema /\ data \in 0 .. MaxWrites
  /\ oneoffs \subseteq Oneoff /\ running \subseteq oneoffs
  /\ lock \in Actor \cup {None} /\ failed \in BOOLEAN
  /\ \A a \in Actor : lock = a <=> pc[a] \in Holding
  /\ \A a \in Actor : job[a].before \in Seen \cup {None}
  /\ migrators \subseteq Release

(* When nobody works under the lock, the recorded release is the one that  *)
(* runs, or the last operation told its caller that it failed.             *)
RunningOrReported ==
  lock = None /\ ~failed /\ profile # None => Healthy(profile)

(* Database and FAX files of a stored pair are of the same moment: nothing *)
(* wrote to either between the dump and the archive.                       *)
PairConsistent == snapshot # None => snapshot.db = snapshot.fax

(* No migration starts over the data of a recorded release unless a backup *)
(* is stored and the last one has the database as it is, whatever other    *)
(* deploys, backups and rollbacks did since this deploy looked. The one    *)
(* exception is a backup whose dump ran beside a migration that an earlier *)
(* deploy left behind and that had no session when clients were counted.   *)
MigratedOnlyBackedUp ==
  [][ "migration" \notin running /\ "migration" \in running' /\ profile # None
        => snapshot # None /\ (snapshot.quiet => snapshot.schema = schema) ]_vars

(* Until a first release is recorded, only one release's migration touches *)
(* the data: not a second candidate's, concurrent or after a failure.      *)
FirstReleaseOnly == profile = None => Cardinality(migrators) <= 1

(* A deploy does not report that it deployed or rolled back while a        *)
(* migration, its own or one left by another, is still running. (The end   *)
(* of its backup, where it lets the lock go too, is no such report.)       *)
SuccessMeansSettled ==
  [][ \A d \in Deployer :
        lock = d /\ lock' = None /\ pc[d] # "transition" /\ ~failed'
          => "migration" \notin running' ]_vars

(* While a retention runs, or is left unsettled, nobody captures or        *)
(* deploys.                                                                *)
RetentionAlone == "retention" \in oneoffs => lock \in {None, Purger}

(* Refinement                                                              *)

Serving == IF backend.up THEN backend.release ELSE None
Taken   == [a \in Actor |-> job[a].pair]

Promise == INSTANCE SafeRelease
             WITH Process <- Actor, recorded <- profile, serving <- Serving,
                  migrating <- "migration" \in running, taken <- Taken,
                  stored <- snapshot

(* Whatever fails, is killed or competes for the lock, every step of the   *)
(* deploys, backups and purges keeps the promise of SafeRelease.           *)
ImplementsSafeRelease == Promise!Spec
=============================================================================
