# Verification of anshin-phone-infra

TLA+ models of the telephone infrastructure in `src/`: the PBX event spool and
its forwarder, the FAX worker with its dialplan, the poll loop for the PBX's
endpoints, the release runtime with the backup and retention jobs that share its
lock, the maintenance of the installed backup, and the quality gate of the
repository with its reuse of earlier checks. Three abstract specifications say
what the spool, the FAX worker and the release runtime promise, and the detailed
ones are shown to implement them. TLC checks small instances, TLAPS proves every
invariant, action property and refinement of the passing runs for every instance.

## The system

Asterisk is the PBX, Kamailio and RTPengine are its session border controller.
A management backend (another repository) owns numbers, endpoints, FAX jobs and
the history. This repository connects the PBX to it.

| Component | State it keeps | Operations | Talks to | What is hard |
|---|---|---|---|---|
| PBX event spool (`pbx_event_spool.py`) | `pending/`, `sent/`, `dead-letter/` | build an event, bind a TIFF, write a file | hangup handlers and the FAX worker write, the forwarder reads | the same name is written again while it is processed |
| Event forwarder (`forwarder.py`) | none beyond the disk | scan, inspect, upload, post, file, remove the TIFF; replay a dead letter | backend over HTTP | lost answers, crash between two steps, replacement between check and use |
| FAX worker and dialplan (`pbx_fax_worker.py`, `extensions.conf.template`) | call files, PDF and TIFF per attempt, channel variables | claim, enqueue, prepare, dial, transmit, two hangup handlers, complete | backend, Asterisk's call-file spool, event spool | a restart launches a call again, hangups before a handler is pushed, expired claims |
| Endpoint configuration (`pbx_management.py --poll`) | `managed-endpoints.conf`, `last_revision` | fetch, compare, write, reload, confirm, acknowledge | backend, Asterisk CLI | reloads that are late or lost, restarts |
| Call routing (`pbx_management.py`, voice contexts) | channel variables | authorize, inbound DID, answer and hangup handlers | backend, event spool | one event per call, ambiguous headers |
| SIP border (`kamailio.cfg.template`) | transactions, dialogs (Kamailio's) | request route and its sub-routes | carriers, phones, PBX, RTPengine | which source may do what, in and out of a dialog |
| Release runtime (`production_runtime.py`) | lock, saved release, containers | deploy, backup, health, rollback, retention | Docker, backup adapter | a failure at each step, two operators at once |
| Backup adapter (`phone_postgresql_backup_adapter.py`) | backup pairs, installed files and units, schedule, receipts | capture, purge; install, update, restore, activate | systemd, Docker, the backup tool, the guest lock | a failure with the backend stopped, compensation that fails, a drill that outlives its caller |
| Quality gate (`build_check.sh`, `document_governance_portable.py`) | stored plan, result file | plan, select, run the checks, write the result, trap | git, editors, CI | the tree changes while it is checked, two writers of one result |
| Reuse of checks (`document_governance_portable.py`, adapter template) | earlier result, timing log | observe inputs, choose what is reused, run, record | the governance authority | a recorded pass that no longer holds, lost lines of the log |
| Rendering, intake, firewall, bundles, voice evaluation, host scripts | none | one pass from input to output | operators | none of the above |

What makes them correct, in one line each:

* Spool and forwarder: nothing is filed as sent that the backend does not have, no
  newest event is lost, no FAX page is removed before it is safe, and every event
  is filed in the end.
* FAX worker: no second call after an answer, one result per attempt, and the
  job's state tells what happened.
* Endpoints: what is acknowledged is served, and the PBX converges to the backend.
* Routing, border: a call reaches only the owner of its number; no source gets a
  route it is not configured for.
* Release and backup: after any failure the old release runs, or the operator is
  told; nothing is migrated without a backup of the same data.
* Maintenance: an update is whole, undone or reported; only a backup that was
  restored is activated.
* Gate and reuse: what is reported as passed was checked as it stands, whatever
  was edited meanwhile and whatever was reused.

## Modules

| Module | Models | Checked in | Proved in |
|---|---|---|---|
| `EventForwarder` | spool, forwarder, replay, producers, backend | `MCEventForwarder` | `EventForwarderProofs` |
| `EventDelivery` | what the spool and its forwarder promise, without files and requests | through `EventForwarder` | `EventDeliveryProofs` |
| `FaxDispatch` | FAX worker, call-file spool, FAX dialplan, AGI commands | `MCFaxDispatch` | `FaxDispatchProofs` |
| `FaxDelivery` | what the PBX promises for the FAX jobs, without files and handlers | through `FaxDispatch` | `FaxDispatchProofs` |
| `EndpointConfig` | poll loop, PJSIP reload | `MCEndpointConfig` | `EndpointConfigProofs` |
| `ProductionRuntime` | deploy, scheduled backup, FAX retention, their containers | `MCProductionRuntime` | `ProductionRuntimeProofs` |
| `SafeRelease` | what the guest promises about releases and their data, without lock, commands and containers | through `ProductionRuntime` | `ProductionRuntimeProofs` |
| `BackupMaintenance` | install, update, restore, activate, timers and services | `MCBackupMaintenance` | `BackupMaintenanceProofs` |
| `QualityGate` | plan, portable gate, result file, edits of the tree | `MCQualityGate` | `QualityGateProofs` |
| `CheckReuse` | inputs of a check, reuse, result, timing log | `MCCheckReuse` | `CheckReuseProofs` |

`MC*` modules give the constants that a configuration file cannot express.
Operators named `X_Fault` are faulty versions of `X`. No specification uses
them; each one is noticed by the property that is meant to notice it.

### EventForwarder

A file is its event name plus a version number, the k-th file a producer wrote
under that name; it stands for the bytes and for the inode. `touched` is the one
part of `identity` (forwarder.py:127) a version does not determine: the ctime
moves when the replay unlinks the other name of the file. Each iteration of
`process_once` is `ReadEvent`, `InspectSource`, `UploadAccepted/Failed`,
`PostAccepted/Failed`, `Recheck`, `MoveToSent/MoveToDeadLetter/MoveFailed`,
`StatSource`, `UnlinkSource`; `cur` holds its locals. `Crash` may come between
any two. Producers write at any time. `deliver`'s many answers come down to
accepted, dead letter and retry, each of the latter two with and without effect
in the backend; only a call's dead letter is without effect, since its answer has
no body to disagree with.

The identity check and the rename after it are two system calls, as are the
check of the TIFF and its unlink. `Raced` names the events whose rewrite may
fall between them. It is empty in the runs that pass; `forwarder_raced` shows
what happens otherwise, and the theorems say which results need it empty.

The order of the scan is left open (the code sorts names): no property depends on
it. `Broken` names the events whose requests and renames need never succeed.

Three things are left out. A failing rename inside the except handler
(forwarder.py:218-223) ends `main`; in the model the scan goes on, the code's
container starts again. A dated copy of a dead letter may be replayed under its
own, new name; the model replays the file that bears the event's name. A TIFF
that is there and cannot be opened (an OSError other than a missing file) is
not distinguished from one that is read later.

### EventDelivery

The promise of the spool: of each name at most one event waits; a new one takes
its place; it leaves as filed, which needs the backend to know it, or as refused,
and a refused one may wait again in the place of no other. `ImplementsDelivery`
in `EventForwarder` maps `pending` to what waits, `sent` to what is filed, and
the dead letters with their dated copies to what is refused. Reading, requests,
checks, crashes and the removal of a TIFF are stutters; the two steps of a
replay are one `Replay` and one `Forget`.

### FaxDispatch

An attempt is a job and the number of its claim; the claim's UUID plays that role
in the code, and call file, PDF, TIFF and event are all named by it. `stage`
follows the call: `prepare` up to the claim check, the fetch, the conversion and
the channel variables, then dialling, answer, transmission. After a step that has
written something the channel is `closing`; `Over` is its end, with which Asterisk
removes the call file. `Killed` is TIMEOUT(absolute) or a hangup in `prepare`,
`AnswerLost` a hangup before `fax-send-hangup` is pushed. `answered` and
`transmitted` are history. The backend's claim, result and expiry are modelled
from what the worker, the forwarder and the tests expect of them.

A restart between a result event and the end of the channel leaves the call file of
a claim that has reported (`reopened`). Asterisk may launch it again. Prepare stops
it when the backend has settled the claim; before that, the TIFF of the first call
makes prepare fail, and INPUT_UNAVAILABLE replaces the pending report. If the
forwarder delivers the first report and removes that TIFF after prepare has compared
its claim and before it creates its own (`exposed`), the number is dialled a second
time. This is what the code does; `NoCallAfterAnswer`, `StateIsTruthful` and
`OnlyLastClaimActive` except exactly these attempts, and `ReportsReplaced` says when a
report may be replaced.

`Settle` is one step: the forwarder reads the event, posts it and has it
acknowledged. What may come between those is `EventForwarder`'s.

### FaxDelivery

The promise of the FAX worker, in terms of jobs: claim after claim, at most one
call at a time, none once somebody has answered; of each claim at most one report,
of success only when the pages arrived, of a failure worth another claim only when
nobody answered; the backend's state follows from the report of the last claim.
A job that the PBX begins anew after a report is `open`: of it no more is promised
than that it is sent only when pages arrived, that pages go only to somebody who
answered, and that its claims are counted. `ImplementsFaxDelivery` in `FaxDispatch`
counts a job as called while the channel of one of its attempts rings or is up. Call
files, fetching, conversion, the events' way through the spool and the removal of
TIFFs are stutters; a dial or conversion that ends without a call is `GiveUp`, a
restart of the PBX is `Interrupt`.

### EndpointConfig

A revision stands for the whole configuration; `Extensions` is the part
`pjsip show endpoints` reveals. `Reload` and `PbxLoads` are separate because the
loop does not look at the answer of the reload command: it may be refused,
queued until Asterisk has booted, or outlive the command's timeout. `EndRound` is
the exception handler. `Restart` starts the container anew; `render_config`
empties the file (render_config.py:150).

### ProductionRuntime

One process per deploy, the backup timer and the retention job; `pc` is the next
command or check and `job` the locals of `deploy`, `scheduled_backup` or
`purge_expired`. A deploy runs its backup itself (`Caller`). `Observation` is what
`Runtime.observation` compares: container identities and starts, one-offs,
volumes. It does not show whether a container runs. A start never seen before is
the next number, so equal observations mean an unchanged guest. A check that does
not hold leaves only `Fails` or `Abort`, the same exits as a failed command, so a
command's failure, its timeout and an interrupt are one alternative; a command in
doubt (`phone_command_children_unknown`) is the other, with or without effect. The
two backup helpers are one one-off; the second is created while the first still
exists. The dump counts the sessions of the database at one instant: a migration
left running by an earlier deploy may have none yet, so `Dump` may or may not come
beside it, and `quiet` in the pair says which. `Kill` ends a process and its
commands; containers live on, with the lock free again. The shared backup script,
outside this repository, is modelled as the lock around `capture_pair`.

A pair that is not quiet may be of a database that the orphan changes afterwards, so the
next migration may run over a stale backup. This is what the code does;
`MigratedOnlyBackedUp` and `SafeRelease` except such pairs. `SuccessMeansSettled` is
about the end of a deploy; that its backup lets the lock go is no report.

`failed`, `migrators` and `used` are history and bounds; `MaxJobs` bounds the
scheduled backups and retentions together. A migration of an
installed guest may change the schema or not, also before it fails.

### SafeRelease

The promise of deploys, backups and retentions, in terms of releases and data: a
backup is of one moment, at which no release serves; it is quiet if no migration
runs then, and a quiet one is stored only if no migration came between; the
migration of a candidate touches data of a recorded release only over a stored
backup, if quiet of the same database, and data of no recorded release belongs to
one candidate; only a release whose own migration was run serves, and it is
recorded while it serves. `ImplementsSafeRelease` in `ProductionRuntime` maps a
running backend to `serving`, a running migration container to `migrating`, and
the pair in a process's hand to `taken`. The database is dumped and the FAX files
are read in two steps of the guest; the dump is the `Take`, and reading the files
must be a stutter, so the files must still be those of the moment of the dump.
Locks, checks, timeouts, failing commands and reports are stutters, or a `Turn`
when a backend starts or stops or a pair is given up.

### BackupMaintenance

The operator's side of the backup adapter. The content of a part, sources with
units (`Unit`) or leaf credentials with the profile (`Leaf`), is its version;
`Unknown` is what an edit leaves, for good. `job` is the step and the locals of
the operation under way: `expected` is the state an earlier `status` showed,
`before` the preimages, `changed` the parts the compensation must put back,
`undo` that it is the compensation that disables, stops, locks and reverts.
`GiveUp` is `phone_backup_update_cleanup_unconfirmed`. A service reads its sources
when it starts and goes on with them by itself, takes the lock or fails on it. A
deploy over a recorded release runs the installed backup itself
(production_runtime.py:281, `DeployBacksUp`), whatever the timers are, and then holds
the lock for its own work (`Releases`); `StopServices` does not end it. A drill
runs in a session of its own, so it ends with or without the operator.

One operator starts one operation after another and nothing after a report that
asks for a look (`told`); a killed process counts as such a report. The
comparison and the rename of one file in `replace_known` are one step. The first
backup is started by hand, as activation demands. That systemd starts a failed
backup again (`Restart=on-failure`) adds nothing: it is a service that has not
started yet, and a stop ends it.

So a deploy's backup can work with sources and credentials of two versions, in three
cases that `NoMixedBackup` names: after an update that was killed or could not be
confirmed (the operator was told), between a failed update and its compensation,
which lets the lock go, and when files were replaced between the start of its
process and its lock. This is what the code does; for the timers' services and the
operator's first backup there is no exception.

### QualityGate

The content of a file in HEAD, in the index and in the work tree is its version, 0
the one of the merge base with origin/main, which does not move. An edit, or the
copy of a whole distribution, makes a version never seen before; nothing goes back
to an older one (no A-B-A), and nothing is unstaged. A gate with a stored plan
reads the plan's profile, then selects, runs the tests and selects again
(`document-distribution`), or executes the plan's checks (`repository-canonical`),
and writes the result; its EXIT trap writes a failed one. A gate called with
`--document-distribution` does the first without a plan or result. Each command of
the portable checker is one step; the tests read the tools one file at a time. A
gate with a plan is also given a result path; `build_check.sh` does not ask for
one, and without it says OK once its checks passed. The guard is a check that may
fail; the validation rules of the documents are not modelled beyond that.

`AGENTS.md` and the hook's own path are not modelled. In the canonical profile
nothing compares the index with the work tree: the tree that a result names may
be one nobody verified when files are partly staged, and no property claims
otherwise.

### CheckReuse

`Sources` is `check_input_definitions`: the runner, the tools, the declared reads
and the static imports of a check, or the whole tree when a loader is among them
or the check has no module of its own. `Inputs` takes the staged content of each
(document_governance_portable.py:3260), and of the declared reads the content on disk
as well. `Reads` is what a check really reads, from the work tree.
`select_check_reuse` belongs to the governance authority, outside this
repository, and is modelled from the fields the code gives it and takes from it.
A run stores its plan, for the staged paths alone or for all changes, chooses what to
reuse (`Select`), looks at the inputs again (`Observe`), executes the rest in the
adapter's order and writes its result, of which only checks that ran and passed may be
reused. The timing log is truthful for every subset of its lines.

Files are edited, staged and restored at any time (`Edit`, `Stage`, `Discard`). The
Frontend's adapter compares the plan and the inputs when it writes its result, not the
work tree with the index. So a check that passes thanks to an edit that is not staged
is recorded as passed for the staged contents, and the next run reuses it. This is what
the code does; `mixed` records the checks that ran on a file of which another content
was staged, through the reuses, and `PassedMeansPasses` and `RecordedPassesHold` except
exactly those. For a check whose files were all staged as they are when it ran, there is
no exception.

A content never seen before comes with each edit; it breaks at most one check;
what is staged is not taken back; a check reads its files in one step and, as the
owner declares, nothing else.

## Runs

| Run | Instance | States | Checks |
|---|---|---|---|
| `forwarder_fax` | one received FAX, 2 events, 2 TIFFs, 1 crash | 297 thousand | all safety properties, the refinement, every event is filed |
| `forwarder_shared` | a call, and an attempt that need never succeed, 1 crash | 51 thousand | the event that always fails does not starve the other |
| `forwarder_raced` | one attempt rewritten inside the window | | expected violation |
| `fax_retries` | one job, 2 claims, 2 restarts, also after a result | 80 thousand | all safety properties, the refinement of `FaxDelivery`; a reported claim is settled |
| `endpoints_poll` | 3 configurations, 3 changes, 1 restart | 20 thousand | acknowledged extensions are served; convergence |
| `endpoints_password` | 2 configurations, 1 change | | expected violation |
| `runtime_lock` | 2 deploys, 2 releases, 1 scheduled backup or retention, 1 kill, 1 write | 694 thousand | backup before migration, first release, exclusion of the retention, truthful outcome, the refinement of `SafeRelease` |
| `runtime_signal` | 1 deploy, late SIGTERM | | expected violation |
| `maintenance_operator` | versions up to 2, 2 backups, deploys | 1.1 million | whole updates, matching sources and credentials, private inputs, proven activation |
| `gate_edits` | 2 gates, 2 edits, 4 files in 3 layers | 1.2 million | what says OK was verified as it stands, by the tools of its plan |
| `reuse_chain` | 2 runs, 2 edits, 2 checks, 7 files | 2.0 million | what is reused or recorded as passed holds |
| `reuse_raced` | the same, an edit between the two looks | | expected violation |

Bounds. Names are independent except through the one process and the order of
its scan, so two names show every interaction between them (`forwarder_shared`)
and one is enough for what happens to a file (`forwarder_fax`). Two versions of an
event give "older" and "newer", and with two TIFFs every combination of a binding
with the bytes it was or was not made for. A second crash repeats what one does,
since a crash forgets everything but the disk. Two claims give one that is retried
and a last one, two restarts a relaunch of a relaunch, before or after a result; the
theorems cover any number. Three configurations are
two that differ in a password only and one without an extension; three changes let
a revision go away and come back.

Two deploys that overlap are the interference the recheck under the lock is for;
one after the other, the second is the repair of a failed first one. A deploy
makes a backup of its own, so with one scheduled backup or one retention besides
every two kinds of lock holder meet in either order. Releases are interchangeable
and so are deploying processes, so the run uses symmetry; no property names one of
them. Two versions of the installation are a first one and its update, tried again
after a failed one; two backups a restored one and a newer one. Two gates meet in
every order at the one result file (the theorems cover more); an edit before and
one during a gate, or two during it, are what a second selection can miss, and one
of them may be a whole distribution. In `reuse_chain` one check has imports and
declared reads and one loads a file while it runs; two edits are one that breaks a
check and one that hides it, staged or not; with two runs the second reuses the
first, and a third would reuse records of the same kind. Checks that scan the
tree, or are never reusable, are in the theorems only.

Fairness. The forwarder's loop sleeps a second and goes on (forwarder.py:263), and
its container restarts it: weak fairness of its steps. The requests and the rename
are retried for ever, so those of a name outside `Broken` are strongly fair: what
is tried infinitely often succeeds infinitely often. A permanently broken backend
or disk violates the assumption, and no event is filed then. Of a name in `Broken`
nothing of the kind is assumed: `forwarder_shared` has one, and the other is filed
all the same. Asterisk ends calls (Dial 45 s, TIMEOUT(absolute) 180 s), AGI
commands end, the forwarder delivers: weak fairness in `FaxDispatch`. The poll
loop of the endpoints runs every two seconds, with strong fairness of its phases
and of an accepted reload. No fairness is asked of producers, operators, crashes
and restarts, which are bounded.

The other modules have no liveness property: every command has a timeout, the
lock is refused and never waited for, and a gate that is killed promises nothing.

## Findings

* `forwarder_raced`: `process_once` checks the identity of the pending file and
  then renames whatever has that name. A producer that replaces the file in
  between has its event filed under `sent/` unsent. The comment at
  forwarder.py:196 promises to leave a replacement untouched.
* `endpoints_password`: a reload is confirmed by extension names alone, so a new
  password is acknowledged before it is in force.
* `runtime_signal`: `save` is inside the `try` of `deploy`, so a SIGTERM that
  arrives between the replacement of `runtime.json` and the return is handled as
  a failed deploy. It reports `rolled_back` with the old image running and the
  new one recorded; from then on `health` fails and every deploy is refused.
* `reuse_raced`: `--build-check-execution-selection` looks at the inputs twice,
  once to choose what is reused and once for the hash the writer compares. A file
  edited between the two makes the writer record a check as passed that ran
  neither now nor before on these inputs. The comment at
  document_governance_portable.py:3758 promises one look.

Four more behaviours of the code are exceptions that the properties name; each is
described with its module above: a second call, or a replaced report, after a restart
between a result event and the end of its call file (`FaxDispatch`); a stale backup
beside a migration that was left behind without a session (`ProductionRuntime`); a
deploy's own backup over the files of an update that failed half way
(`BackupMaintenance`); a check recorded as passed for staged contents it did not run on
(`CheckReuse`).

## Proofs

Every invariant and every safety action property of a passing run is a theorem,
for every value of the constants and so for any number of names, claims,
releases, processes, versions, gates, checks and runs. The theorem modules share
one layout: the inductive invariant as a conjunction of named parts, lemmas for
what several actions do alike, one lemma per part saying that every step
preserves it, then the theorems.

| Module | Theorem | States | Needs |
|---|---|---|---|
| `EventForwarderProofs` | `TypeCorrect` | `TypeOK` | |
| | `FaxNeverWithoutDocument` | `AcceptedFaxHasDocument` | |
| | `NewestEventNeverLost` | `LatestEventKept` | |
| | `FiledOnlyWhenAccepted`, `UnracedSourceSafe` | `SentWasAccepted`, `SourceRemovedOnlyAfterAck` of the names outside `Raced` | |
| | `SentOnlyWhenAccepted` | `SentWasAccepted` | `Raced = {}` |
| | `SourceSafe` | `SourceRemovedOnlyAfterAck` | `Raced = {}` |
| `EventDeliveryProofs` | `UnracedDelivers` | `EventDelivery` for the names outside `Raced` | |
| | `ForwarderDelivers` | `ImplementsDelivery` | `Raced = {}` |
| | `FilesHaveOnePlace` | `OnePlace` | |
| `FaxDispatchProofs` | `Typed`, `LastClaimActs`, `TiffStays`, `StateTruthful`, `NeverCalledAgain`, `OnlyReopenedReplaced` | `TypeOK`, `OnlyLastClaimActive`, `TiffDuringCall`, `StateIsTruthful`, `NoCallAfterAnswer`, `ReportsReplaced` | |
| | `DispatchDelivers` | `ImplementsFaxDelivery` | |
| `EndpointConfigProofs` | `Typed`, `ServedWhenAcked` | `TypeOK`, `AckedEndpointsServed` | |
| `ProductionRuntimeProofs` | `Typed`, `RetentionIsAlone`, `PairsConsistent`, `SuccessIsSettled`, `OnlyBackedUpIsMigrated`, `OneFirstRelease` | `TypeOK`, `RetentionAlone`, `PairConsistent`, `SuccessMeansSettled`, `MigratedOnlyBackedUp`, `FirstReleaseOnly` | |
| | `RuntimeIsSafe` | `ImplementsSafeRelease` | |
| | `UpOrReported` | a backend is up, or the failure was reported | |
| | `RunningIsRecorded` | `RunningOrReported` | `LateSignal = FALSE` |
| `BackupMaintenanceProofs` | `Typed`, `NeverMixed`, `AllOrNothing`, `InputsAccounted`, `InputsStay`, `ActivationProven` | `TypeOK`, `NoMixedBackup`, `UpdateAllOrNothing`, `PrivateInputsAccounted`, `InputsWhileDrill`, `ActivatedOnProvenBackup` | |
| `QualityGateProofs` | `Typed`, `SameTools`, `OkIsOwn`, `LayersVerified` | `TypeOK`, `ToolsUnchanged`, `OkMeansPassed`, `VerifiedLayers` | |
| `CheckReuseProofs` | `Typed`, `SpansTruthful` | `TypeOK`, `TimingTruthful` | |
| | `ExecutedStand`, `FreshPassedStands` | what a run executed passes when its result is written; a passed result of a run that reuses nothing holds; both but for `mixed` | |
| | `PassedStands`, `RecordsStand` | `PassedMeansPasses`, `RecordedPassesHold` | `ObservedOnce` |

Each module assumes the named assumptions on its constants, which TLC evaluates
on every run: disjoint names, natural bounds, a `None` outside the values it stands
beside. The conditions in the last column are those under which the runs pass;
`forwarder_raced`, `runtime_signal` and `reuse_raced` show what happens without.
`ReportsReplaced` and `PairConsistent` are proved but not properties of a run of
their own: TLC checks the refinements instead, which fix the reports of every job that
is not open and the moment of every stored pair.

The arguments.

* `EventForwarder`. The properties are not inductive: they need to know what the
  forwarder's locals mean at each step. `ScanInv` says a current event exists
  outside `sleep` and `next`; `WrittenInv` that every version anywhere in the
  spool was written; `ContentInv` that a version binds a TIFF only as its kind
  allows; `ProgressInv` what was established on the way (a TIFF in hand is the
  bound one, a document needed is stored before the event is posted, an outcome
  `sent` was acknowledged); `WindowInv`, for names outside `Raced`, that in `move`
  and `unlink` the file is still the one compared; `ReplayInv` that the newest
  event is not among those a replay has put back over a newer one. The refinement
  rests on what is acknowledged, on `ReplayInv` and on `LatestEventKept`; one
  lemma per kind of step maps it to a step of `EventDelivery` or a stutter.
  Everything that needs `Raced` empty is proved first for the single name that is
  not in it, with the others rewritten at will; the statements with `Raced = {}`
  are corollaries.
* `FaxDispatch`. Per attempt: who may still act (`ActiveOf`: before a report on
  the last claim, after it only a closing channel or a call file launched again),
  what its stage has left on the disk (`StageOf`), that a call's TIFF stays until
  the backend has its report (`KeptOf`), that a relaunch after a call's report is
  stopped by that TIFF or by the comparison of the claims (`StoppedOf`), what an
  answer excludes for good (`AnsweredOf`) and what a report claims (`ReportOf`);
  and that a job that is sent has its last claim's pages transmitted. What the
  last four say ends for an attempt that is `exposed`. The refinement maps a job
  without a reopened attempt claim by claim: whoever may still act works on its
  last claim, so no other attempt of the job has a call or an answer; a step of a
  job that is open is one of `Astray`.
* `EndpointConfig`. A round under way holds a configuration, and one that came to
  acknowledge has the PBX serve it or its file was replaced.
* `ProductionRuntime`. `LockInv` and `LocalInv` tie the lock to the one process
  between taking it and letting it go. `FreshInv` is the heart of the backup
  argument: the starts of containers are numbered, an equal observation means that
  nothing started since, and at most one process has seen the last start, so under
  the lock its backup is the last one and, if it is quiet, the database is the one
  it holds and no migration runs (`Restorable`). `OwnerInv` says data that no
  profile names belongs to one candidate at most. The refinement needs two more
  parts: `HeldInv`, that the FAX files are those of the moment of the dump until
  they are read (the backend is stopped and no retention is there) and that a
  release about to be recorded runs; `RanInv`, that every release on record, in a
  container or to be restored had its own migration run. It holds with the late
  signal too, and so does `UpOrReported`: what the signal breaks is which release
  runs beside the record, not the data.
* `BackupMaintenance`. `QuietInv` says that no timer's service can run while files
  are replaced (timers off and services stopped before the lock, which every
  service needs), nor while an update that failed or was given up has left files
  of two versions, and that every service of a timer runs with the sources that
  fit the credentials; `UpdateInv` and `FilesInv` what the update knows and has
  made of each file, also half way through its compensation; `ScheduleInv` and
  `DrillInv` where timers, inputs and receipts stand. A deploy's backup is not
  quiet; that its sources are those on the disk, and the disk not of two versions
  but in the named cases, is what is left for it.
* `QualityGate`. Versions only grow, so a file that is at the end what it was at
  the beginning was so at every read in between; `PlanOf`, `SawOf`, `ChosenOf` and
  `WriteOf` say it for the plan, the reads, the selection and the writer.
* `CheckReuse`. `Covered`: everything a check reads is among its sources, by
  closure over imports and the loader rule. `Seen`: of each source an earlier look
  has the content that is staged, or an older one, because what is staged is not
  taken back; so a look that equals the inputs is about the very contents.
  `DoneInv` says that a check that was executed, on staged files, passes on what
  the run saw at its second look, or that something it depends on has changed
  since, which the writer would notice. It needs no assumption on edits and
  confines the fault of `reuse_raced` to what is reused. `KnowInv` carries it
  through the runs: what a record says passed holds for the inputs recorded with
  it (`RecordOf`), and what a run reuses was chosen from the look it records
  (`ReuseOf`).

Model-checked only: the three liveness properties (`EventuallyFiled`,
`EventuallySettled`, `EndpointsConverge`), since fairness and ENABLED are out of
the prover's reach.

## Not modelled

* Call routing: `authorize` and `inbound` are a decision per call over the
  backend's answer; they keep no state of their own and write one event, whose way
  is `EventForwarder`'s. SIP border: a decision table over source, method and
  dialog; transactions and dialogs are Kamailio's.
* Rendering, forwarder health check, Compose backend resolution, carrier intake,
  firewall, SIP bundle, voice evaluation, host scripts: one pass from an input to
  an output or a verdict, without state or concurrency. The one effect that
  matters to another part, the emptied `managed-endpoints.conf`, is in
  `EndpointConfig`. RTPengine is a third-party daemon; the SIP fixture is test
  equipment.
* Document governance: the rules that a document must obey (headings, identifiers,
  links, catalogues) are functions of the files; in the models they are one check
  that passes or fails. This is most of what the map leaves uncovered.
* Hazards without a property: two dead letters of one name within one second
  (forwarder.py:147) need a clock; loss of unsynced writes at a host crash
  (pbx_event_spool.py:132) needs a disk with a cache; a claim whose answer is lost
  (pbx_fax_worker.py:55), which nothing in this code ends; a command that outlives
  the killed process it belonged to (production_runtime.py:53), since a killed
  process takes its commands with it in the model; an edit between the comparison
  and the rename of `replace_known` (phone_postgresql_backup_adapter.py:287),
  which are one step.

## Plan

1. A disk that loses unsynced writes under `EventForwarder`, with the empty event
   that becomes a dead letter.
2. Commands as actors of their own in `ProductionRuntime`, so that one can outlive
   its killed caller.
3. `SbcRouting`: the decision table of `request_route` against a reference of who
   may call whom.
