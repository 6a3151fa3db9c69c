---------------------- MODULE ProductionRuntimeProofs ----------------------
(***************************************************************************)
(* Theorems about ProductionRuntime, for any number of releases, deploying *)
(* processes, deploys, backups, purges and kills. IInv is the inductive    *)
(* invariant. Its parts say what the locals of a process are, what nobody  *)
(* else can do while one captures or deploys, which processes have seen    *)
(* the last start of the backend, and whose release may touch data that no *)
(* profile names yet. HeldInv and RanInv add what the implementation of    *)
(* SafeRelease rests on: of which moment a pair in hand is, and which      *)
(* releases have had their migration run.                                  *)
(***************************************************************************)
EXTENDS ProductionRuntime, FiniteSetTheorems, TLAPS

Capturing == {"stop", "dump", "fax", "restart", "transition"}
Deploying == {"settings", "postgres", "migrate", "migrating", "backend", "check",
              "save", "saved", "rollback", "restore"}
Purging   == {"create", "wait", "cleanup"}
Phase     == {"idle", "observe", "health", "schedule", "capture", "verify", "lock"}
               \cup Capturing \cup Deploying \cup Purging

Report == [candidate : Release, observation : Seen]
Base   == [profile : Release \cup {None}, seen : Seen]
Span   == [profile : Release \cup {None}, before : Seen, after : Seen]
Local  == [candidate : Release \cup {None}, previous : Release \cup {None},
           recovery : Report \cup {None}, before : Seen \cup {None},
           installed : Release \cup {None}, base : Base \cup Span \cup {None},
           pair : Pair \cup {None}, ok : BOOLEAN]

GuestInv ==
  /\ profile \in Release \cup {None}
  /\ backend \in [release : Release \cup {None}, started : Nat, up : BOOLEAN]
  /\ volumes \in BOOLEAN /\ schema \in 0 .. MaxSchema /\ data \in 0 .. MaxWrites
  /\ oneoffs \subseteq Oneoff /\ running \subseteq oneoffs \cap {"migration", "retention"}
  /\ migrators \subseteq Release

LockInv ==
  /\ lock \in Actor \cup {None} /\ failed \in BOOLEAN
  /\ \A a \in Actor : lock = a <=> pc[a] \in Holding

(* Where a process may be, and with what locals.                           *)
Well(a, step, j) ==
  /\ a = Purger => step \in {"idle"} \cup Purging
  /\ a = Timer => step \in {"idle", "schedule", "capture", "verify"} \cup Capturing
  /\ a \in Deployer => /\ step \notin Purging
                       /\ step # "idle" => j.candidate \in Release
                       /\ step = "lock" => j.before \in Seen
  /\ step \in Capturing => j.base \in Base
  /\ step = "verify" => j.base \in Span

LocalInv ==
  /\ pc \in [Actor -> Phase] /\ job \in [Actor -> Local]
  /\ recovery \in Report \cup {None}
  /\ \A a \in Actor : Well(a, pc[a], job[a])

(* The recorded release only changes under the lock, and is never lost.    *)
ProfileOf(a) ==
  /\ job[a].previous # None => profile # None
  /\ pc[a] \in {"settings", "postgres", "migrate"} => profile = job[a].previous
  /\ pc[a] \in Capturing \cup {"verify"} => profile # None
  /\ pc[a] \in Capturing => backend.release = profile

ProfileInv == \A a \in Actor : ProfileOf(a)

Captured(a) == pc[a] = "transition" \/ (pc[a] = "restart" /\ job[a].ok)

(* While a pair is captured the backend is stopped, and the pair is of one *)
(* moment. A quiet one has the database as it is.                          *)
PairOf(a) ==
  /\ pc[a] \in {"dump", "fax", "restart"} => ~backend.up
  /\ pc[a] = "fax" => job[a].pair \in Pair /\ job[a].pair.db = data
  /\ Captured(a) => job[a].pair \in Pair /\ job[a].pair.db = job[a].pair.fax
  /\ pc[a] = "fax" \/ Captured(a) =>
       (job[a].pair.quiet => job[a].pair.schema = schema)

PairInv == PairConsistent /\ \A a \in Actor : PairOf(a)

(* Where a step of a deploy goes on, and beside a quiet pair, no migration *)
(* runs.                                                                   *)
SettledOf(a) ==
  /\ pc[a] \in {"backend", "check", "save", "saved", "restore"}
       => "migration" \notin running
  /\ pc[a] = "fax" \/ Captured(a) =>
       (job[a].pair.quiet => "migration" \notin running)

SettledInv == \A a \in Actor : SettledOf(a)

(* The start of the backend a process saw at the end of its own backup.    *)
Backed(a) == pc[a] = "verify" \/ (pc[a] = "lock" /\ job[a].previous # None)
SawStart(a) == IF pc[a] = "verify" THEN job[a].base.after.started ELSE job[a].before.started

(* The last backup, if it is quiet, has the database as it is, and nobody  *)
(* is changing it.                                                         *)
Restorable ==
  /\ snapshot \in Pair
  /\ snapshot.quiet => snapshot.schema = schema /\ "migration" \notin running

Early == {"settings", "postgres", "migrate"}

(* At most one process has seen the last start; then its backup is the     *)
(* last, and the database has not changed since.                           *)
FreshOf(a) == Backed(a) => /\ SawStart(a) <= backend.started
                           /\ SawStart(a) = backend.started => Restorable

Rivals(a, b) ==
  /\ Backed(a) /\ Backed(b) /\ a # b => SawStart(a) # SawStart(b)
  /\ Backed(a) /\ pc[b] \in {"transition"} \cup Deploying => SawStart(a) < backend.started

SafeOf(d) == pc[d] \in Early /\ job[d].previous # None => Restorable

FreshInv == \A a \in Actor : FreshOf(a) /\ SafeOf(a) /\ \A b \in Actor : Rivals(a, b)

(* Until a release is recorded, the data belongs to one candidate: every   *)
(* process that may still come to the data, and every report it could use, *)
(* has its name.                                                           *)
OwnReport(c, r) == r # None /\ r.observation.volumes => volumes /\ r.candidate = c

OwnWork(c, d) ==
  /\ pc[d] = "lock" /\ job[d].before.volumes => volumes /\ job[d].candidate = c
  /\ pc[d] \in Deploying /\ volumes => job[d].candidate = c
  /\ pc[d] = "migrate" => volumes

OwnedBy(c) ==
  profile = None =>
    /\ migrators \subseteq {c}
    /\ migrators # {} => volumes
    /\ OwnReport(c, recovery)
    /\ \A a \in Actor : OwnReport(c, job[a].recovery)
    /\ \A d \in Deployer : OwnWork(c, d)

OwnerInv == \E c \in Release \cup {None} : OwnedBy(c)

IInv == /\ GuestInv /\ LockInv /\ LocalInv /\ RetentionAlone /\ ProfileInv /\ PairInv
        /\ SettledInv /\ FreshInv /\ OwnerInv

(* Without a signal after the replace in save, a deploy that rolls back    *)
(* still has the release it found on record. With one, it restores that    *)
(* release all the same, beside the record of the other.                   *)
Serves == Healthy(profile) \/ (LateSignal /\ backend.up)

ServesOrReported == lock = None /\ ~failed /\ profile # None => Serves

RunOf(a) ==
  /\ pc[a] = "transition" => backend.up
  /\ pc[a] \in Deploying \ {"saved"} /\ ~LateSignal => profile = job[a].previous
  /\ pc[a] = "saved" => profile = job[a].candidate
  /\ pc[a] \in {"save", "saved"} => Healthy(job[a].candidate)

RunInv == ServesOrReported /\ \A a \in Actor : RunOf(a)

-----------------------------------------------------------------------------
LEMMA Values ==
  /\ None \notin Release /\ None \notin Actor /\ None \notin Pair
  /\ Timer \in Actor /\ Purger \in Actor /\ Timer # Purger
  /\ Timer \notin Deployer /\ Purger \notin Deployer
  /\ Deployer \subseteq Actor /\ Caller \subseteq Actor /\ Purger \notin Caller
  /\ NoJob \in Local /\ NoJob.previous = None /\ NoJob.recovery = None /\ NoJob.ok
  /\ MaxWrites \in Nat /\ MaxSchema \in Nat /\ "idle" \in Phase
  BY ActorAssumption, NoneAssumption DEF Phase, ActorAssumption, Pair, Actor,
     Caller, NoJob, Local

LEMMA Types == GuestInv /\ LockInv /\ LocalInv => TypeOK
  BY DEF TypeOK, GuestInv, LockInv, LocalInv, Local

LEMMA BackendType ==
  ASSUME GuestInv, NEW r \in Release \cup {None}
  PROVE  /\ Upped(r) \in [release : Release \cup {None}, started : Nat, up : BOOLEAN]
         /\ HalfUpped(r) \subseteq [release : Release \cup {None}, started : Nat, up : BOOLEAN]
<1>1. Upped(r) \in [release : Release \cup {None}, started : Nat, up : BOOLEAN]
  BY DEF GuestInv, Upped
<1> QED
  BY <1>1 DEF GuestInv, HalfUpped

LEMMA ObservationType ==
  ASSUME GuestInv PROVE Observation \in Seen
  BY DEF GuestInv, Observation, Seen

LEMMA Fields ==
  ASSUME LocalInv, NEW a \in Actor
  PROVE  /\ job[a].candidate \in Release \cup {None} /\ job[a].previous \in Release \cup {None}
         /\ job[a].installed \in Release \cup {None} /\ job[a].recovery \in Report \cup {None}
         /\ job[a].before \in Seen \cup {None} /\ job[a].pair \in Pair \cup {None}
         /\ job[a].ok \in BOOLEAN
  BY DEF LocalInv, Local

LEMMA Failing == \A j \in Local : [j EXCEPT !.ok = FALSE] \in Local
  BY DEF Local

LEMMA Moves ==
  ASSUME LocalInv, NEW a \in Actor,
         pc' \in [Actor -> Phase], job' \in [Actor -> Local], recovery' \in Report \cup {None},
         \A b \in Actor \ {a} : pc'[b] = pc[b] /\ job'[b] = job[b],
         Well(a, pc'[a], job'[a])
  PROVE  LocalInv'
  BY DEF LocalInv

LEMMA Phases ==
  {"idle", "observe", "health", "schedule", "capture", "verify", "lock",
   "stop", "dump", "fax", "restart", "transition",
   "settings", "postgres", "migrate", "migrating", "backend", "check",
   "save", "saved", "rollback", "restore", "create", "wait", "cleanup"} \subseteq Phase
  BY DEF Phase, Capturing, Deploying, Purging

(* What the end of a process leaves of it, and of the lock.                *)
LEMMA Ended ==
  ASSUME LockInv, LocalInv, NEW a \in Actor, Finish(a, TRUE) \/ Finish(a, FALSE)
  PROVE  /\ pc' \in [Actor -> Phase] /\ job' \in [Actor -> Local]
         /\ pc'[a] = "idle" /\ job'[a] = NoJob
         /\ \A b \in Actor \ {a} : pc'[b] = pc[b] /\ job'[b] = job[b]
         /\ lock' = IF lock = a THEN None ELSE lock
<1>1. pc' = [pc EXCEPT ![a] = "idle"] /\ job' = [job EXCEPT ![a] = NoJob]
  BY DEF Finish, Goto
<1>2. pc \in [Actor -> Phase] /\ job \in [Actor -> Local] /\ NoJob \in Local
  BY Values DEF LocalInv
<1>3. lock' = IF lock = a THEN None ELSE lock
  BY DEF Finish, owner
<1>4. pc' \in [Actor -> Phase] /\ pc'[a] = "idle" /\ \A b \in Actor \ {a} : pc'[b] = pc[b]
  BY <1>1, <1>2, Values
<1>5. job' \in [Actor -> Local] /\ job'[a] = NoJob
  BY <1>1, <1>2
<1>6. \A b \in Actor \ {a} : job'[b] = job[b]
  BY <1>1, <1>2
<1> QED
  BY <1>3, <1>4, <1>5, <1>6

LEMMA EndedLocal ==
  ASSUME LockInv, LocalInv, NEW a \in Actor, Finish(a, TRUE) \/ Finish(a, FALSE),
         recovery' \in Report \cup {None}
  PROVE  LocalInv'
<1>1. Well(a, "idle", NoJob)
  BY Values DEF Well, Purging, Capturing
<1> QED
  BY <1>1, Ended, Moves

(* The lock goes with the process.                                         *)
LEMMA EndedLock ==
  ASSUME LockInv, LocalInv, NEW a \in Actor, Finish(a, TRUE) \/ Finish(a, FALSE)
  PROVE  LockInv'
<1>1. failed' \in BOOLEAN
  BY DEF Finish, owner, LockInv
<1>2. lock' = IF lock = a THEN None ELSE lock
  BY Ended
<1>3. \A b \in Actor : pc'[b] = IF b = a THEN "idle" ELSE pc[b]
  BY Ended
<1> QED
  BY <1>1, <1>2, <1>3, Values DEF LockInv, Holding

(* A failure inside the try block: rollback, or the end.                   *)
LEMMA Aborted ==
  ASSUME LockInv, LocalInv, NEW d \in Deployer, Abort(d)
  PROVE  /\ pc' \in [Actor -> Phase] /\ job' \in [Actor -> Local]
         /\ \/ pc'[d] = "rollback" /\ job'[d] = job[d] /\ lock' = lock /\ failed' = failed
            \/ pc'[d] = "idle" /\ job'[d] = NoJob
         /\ lock' \in {lock, None}
         /\ \A b \in Actor \ {d} : pc'[b] = pc[b] /\ job'[b] = job[b]
<1>1. CASE Finish(d, TRUE)
  BY <1>1, Ended, Values
<1>2. CASE Goto(d, "rollback") /\ UNCHANGED <<owner, job>>
  BY <1>2, Values, Phases DEF Goto, owner, LocalInv
<1> QED
  BY <1>1, <1>2 DEF Abort

LEMMA AbortedInv ==
  ASSUME LockInv, LocalInv, NEW d \in Deployer, Abort(d), lock = d, pc[d] # "idle",
         recovery' = recovery
  PROVE  LocalInv' /\ LockInv'
<1>1. CASE Finish(d, TRUE)
  BY <1>1, EndedLocal, EndedLock, Values DEF LocalInv
<1>2. CASE Goto(d, "rollback") /\ UNCHANGED <<owner, job>>
  <2>1. Well(d, "rollback", job[d])
    BY Values DEF LocalInv, Well, Capturing, Purging
  <2>2. LocalInv'
    BY <1>2, <2>1, Aborted, Moves, Values, Phases DEF LocalInv, Goto
  <2>3. LockInv'
    BY <1>2, Values DEF LockInv, LocalInv, Goto, owner, Holding
  <2> QED
    BY <2>2, <2>3
<1> QED
  BY <1>1, <1>2 DEF Abort

LEMMA Reported ==
  ASSUME LockInv, NEW a \in Actor
  PROVE  /\ Finish(a, TRUE) /\ lock = a => failed'
         /\ Finish(a, TRUE) \/ Finish(a, FALSE) => lock = a \/ failed' = failed
  BY DEF Finish, owner

(* One process at a time works under the lock.                             *)
LEMMA Exclusive ==
  ASSUME LockInv, NEW a \in Actor, pc[a] \in Holding
  PROVE  lock = a /\ \A b \in Actor \ {a} : pc[b] \notin Capturing \cup Deploying \cup Purging
  BY Values DEF LockInv, Holding, Capturing, Deploying, Purging

LEMMA ProfileEnds ==
  ASSUME LockInv, LocalInv, ProfileInv, NEW a \in Actor,
         Finish(a, TRUE) \/ Finish(a, FALSE), 
         profile' = profile, lock = a \/ backend'.release = backend.release
  PROVE  ProfileInv'
<1> SUFFICES ASSUME NEW b \in Actor
             PROVE  ProfileOf(b)'
  BY DEF ProfileInv
<1>1. CASE b = a
  BY <1>1, Ended, Values DEF ProfileOf, Capturing
<1>2. CASE b # a
  <2>1. pc'[b] = pc[b] /\ job'[b] = job[b]
    BY <1>2, Ended
  <2>2. lock = a => pc[b] \notin Capturing
    BY <1>2, Exclusive, Values DEF LockInv
  <2> QED
    BY <2>1, <2>2 DEF ProfileInv, ProfileOf
<1> QED
  BY <1>1, <1>2

LEMMA PairEnds ==
  ASSUME LockInv, LocalInv, PairInv, NEW a \in Actor,
         Finish(a, TRUE) \/ Finish(a, FALSE), 
         UNCHANGED <<snapshot, data, schema>>, lock = a \/ UNCHANGED backend
  PROVE  PairInv'
<1>1. ASSUME NEW b \in Actor PROVE PairOf(b)'
  <2>1. CASE b = a
    BY <2>1, Ended, Values DEF PairOf, Captured
  <2>2. CASE b # a
    <3>1. pc'[b] = pc[b] /\ job'[b] = job[b]
      BY <2>2, Ended
    <3>2. lock = a => pc[b] \notin Capturing
      BY <2>2, Exclusive, Values DEF LockInv
    <3> QED
      BY <3>1, <3>2 DEF PairInv, PairOf, Captured, Capturing
  <2> QED
    BY <2>1, <2>2
<1> QED
  BY <1>1 DEF PairInv, PairConsistent

LEMMA SettledEnds ==
  ASSUME LockInv, LocalInv, SettledInv, NEW a \in Actor,
         Finish(a, TRUE) \/ Finish(a, FALSE), 
         "migration" \in running' => "migration" \in running
  PROVE  SettledInv'
<1> SUFFICES ASSUME NEW b \in Actor
             PROVE  SettledOf(b)'
  BY DEF SettledInv
<1>1. CASE b = a
  BY <1>1, Ended, Values DEF SettledOf, Captured
<1>2. CASE b # a
  BY <1>2, Ended DEF SettledInv, SettledOf, Captured
<1> QED
  BY <1>1, <1>2

LEMMA SawNumber ==
  ASSUME LocalInv, NEW a \in Actor, Backed(a), pc[a] = "lock" => a \in Deployer
  PROVE  SawStart(a) \in Nat
<1>1. CASE pc[a] = "verify"
  <2>1. job[a].base \in Span
    BY <1>1 DEF LocalInv, Well
  <2> QED
    BY <1>1, <2>1 DEF SawStart, Span, Seen
<1>2. CASE pc[a] = "lock"
  <2>1. job[a].before \in Seen
    BY <1>2 DEF LocalInv, Well
  <2> QED
    BY <1>2, <2>1 DEF SawStart, Seen
<1> QED
  BY <1>1, <1>2 DEF Backed

LEMMA AtLock ==
  ASSUME LocalInv, NEW a \in Actor, pc[a] = "lock"
  PROVE  a \in Deployer
  BY DEF LocalInv, Well, Actor, Purging, Capturing

(* No process comes to have seen a start, or to hold the lock.             *)
LEMMA FreshKept ==
  ASSUME GuestInv, LocalInv, FreshInv,
         \A b \in Actor : Backed(b)' => Backed(b) /\ SawStart(b)' = SawStart(b),
         \A b \in Actor : pc'[b] \in {"transition"} \cup Deploying =>
                            pc[b] \in {"transition"} \cup Deploying,
         \A b \in Actor : pc'[b] \in Early /\ job'[b].previous # None =>
                            pc[b] \in Early /\ job[b].previous # None,
         backend.started <= backend'.started, backend'.started \in Nat,
         Restorable => Restorable'
  PROVE  FreshInv'
<1>1. backend.started \in Nat /\ \A b \in Actor : Backed(b) => SawStart(b) \in Nat
  BY SawNumber, AtLock DEF GuestInv
<1>2. ASSUME NEW a \in Actor PROVE FreshOf(a)'
  <2>1. FreshOf(a)
    BY DEF FreshInv
  <2>2. CASE Backed(a)'
    <3>1. Backed(a) /\ SawStart(a)' = SawStart(a) /\ SawStart(a) \in Nat
      BY <1>1, <2>2
    <3> QED
      BY <1>1, <2>1, <3>1 DEF FreshOf
  <2> QED
    BY <2>2 DEF FreshOf
<1>3. ASSUME NEW a \in Actor PROVE SafeOf(a)'
  BY DEF FreshInv, SafeOf, Early
<1>4. ASSUME NEW a \in Actor, NEW b \in Actor PROVE Rivals(a, b)'
  <2>1. Rivals(a, b)
    BY DEF FreshInv
  <2>2. CASE Backed(a)'
    <3>1. Backed(a) /\ SawStart(a)' = SawStart(a) /\ SawStart(a) \in Nat
      BY <1>1, <2>2
    <3>2. (pc[b] \in {"transition"} \cup Deploying)' => pc[b] \in {"transition"} \cup Deploying
      BY DEF Deploying
    <3> QED
      BY <1>1, <2>1, <3>1, <3>2 DEF Rivals
  <2> QED
    BY <2>2 DEF Rivals
<1> QED
  BY <1>2, <1>3, <1>4 DEF FreshInv

LEMMA FreshEnds ==
  ASSUME GuestInv, LockInv, LocalInv, FreshInv, NEW a \in Actor,
         Finish(a, TRUE) \/ Finish(a, FALSE), 
         backend.started <= backend'.started, backend'.started \in Nat,
         Restorable => Restorable'
  PROVE  FreshInv'
<1>1. \A b \in Actor : pc'[b] # "idle" => pc'[b] = pc[b] /\ job'[b] = job[b]
  BY Ended
<1>2. \A b \in Actor : Backed(b)' => Backed(b) /\ SawStart(b)' = SawStart(b)
  BY <1>1 DEF Backed, SawStart
<1>3. \A b \in Actor : pc'[b] \in {"transition"} \cup Deploying =>
                            pc[b] \in {"transition"} \cup Deploying
  BY <1>1 DEF Deploying
<1>4. \A b \in Actor : pc'[b] \in Early /\ job'[b].previous # None =>
                            pc[b] \in Early /\ job[b].previous # None
  BY <1>1 DEF Early
<1> QED
  BY <1>2, <1>3, <1>4, FreshKept

LEMMA FreshGoes ==
  ASSUME GuestInv, LocalInv, FreshInv, NEW a \in Actor,
         \A b \in Actor \ {a} : pc'[b] = pc[b] /\ job'[b] = job[b],
         pc'[a] \notin {"verify", "lock", "transition", "settings"},
         pc'[a] \in Deploying => pc[a] \in Deploying /\ job'[a] = job[a],
         pc'[a] \in Early => pc[a] \in Early,
         backend.started <= backend'.started, backend'.started \in Nat,
         Restorable => Restorable'
  PROVE  FreshInv'
<1>1. \A b \in Actor : Backed(b)' => Backed(b) /\ SawStart(b)' = SawStart(b)
  BY DEF Backed, SawStart
<1>2. \A b \in Actor : pc'[b] \in {"transition"} \cup Deploying =>
                            pc[b] \in {"transition"} \cup Deploying
  BY DEF Deploying
<1>3. \A b \in Actor : pc'[b] \in Early /\ job'[b].previous # None =>
                            pc[b] \in Early /\ job[b].previous # None
  BY DEF Deploying, Early
<1> QED
  BY <1>1, <1>2, <1>3, FreshKept

LEMMA StartGrows ==
  ASSUME GuestInv, NEW r \in Release \cup {None}, NEW b \in HalfUpped(r)
  PROVE  backend.started <= b.started /\ b.started \in Nat
<1> USE DEF GuestInv
<1>1. backend.started <= backend.started
  OBVIOUS
<1>2. Upped(r).started \in Nat /\ backend.started <= Upped(r).started
  BY DEF Upped
<1>3. [backend EXCEPT !.up = FALSE].started = backend.started
  OBVIOUS
<1>4. [Upped(r) EXCEPT !.up = FALSE].started = Upped(r).started
  BY DEF Upped
<1> QED
  BY <1>1, <1>2, <1>3, <1>4 DEF HalfUpped

LEMMA StartStays ==
  ASSUME GuestInv,
         backend' = backend \/ \E up \in BOOLEAN : backend' = [backend EXCEPT !.up = up]
  PROVE  backend.started <= backend'.started /\ backend'.started = backend.started
         /\ backend'.started \in Nat
<1>1. backend.started \in Nat
  BY DEF GuestInv
<1>2. backend'.started = backend.started
  BY DEF GuestInv
<1> QED
  BY <1>1, <1>2

LEMMA GuestStep ==
  ASSUME IInv, [Next]_vars
  PROVE  GuestInv'
<1> USE Values DEF IInv, GuestInv, LocalInv, guest, docker, owner, records
<1>1. ASSUME NEW d \in Deployer,
             ReadProfile(d) \/ TakeLock(d)
      PROVE  GuestInv'
  BY <1>1 DEF ReadProfile, TakeLock, NoJob
<1>2. ASSUME NEW d \in Deployer, Observe(d) PROVE GuestInv'
  BY <1>2 DEF Observe, MayProceed
<1>3. ASSUME NEW d \in Deployer, CheckPrevious(d) PROVE GuestInv'
  BY <1>3 DEF CheckPrevious, Healthy
<1>4. ASSUME NEW d \in Deployer,
             CheckSettings(d) \/ UpPostgres(d) \/ Migrated(d) \/ CheckCandidate(d)
      PROVE  GuestInv'
  BY <1>4 DEF CheckSettings, UpPostgres, Migrated, CheckCandidate
<1>5. ASSUME NEW d \in Deployer, SettingsFail(d) PROVE GuestInv'
  BY <1>5, Ended DEF SettingsFail, Oneoff
<1>6. ASSUME NEW d \in Deployer,
             UpPostgresFails(d) \/ MigrationFails(d) \/ CheckFails(d)
      PROVE  GuestInv'
  <2>1. UNCHANGED <<profile, backend, schema, data, oneoffs, running, migrators>>
    BY <1>6 DEF UpPostgresFails, MigrationFails, CheckFails
  <2>2. volumes' \in {volumes, TRUE}
    BY <1>6 DEF UpPostgresFails, MigrationFails, CheckFails
  <2> QED
    BY <2>1, <2>2
<1>7. ASSUME NEW d \in Deployer, StartMigration(d) PROVE GuestInv'
  BY <1>7 DEF StartMigration, Oneoff, Well
<1>8. ASSUME NEW d \in Deployer, MigrationNotStarted(d) PROVE GuestInv'
  BY <1>8, Ended DEF MigrationNotStarted, Abort, Oneoff
<1>9. ASSUME NEW d \in Deployer, UpBackend(d) PROVE GuestInv'
  BY <1>9, BackendType, Fields DEF UpBackend
<1>10. ASSUME NEW d \in Deployer, UpBackendFails(d) PROVE GuestInv'
  BY <1>10, BackendType, Fields, Ended DEF UpBackendFails, Abort
<1>11. ASSUME NEW d \in Deployer, Save(d) PROVE GuestInv'
  BY <1>11 DEF Save, Well
<1>12. ASSUME NEW d \in Deployer,
             SaveFails(d) \/ StopMigration(d)
      PROVE  GuestInv'
  BY <1>12 DEF SaveFails, StopMigration
<1>13. ASSUME NEW d \in Deployer, Deployed(d) PROVE GuestInv'
  BY <1>13, Ended DEF Deployed
<1>14. ASSUME NEW d \in Deployer, StopMigrationFails(d) PROVE GuestInv'
  BY <1>14, Ended DEF StopMigrationFails
<1>15. ASSUME NEW d \in Deployer, RolledBack(d) PROVE GuestInv'
  BY <1>15, BackendType, Fields, Ended DEF RolledBack
<1>16. ASSUME NEW d \in Deployer, RestoreFails(d) PROVE GuestInv'
  BY <1>16, BackendType, Fields, Ended DEF RestoreFails
<1>17. ASSUME NEW d \in Deployer, StopCandidate(d) PROVE GuestInv'
  BY <1>17, Ended DEF StopCandidate
<1>18. ASSUME NEW d \in Deployer, StopCandidateFails(d) PROVE GuestInv'
  BY <1>18, Ended DEF StopCandidateFails
<1>19. ASSUME NEW a \in Caller,
             Schedule(a) \/ BeginCapture(a) \/ StopBackend(a) \/ CaptureFax(a)
      PROVE  GuestInv'
  BY <1>19 DEF Schedule, BeginCapture, StopBackend, CaptureFax
<1>20. ASSUME NEW a \in Caller, StopUnconfirmed(a) PROVE GuestInv'
  BY <1>20, Ended DEF StopUnconfirmed
<1>21. ASSUME NEW a \in Caller, Dump(a) PROVE GuestInv'
  BY <1>21 DEF Dump, Oneoff
<1>22. ASSUME NEW a \in Caller,
             CaptureFails(a) \/ Transition(a)
      PROVE  GuestInv'
  BY <1>22 DEF CaptureFails, Transition
<1>23. ASSUME NEW a \in Caller, CaptureUnknown(a) PROVE GuestInv'
  BY <1>23, Ended DEF CaptureUnknown, Oneoff
<1>24. ASSUME NEW a \in Caller, Restart(a) PROVE GuestInv'
  BY <1>24, BackendType, Fields, Ended DEF Restart
<1>25. ASSUME NEW a \in Caller, RestartFails(a) PROVE GuestInv'
  BY <1>25, BackendType, Fields, Ended DEF RestartFails
<1>26. ASSUME NEW a \in Caller, Verify(a) PROVE GuestInv'
  BY <1>26, Ended DEF Verify
<1>27. ASSUME NEW a \in Actor, Fails(a) PROVE GuestInv'
  BY <1>27, Ended DEF Fails
<1>28. ASSUME NEW a \in Actor, Kill(a) PROVE GuestInv'
  BY <1>28, Ended DEF Kill
<1>29. CASE StartBackup \/ StartPurge \/ AwaitRetention \/ BackendWrites
  BY <1>29 DEF StartBackup, StartPurge, AwaitRetention, BackendWrites
<1>30. CASE CreateRetention
  BY <1>30 DEF CreateRetention, Oneoff
<1>31. CASE CreateFails
  BY <1>31, Ended DEF CreateFails, Oneoff
<1>32. CASE RemoveRetention \/ RetentionUnknown
  BY <1>32, Ended DEF RemoveRetention, RetentionUnknown
<1>33. CASE RetentionWrites \/ RetentionEnds \/ MigrationApplies \/ MigrationEnds
  BY <1>33 DEF RetentionWrites, RetentionEnds, MigrationApplies, MigrationEnds
<1>34. CASE UNCHANGED vars
  BY <1>34 DEF vars
<1> QED
  BY <1>1, <1>2, <1>3, <1>4, <1>5, <1>6, <1>7, <1>8, <1>9, <1>10, <1>11, <1>12,
     <1>13, <1>14, <1>15, <1>16, <1>17, <1>18, <1>19, <1>20, <1>21, <1>22, <1>23,
     <1>24, <1>25, <1>26, <1>27, <1>28, <1>29, <1>30, <1>31, <1>32, <1>33, <1>34
     DEF Next, DeployStep, BackupStep, PurgeStep, ContainerStep

LEMMA LockStep ==
  ASSUME IInv, [Next]_vars
  PROVE  LockInv'
<1> USE Values DEF IInv, LockInv, LocalInv, Holding, guest, docker, owner, records
<1>1. ASSUME NEW d \in Deployer, ReadProfile(d) PROVE LockInv'
  BY <1>1 DEF ReadProfile, NoJob, Goto
<1>2. ASSUME NEW d \in Deployer, Observe(d) PROVE LockInv'
  BY <1>2 DEF Observe, MayProceed, Goto
<1>3. ASSUME NEW d \in Deployer, CheckPrevious(d) PROVE LockInv'
  BY <1>3 DEF CheckPrevious, Healthy, Goto
<1>4. ASSUME NEW d \in Deployer, TakeLock(d) PROVE LockInv'
  BY <1>4 DEF TakeLock, NoJob, Goto
<1>5. ASSUME NEW d \in Deployer,
             CheckSettings(d) \/ UpPostgres(d) \/ StartMigration(d) \/ Migrated(d)
      PROVE  LockInv'
  BY <1>5 DEF CheckSettings, UpPostgres, StartMigration, Migrated, Goto
<1>6. ASSUME NEW d \in Deployer,
             SettingsFail(d) \/ Deployed(d) \/ StopMigrationFails(d)
             \/ RolledBack(d)
      PROVE  LockInv'
  BY <1>6, EndedLock DEF SettingsFail, Deployed, StopMigrationFails, RolledBack,
     Goto
<1>7. ASSUME NEW d \in Deployer,
             UpPostgresFails(d) \/ MigrationNotStarted(d) \/ MigrationFails(d)
             \/ UpBackendFails(d)
      PROVE  LockInv'
  BY <1>7, AbortedInv DEF UpPostgresFails, MigrationNotStarted, MigrationFails,
     UpBackendFails
<1>8. ASSUME NEW d \in Deployer,
             UpBackend(d) \/ CheckCandidate(d) \/ Save(d) \/ SaveFails(d)
      PROVE  LockInv'
  BY <1>8 DEF UpBackend, CheckCandidate, Save, SaveFails, Goto
<1>9. ASSUME NEW d \in Deployer, CheckFails(d) PROVE LockInv'
  BY <1>9, AbortedInv DEF CheckFails
<1>10. ASSUME NEW d \in Deployer, StopMigration(d) PROVE LockInv'
  BY <1>10 DEF StopMigration, Goto
<1>11. ASSUME NEW d \in Deployer,
             RestoreFails(d) \/ StopCandidate(d) \/ StopCandidateFails(d)
      PROVE  LockInv'
  BY <1>11, EndedLock DEF RestoreFails, StopCandidate, StopCandidateFails, Goto
<1>12. ASSUME NEW a \in Caller,
             Schedule(a) \/ BeginCapture(a) \/ StopBackend(a) \/ Dump(a)
      PROVE  LockInv'
  BY <1>12 DEF Schedule, BeginCapture, StopBackend, Dump, Goto
<1>13. ASSUME NEW a \in Caller,
             StopUnconfirmed(a) \/ CaptureUnknown(a) \/ RestartFails(a)
      PROVE  LockInv'
  BY <1>13, EndedLock DEF StopUnconfirmed, CaptureUnknown, RestartFails, Goto
<1>14. ASSUME NEW a \in Caller, CaptureFax(a) PROVE LockInv'
  BY <1>14 DEF CaptureFax, Goto
<1>15. ASSUME NEW a \in Caller, CaptureFails(a) PROVE LockInv'
  BY <1>15 DEF CaptureFails, Goto
<1>16. ASSUME NEW a \in Caller, Restart(a) PROVE LockInv'
  <2>1. CASE job[a].ok
    BY <1>16, <2>1 DEF Restart, Goto
  <2> QED
    BY <1>16, <2>1, EndedLock DEF Restart
<1>17. ASSUME NEW a \in Caller, Transition(a) PROVE LockInv'
  BY <1>17 DEF Transition, Goto
<1>18. ASSUME NEW a \in Caller, Verify(a) PROVE LockInv'
  <2>1. CASE a = Timer /\ Finish(a, FALSE)
    BY <1>18, <2>1, EndedLock DEF Verify
  <2> QED
    BY <1>18, <2>1 DEF Verify, Goto
<1>19. ASSUME NEW a \in Actor,
             Fails(a) \/ Kill(a)
      PROVE  LockInv'
  BY <1>19, EndedLock DEF Fails, Kill, Goto
<1>20. CASE StartBackup \/ StartPurge \/ CreateRetention \/ AwaitRetention
  BY <1>20 DEF StartBackup, StartPurge, CreateRetention, AwaitRetention, Goto
<1>21. CASE CreateFails \/ RemoveRetention \/ RetentionUnknown
  BY <1>21, EndedLock DEF CreateFails, RemoveRetention, RetentionUnknown, Goto
<1>22. CASE BackendWrites \/ RetentionWrites \/ RetentionEnds \/ MigrationApplies
  BY <1>22 DEF BackendWrites, RetentionWrites, RetentionEnds, MigrationApplies, Goto
<1>23. CASE MigrationEnds
  BY <1>23 DEF MigrationEnds, Goto
<1>24. CASE UNCHANGED vars
  BY <1>24 DEF vars
<1> QED
  BY <1>1, <1>2, <1>3, <1>4, <1>5, <1>6, <1>7, <1>8, <1>9, <1>10, <1>11, <1>12,
     <1>13, <1>14, <1>15, <1>16, <1>17, <1>18, <1>19, <1>20, <1>21, <1>22, <1>23,
     <1>24
     DEF Next, DeployStep, BackupStep, PurgeStep, ContainerStep

LEMMA LocalStep ==
  ASSUME IInv, [Next]_vars
  PROVE  LocalInv'
<1> USE Values DEF IInv, GuestInv, LockInv, LocalInv, guest, docker, owner, records
<1>1. ASSUME NEW d \in Deployer, ReadProfile(d) PROVE LocalInv'
  <2>1. PICK c \in Release, r \in {None, recovery} :
          job' = [job EXCEPT ![d] = [NoJob EXCEPT !.candidate = c, !.recovery = r,
                                                   !.previous = profile]]
    BY <1>1 DEF ReadProfile
  <2>2. [NoJob EXCEPT !.candidate = c, !.recovery = r, !.previous = profile] \in Local
    BY <2>1 DEF Local
  <2>3. job'[d] \in Local /\ job'[d].candidate = c
    BY <2>1, <2>2 DEF Local
  <2>4. Well(d, "observe", job'[d])
    BY <2>3 DEF Well, Capturing, Purging
  <2> QED
    BY <1>1, <2>1, <2>2, <2>4, Phases, Moves DEF ReadProfile, Goto
<1>2. ASSUME NEW d \in Deployer, Observe(d) PROVE LocalInv'
  <2>1. pc' \in [Actor -> Phase]
        /\ \A b \in Actor \ {d} : pc'[b] = pc[b] /\ job'[b] = job[b]
    BY <1>2, Phases DEF Observe, Goto
  <2>2. [job[d] EXCEPT !.before = Observation] \in Local
    BY <1>2, Fields, ObservationType DEF Observe, Goto, Local
  <2>3. job' \in [Actor -> Local] /\ job'[d] = [job[d] EXCEPT !.before = Observation]
    BY <1>2, <2>2 DEF Observe, Goto
  <2>4. Well(d, pc'[d], job'[d])
    BY <1>2, <2>3, Phases, Fields, ObservationType DEF Observe, Goto, Local, Well,
       Base, Span, Capturing, Purging
  <2> QED
    BY <1>2, <2>1, <2>3, <2>4, Moves DEF Observe
<1>3. ASSUME NEW d \in Deployer,
             CheckPrevious(d) \/ CheckSettings(d) \/ UpPostgres(d)
             \/ StartMigration(d)
      PROVE  LocalInv'
  <2>1. pc' \in [Actor -> Phase]
        /\ \A b \in Actor \ {d} : pc'[b] = pc[b] /\ job'[b] = job[b]
    BY <1>3, Phases DEF CheckPrevious, CheckSettings, UpPostgres, StartMigration,
       Goto
  <2>2. Well(d, pc'[d], job[d])
    BY <1>3, Phases, Fields DEF CheckPrevious, CheckSettings, UpPostgres,
       StartMigration, Goto, Well, Capturing, Purging
  <2> QED
    BY <1>3, <2>1, <2>2, Moves DEF CheckPrevious, CheckSettings, UpPostgres,
       StartMigration
<1>4. ASSUME NEW d \in Deployer, TakeLock(d) PROVE LocalInv'
  <2>1. pc' \in [Actor -> Phase]
        /\ \A b \in Actor \ {d} : pc'[b] = pc[b] /\ job'[b] = job[b]
    BY <1>4, Phases DEF TakeLock, Goto
  <2>2. [NoJob EXCEPT !.candidate = job[d].candidate, !.previous = job[d].previous] \in Local
    BY <1>4, Fields DEF TakeLock, Goto, Local
  <2>3. job' \in [Actor -> Local] /\ job'[d] = [NoJob EXCEPT !.candidate = job[d].candidate, !.previous = job[d].previous]
    BY <1>4, <2>2 DEF TakeLock, Goto
  <2>4. Well(d, pc'[d], job'[d])
    BY <1>4, <2>3, Phases, Fields, ObservationType DEF TakeLock, Goto, Local, Well,
       Base, Span, Capturing, Purging
  <2> QED
    BY <1>4, <2>1, <2>3, <2>4, Moves DEF TakeLock
<1>5. ASSUME NEW d \in Deployer,
             SettingsFail(d) \/ Deployed(d) \/ StopMigrationFails(d)
             \/ RolledBack(d)
      PROVE  LocalInv'
  BY <1>5, EndedLocal DEF SettingsFail, Deployed, StopMigrationFails, RolledBack,
     Goto
<1>6. ASSUME NEW d \in Deployer,
             UpPostgresFails(d) \/ MigrationNotStarted(d) \/ MigrationFails(d)
             \/ UpBackendFails(d)
      PROVE  LocalInv'
  BY <1>6, AbortedInv, Values DEF UpPostgresFails, MigrationNotStarted,
     MigrationFails, UpBackendFails, LockInv, Holding
<1>7. ASSUME NEW d \in Deployer,
             Migrated(d) \/ UpBackend(d) \/ CheckCandidate(d) \/ Save(d)
      PROVE  LocalInv'
  <2>1. pc' \in [Actor -> Phase]
        /\ \A b \in Actor \ {d} : pc'[b] = pc[b] /\ job'[b] = job[b]
    BY <1>7, Phases DEF Migrated, UpBackend, CheckCandidate, Save, Goto
  <2>2. Well(d, pc'[d], job[d])
    BY <1>7, Phases, Fields DEF Migrated, UpBackend, CheckCandidate, Save, Goto,
       Well, Capturing, Purging
  <2> QED
    BY <1>7, <2>1, <2>2, Moves DEF Migrated, UpBackend, CheckCandidate, Save
<1>8. ASSUME NEW d \in Deployer, CheckFails(d) PROVE LocalInv'
  BY <1>8, AbortedInv, Values DEF CheckFails, LockInv, Holding
<1>9. ASSUME NEW d \in Deployer,
             SaveFails(d) \/ StopMigration(d)
      PROVE  LocalInv'
  <2>1. pc' \in [Actor -> Phase]
        /\ \A b \in Actor \ {d} : pc'[b] = pc[b] /\ job'[b] = job[b]
    BY <1>9, Phases DEF SaveFails, StopMigration, Goto
  <2>2. Well(d, pc'[d], job[d])
    BY <1>9, Phases, Fields DEF SaveFails, StopMigration, Goto, Well, Capturing,
       Purging
  <2> QED
    BY <1>9, <2>1, <2>2, Moves DEF SaveFails, StopMigration
<1>10. ASSUME NEW d \in Deployer,
             RestoreFails(d) \/ StopCandidateFails(d)
      PROVE  LocalInv'
  BY <1>10, EndedLocal DEF RestoreFails, StopCandidateFails, Goto
<1>11. ASSUME NEW d \in Deployer, StopCandidate(d) PROVE LocalInv'
  <2>1. recovery' \in Report
    BY <1>11, ObservationType DEF StopCandidate, Well, Report
  <2> QED
    BY <1>11, <2>1, EndedLocal DEF StopCandidate
<1>12. ASSUME NEW a \in Caller, Schedule(a) PROVE LocalInv'
  <2>1. pc' \in [Actor -> Phase]
        /\ \A b \in Actor \ {a} : pc'[b] = pc[b] /\ job'[b] = job[b]
    BY <1>12, Phases DEF Schedule, Goto
  <2>2. [job[a] EXCEPT !.installed = profile] \in Local
    BY <1>12, Fields DEF Schedule, Goto, Local
  <2>3. job' \in [Actor -> Local] /\ job'[a] = [job[a] EXCEPT !.installed = profile]
    BY <1>12, <2>2 DEF Schedule, Goto
  <2>4. Well(a, pc'[a], job'[a])
    BY <1>12, <2>3, Phases, Fields, ObservationType DEF Schedule, Goto, Local, Well,
       Base, Span, Capturing, Purging
  <2> QED
    BY <1>12, <2>1, <2>3, <2>4, Moves DEF Schedule
<1>13. ASSUME NEW a \in Caller, BeginCapture(a) PROVE LocalInv'
  <2>1. pc' \in [Actor -> Phase]
        /\ \A b \in Actor \ {a} : pc'[b] = pc[b] /\ job'[b] = job[b]
    BY <1>13, Phases DEF BeginCapture, Goto
  <2>5. [profile |-> profile, seen |-> Observation] \in Base
    BY ObservationType DEF Base
  <2>2. [job[a] EXCEPT !.base = [profile |-> profile, seen |-> Observation]] \in Local
    BY <2>5, Fields DEF Local
  <2>3. job' \in [Actor -> Local] /\ job'[a] = [job[a] EXCEPT !.base = [profile |-> profile, seen |-> Observation]]
    BY <1>13, <2>2 DEF BeginCapture, Goto
  <2>4. Well(a, pc'[a], job'[a])
    BY <1>13, <2>3, Phases, Fields, ObservationType DEF BeginCapture, Goto, Local,
       Well, Base, Span, Capturing, Purging
  <2> QED
    BY <1>13, <2>1, <2>3, <2>4, Moves DEF BeginCapture
<1>14. ASSUME NEW a \in Caller, StopBackend(a) PROVE LocalInv'
  <2>1. pc' \in [Actor -> Phase]
        /\ \A b \in Actor \ {a} : pc'[b] = pc[b] /\ job'[b] = job[b]
    BY <1>14, Phases DEF StopBackend, Goto
  <2>2. Well(a, pc'[a], job[a])
    BY <1>14, Phases, Fields DEF StopBackend, Goto, Well, Capturing, Purging
  <2> QED
    BY <1>14, <2>1, <2>2, Moves DEF StopBackend
<1>15. ASSUME NEW a \in Caller,
             StopUnconfirmed(a) \/ CaptureUnknown(a) \/ RestartFails(a)
      PROVE  LocalInv'
  BY <1>15, EndedLocal DEF StopUnconfirmed, CaptureUnknown, RestartFails, Goto
<1>16. ASSUME NEW a \in Caller, Dump(a) PROVE LocalInv'
  <2>1. pc' \in [Actor -> Phase]
        /\ \A b \in Actor \ {a} : pc'[b] = pc[b] /\ job'[b] = job[b]
    BY <1>16, Phases DEF Dump, Goto
  <2>5. [schema |-> schema, db |-> data, fax |-> data,
          quiet |-> "migration" \notin running] \in Pair
    BY DEF Pair, GuestInv
  <2>2. [job[a] EXCEPT !.pair = [schema |-> schema, db |-> data, fax |-> data,
          quiet |-> "migration" \notin running]] \in Local
    BY <2>5, Fields DEF Local
  <2>3. job' \in [Actor -> Local] /\ job'[a] = [job[a] EXCEPT !.pair = [schema |-> schema, db |-> data, fax |-> data,
          quiet |-> "migration" \notin running]]
    BY <1>16, <2>2 DEF Dump, Goto
  <2>4. Well(a, pc'[a], job'[a])
    BY <1>16, <2>3, Phases, Fields, ObservationType DEF Dump, Goto, Local, Well,
       Base, Span, Capturing, Purging
  <2> QED
    BY <1>16, <2>1, <2>3, <2>4, Moves DEF Dump
<1>17. ASSUME NEW a \in Caller, CaptureFax(a) PROVE LocalInv'
  <2>1. job[a].pair \in Pair
    BY <1>17 DEF CaptureFax, PairInv, PairOf, Caller, Actor
  <2>2. [job[a] EXCEPT !.pair.fax = data] \in Local
    BY <2>1, Fields DEF Local, Pair
  <2>5. pc' \in [Actor -> Phase]
        /\ \A b \in Actor \ {a} : pc'[b] = pc[b] /\ job'[b] = job[b]
    BY <1>17, Phases DEF CaptureFax, Goto
  <2>3. job' \in [Actor -> Local] /\ job'[a] = [job[a] EXCEPT !.pair.fax = data]
    BY <1>17, <2>2 DEF CaptureFax, Goto
  <2>4. Well(a, pc'[a], job'[a])
    BY <1>17, <2>3, Phases, Fields, ObservationType DEF CaptureFax, Goto, Local,
       Well, Base, Span, Capturing, Purging
  <2> QED
    BY <1>17, <2>5, <2>3, <2>4, Moves DEF CaptureFax
<1>18. ASSUME NEW a \in Caller, CaptureFails(a) PROVE LocalInv'
  <2>1. pc' \in [Actor -> Phase]
        /\ \A b \in Actor \ {a} : pc'[b] = pc[b] /\ job'[b] = job[b]
    BY <1>18, Phases DEF CaptureFails, Goto
  <2>2. [job[a] EXCEPT !.ok = FALSE] \in Local
    BY Values, Failing
  <2>3. job' \in [Actor -> Local] /\ job'[a] = [job[a] EXCEPT !.ok = FALSE]
    BY <1>18, <2>2 DEF CaptureFails, Goto
  <2>4. Well(a, pc'[a], job'[a])
    BY <1>18, <2>3, Phases, Fields, ObservationType DEF CaptureFails, Goto, Local,
       Well, Base, Span, Capturing, Purging
  <2> QED
    BY <1>18, <2>1, <2>3, <2>4, Moves DEF CaptureFails
<1>19. ASSUME NEW a \in Caller, Restart(a) PROVE LocalInv'
  <2>1. CASE job[a].ok
    <3>1. Well(a, "transition", job[a])
      BY <1>19 DEF Restart, Well, Capturing, Purging
    <3> QED
      BY <1>19, <2>1, <3>1, Phases, Moves DEF Restart, Goto
  <2> QED
    BY <1>19, <2>1, EndedLocal DEF Restart
<1>20. ASSUME NEW a \in Caller, Transition(a) PROVE LocalInv'
  <2>1. PICK span : span = [profile |-> profile, before |-> job[a].base.seen, after |-> Observation]
    OBVIOUS
  <2>2. span \in Span
    BY <1>20, <2>1, ObservationType DEF Transition, Well, Capturing, Base, Span
  <2>3. [job[a] EXCEPT !.base = span, !.pair = None] \in Local
    BY <2>2 DEF Local
  <2>4. job' = [job EXCEPT ![a] = [job[a] EXCEPT !.base = span, !.pair = None]]
    BY <1>20, <2>1 DEF Transition
  <2>5. job'[a].base = span /\ job'[a].candidate = job[a].candidate
    BY <2>3, <2>4 DEF Local
  <2>6. Well(a, "verify", job'[a])
    BY <1>20, <2>2, <2>5 DEF Transition, Well, Capturing, Purging
  <2>7. job' \in [Actor -> Local] /\ \A b \in Actor \ {a} : job'[b] = job[b]
    BY <2>3, <2>4
  <2>8. pc' = [pc EXCEPT ![a] = "verify"] /\ recovery' = recovery
    BY <1>20 DEF Transition, Goto
  <2> QED
    BY <2>6, <2>7, <2>8, Phases, Moves
<1>21. ASSUME NEW a \in Caller, Verify(a) PROVE LocalInv'
  <2>1. CASE a = Timer /\ Finish(a, FALSE)
    BY <1>21, <2>1, EndedLocal DEF Verify
  <2>2. CASE a # Timer
    <3>1. a \in Deployer /\ job[a].base \in Span
      BY <1>21, <2>2 DEF Verify, Well, Caller
    <3>2. PICK j : j = [job[a] EXCEPT !.before = job[a].base.after, !.base = None, !.installed = None]
      OBVIOUS
    <3>3. j \in Local /\ j.before \in Seen /\ j.candidate = job[a].candidate
      <4>1. job[a].base.after \in Seen /\ job[a] \in Local
        BY <3>1 DEF Span
      <4>2. j \in Local
        BY <3>2, <4>1 DEF Local
      <4> QED
        BY <3>2, <4>1, <4>2 DEF Local
    <3>4. job' = [job EXCEPT ![a] = j] /\ pc' = [pc EXCEPT ![a] = "lock"]
      BY <1>21, <2>2, <3>2 DEF Verify, Goto
    <3>5. Well(a, "lock", j)
      BY <1>21, <3>1, <3>3 DEF Verify, Well, Capturing, Purging
    <3> QED
      BY <1>21, <3>3, <3>4, <3>5, Phases, Moves DEF Verify
  <2> QED
    BY <1>21, <2>1, <2>2 DEF Verify
<1>22. ASSUME NEW a \in Actor,
             Fails(a) \/ Kill(a)
      PROVE  LocalInv'
  BY <1>22, EndedLocal DEF Fails, Kill, Goto
<1>23. CASE StartBackup
  <2>1. pc' \in [Actor -> Phase]
        /\ \A b \in Actor \ {Timer} : pc'[b] = pc[b] /\ job'[b] = job[b]
    BY <1>23, Phases DEF StartBackup, Goto
  <2>2. Well(Timer, pc'[Timer], job[Timer])
    BY <1>23, Phases, Fields DEF StartBackup, Goto, Well, Capturing, Purging
  <2> QED
    BY <1>23, <2>1, <2>2, Moves DEF StartBackup
<1>24. CASE StartPurge
  <2>1. pc' \in [Actor -> Phase]
        /\ \A b \in Actor \ {Purger} : pc'[b] = pc[b] /\ job'[b] = job[b]
    BY <1>24, Phases DEF StartPurge, Goto
  <2>2. [job[Purger] EXCEPT !.installed = profile] \in Local
    BY <1>24, Fields DEF StartPurge, Goto, Local
  <2>3. job' \in [Actor -> Local] /\ job'[Purger] = [job[Purger] EXCEPT !.installed = profile]
    BY <1>24, <2>2 DEF StartPurge, Goto
  <2>4. Well(Purger, pc'[Purger], job'[Purger])
    BY <1>24, <2>3, Phases, Fields, ObservationType DEF StartPurge, Goto, Local,
       Well, Base, Span, Capturing, Purging
  <2> QED
    BY <1>24, <2>1, <2>3, <2>4, Moves DEF StartPurge
<1>25. CASE CreateRetention
  <2>1. pc' \in [Actor -> Phase]
        /\ \A b \in Actor \ {Purger} : pc'[b] = pc[b] /\ job'[b] = job[b]
    BY <1>25, Phases DEF CreateRetention, Goto
  <2>2. Well(Purger, pc'[Purger], job[Purger])
    BY <1>25, Phases, Fields DEF CreateRetention, Goto, Well, Capturing, Purging
  <2> QED
    BY <1>25, <2>1, <2>2, Moves DEF CreateRetention
<1>26. CASE CreateFails \/ RemoveRetention \/ RetentionUnknown
  BY <1>26, EndedLocal DEF CreateFails, RemoveRetention, RetentionUnknown, Goto
<1>27. CASE AwaitRetention
  <2>1. pc' = [pc EXCEPT ![Purger] = "cleanup"]
    BY <1>27 DEF AwaitRetention, Goto
  <2>2. PICK j \in {job[Purger], [job[Purger] EXCEPT !.ok = FALSE]} : job' = [job EXCEPT ![Purger] = j]
    BY <1>27 DEF AwaitRetention
  <2>3. j \in Local
    <3>1. job[Purger] \in Local
      BY Values
    <3> QED
      BY <2>2, <3>1, Failing, Zenon
  <2>4. Well(Purger, "cleanup", j)
    BY DEF Well, Capturing, Purging
  <2> QED
    BY <1>27, <2>1, <2>2, <2>3, <2>4, Phases, Moves DEF AwaitRetention
<1>28. CASE BackendWrites \/ RetentionWrites \/ RetentionEnds \/ MigrationApplies
  BY <1>28 DEF BackendWrites, RetentionWrites, RetentionEnds, MigrationApplies, Goto
<1>29. CASE MigrationEnds
  BY <1>29 DEF MigrationEnds, Goto
<1>30. CASE UNCHANGED vars
  BY <1>30 DEF vars
<1> QED
  BY <1>1, <1>2, <1>3, <1>4, <1>5, <1>6, <1>7, <1>8, <1>9, <1>10, <1>11, <1>12,
     <1>13, <1>14, <1>15, <1>16, <1>17, <1>18, <1>19, <1>20, <1>21, <1>22, <1>23,
     <1>24, <1>25, <1>26, <1>27, <1>28, <1>29, <1>30
     DEF Next, DeployStep, BackupStep, PurgeStep, ContainerStep

LEMMA RetentionStep ==
  ASSUME IInv, [Next]_vars
  PROVE  RetentionAlone'
<1> USE Values DEF IInv, RetentionAlone, LocalInv, LockInv, GuestInv, guest, docker,
            owner, records
<1>1. ASSUME NEW d \in Deployer,
             ReadProfile(d) \/ TakeLock(d)
      PROVE  RetentionAlone'
  BY <1>1 DEF ReadProfile, TakeLock, NoJob, Goto
<1>2. ASSUME NEW d \in Deployer, Observe(d) PROVE RetentionAlone'
  BY <1>2 DEF Observe, MayProceed, Goto
<1>3. ASSUME NEW d \in Deployer, CheckPrevious(d) PROVE RetentionAlone'
  BY <1>3 DEF CheckPrevious, Healthy, Goto
<1>4. ASSUME NEW d \in Deployer,
             CheckSettings(d) \/ UpPostgres(d) \/ StartMigration(d) \/ Migrated(d)
      PROVE  RetentionAlone'
  BY <1>4 DEF CheckSettings, UpPostgres, StartMigration, Migrated, Goto
<1>5. ASSUME NEW d \in Deployer, SettingsFail(d) PROVE RetentionAlone'
  <2>1. "retention" \in oneoffs' => "retention" \in oneoffs
    BY <1>5 DEF SettingsFail
  <2>2. lock' \in {lock, None}
    BY <1>5, Ended DEF SettingsFail
  <2> QED
    BY <2>1, <2>2
<1>6. ASSUME NEW d \in Deployer,
             UpPostgresFails(d) \/ MigrationFails(d) \/ UpBackendFails(d)
             \/ CheckFails(d)
      PROVE  RetentionAlone'
  BY <1>6, Ended DEF UpPostgresFails, MigrationFails, UpBackendFails, CheckFails,
     Abort, Goto
<1>7. ASSUME NEW d \in Deployer, MigrationNotStarted(d) PROVE RetentionAlone'
  <2>1. "retention" \in oneoffs' => "retention" \in oneoffs
    BY <1>7 DEF MigrationNotStarted
  <2>2. lock' \in {lock, None}
    BY <1>7, Aborted DEF MigrationNotStarted
  <2> QED
    BY <2>1, <2>2
<1>8. ASSUME NEW d \in Deployer,
             UpBackend(d) \/ CheckCandidate(d) \/ Save(d) \/ SaveFails(d)
      PROVE  RetentionAlone'
  BY <1>8 DEF UpBackend, CheckCandidate, Save, SaveFails, Goto
<1>9. ASSUME NEW d \in Deployer,
             Deployed(d) \/ StopMigrationFails(d) \/ RolledBack(d)
             \/ RestoreFails(d)
      PROVE  RetentionAlone'
  BY <1>9, Ended DEF Deployed, StopMigrationFails, RolledBack, RestoreFails, Goto
<1>10. ASSUME NEW d \in Deployer, StopMigration(d) PROVE RetentionAlone'
  BY <1>10 DEF StopMigration, Goto
<1>11. ASSUME NEW d \in Deployer,
             StopCandidate(d) \/ StopCandidateFails(d)
      PROVE  RetentionAlone'
  BY <1>11, Ended DEF StopCandidate, StopCandidateFails, Goto
<1>12. ASSUME NEW a \in Caller,
             Schedule(a) \/ BeginCapture(a) \/ StopBackend(a) \/ Dump(a)
      PROVE  RetentionAlone'
  BY <1>12 DEF Schedule, BeginCapture, StopBackend, Dump, Goto
<1>13. ASSUME NEW a \in Caller, StopUnconfirmed(a) PROVE RetentionAlone'
  BY <1>13, Ended DEF StopUnconfirmed, Goto
<1>14. ASSUME NEW a \in Caller,
             CaptureFax(a) \/ CaptureFails(a) \/ Transition(a)
      PROVE  RetentionAlone'
  BY <1>14 DEF CaptureFax, CaptureFails, Transition, Goto
<1>15. ASSUME NEW a \in Caller, CaptureUnknown(a) PROVE RetentionAlone'
  <2>1. "retention" \in oneoffs' => "retention" \in oneoffs
    BY <1>15 DEF CaptureUnknown
  <2>2. lock' \in {lock, None}
    BY <1>15, Ended DEF CaptureUnknown
  <2> QED
    BY <2>1, <2>2
<1>16. ASSUME NEW a \in Caller, Restart(a) PROVE RetentionAlone'
  BY <1>16, Ended DEF Restart, Goto
<1>17. ASSUME NEW a \in Caller, RestartFails(a) PROVE RetentionAlone'
  BY <1>17, Ended DEF RestartFails, Goto
<1>18. ASSUME NEW a \in Caller, Verify(a) PROVE RetentionAlone'
  BY <1>18, Ended DEF Verify, Goto
<1>19. ASSUME NEW a \in Actor,
             Fails(a) \/ Kill(a)
      PROVE  RetentionAlone'
  BY <1>19, Ended DEF Fails, Kill, Goto
<1>20. CASE StartBackup \/ StartPurge \/ AwaitRetention \/ BackendWrites
  BY <1>20 DEF StartBackup, StartPurge, AwaitRetention, BackendWrites, Goto
<1>21. CASE CreateRetention
  BY <1>21 DEF CreateRetention, Holding, Goto
<1>22. CASE CreateFails
  BY <1>22, Ended DEF CreateFails, Holding, Goto
<1>23. CASE RemoveRetention
  BY <1>23, Ended DEF RemoveRetention, Goto
<1>24. CASE RetentionUnknown
  BY <1>24, Ended DEF RetentionUnknown, Goto
<1>25. CASE RetentionWrites \/ RetentionEnds \/ MigrationApplies \/ MigrationEnds
  BY <1>25 DEF RetentionWrites, RetentionEnds, MigrationApplies, MigrationEnds, Goto
<1>26. CASE UNCHANGED vars
  BY <1>26 DEF vars
<1> QED
  BY <1>1, <1>2, <1>3, <1>4, <1>5, <1>6, <1>7, <1>8, <1>9, <1>10, <1>11, <1>12,
     <1>13, <1>14, <1>15, <1>16, <1>17, <1>18, <1>19, <1>20, <1>21, <1>22, <1>23,
     <1>24, <1>25, <1>26
     DEF Next, DeployStep, BackupStep, PurgeStep, ContainerStep

LEMMA ProfileStep ==
  ASSUME IInv, [Next]_vars
  PROVE  ProfileInv'
<1> USE Values DEF IInv, LockInv, LocalInv, ProfileInv, ProfileOf, Capturing, guest,
            docker, owner, records
<1>1. ASSUME NEW d \in Deployer, ReadProfile(d) PROVE ProfileInv'
  BY <1>1 DEF ReadProfile, NoJob, Goto
<1>2. ASSUME NEW d \in Deployer, Observe(d) PROVE ProfileInv'
  BY <1>2 DEF Observe, MayProceed, Goto
<1>3. ASSUME NEW d \in Deployer, CheckPrevious(d) PROVE ProfileInv'
  BY <1>3 DEF CheckPrevious, Healthy, Goto
<1>4. ASSUME NEW d \in Deployer, TakeLock(d) PROVE ProfileInv'
  BY <1>4 DEF TakeLock, NoJob, Goto
<1>5. ASSUME NEW d \in Deployer,
             CheckSettings(d) \/ UpPostgres(d) \/ StartMigration(d) \/ Migrated(d)
      PROVE  ProfileInv'
  BY <1>5 DEF CheckSettings, UpPostgres, StartMigration, Migrated, Goto
<1>6. ASSUME NEW d \in Deployer,
             SettingsFail(d) \/ Deployed(d) \/ StopMigrationFails(d)
             \/ RolledBack(d)
      PROVE  ProfileInv'
  BY <1>6, ProfileEnds, Values DEF SettingsFail, Deployed, StopMigrationFails,
     RolledBack, LockInv, Holding, Upped
<1>7. ASSUME NEW d \in Deployer,
             UpPostgresFails(d) \/ MigrationNotStarted(d) \/ MigrationFails(d)
             \/ UpBackendFails(d)
      PROVE  ProfileInv'
  <2>1. lock = d
    BY <1>7, Values DEF UpPostgresFails, MigrationNotStarted, MigrationFails,
       UpBackendFails, LockInv, Holding
  <2>2. CASE Finish(d, TRUE)
    BY <1>7, <2>1, <2>2, ProfileEnds, Values DEF UpPostgresFails,
       MigrationNotStarted, MigrationFails, UpBackendFails
  <2>3. CASE Goto(d, "rollback") /\ UNCHANGED <<owner, job>>
    <3>1. \A b \in Actor : pc[b] \in Capturing => b = d
      BY <1>7, Exclusive, Values DEF UpPostgresFails, MigrationNotStarted,
         MigrationFails, UpBackendFails, Holding
    <3> QED
      BY <1>7, <2>3, <3>1 DEF UpPostgresFails, MigrationNotStarted, MigrationFails,
         UpBackendFails, Goto, ProfileInv, ProfileOf, Capturing
  <2> QED
    BY <1>7, <2>2, <2>3 DEF UpPostgresFails, MigrationNotStarted, MigrationFails,
       UpBackendFails, Abort
<1>8. ASSUME NEW d \in Deployer, UpBackend(d) PROVE ProfileInv'
  <2>1. \A b \in Actor \ {d} : pc[b] \notin Capturing
    BY <1>8, Exclusive, Values DEF UpBackend, Holding
  <2> QED
    BY <1>8, <2>1 DEF UpBackend, Goto, ProfileInv, ProfileOf, Capturing
<1>9. ASSUME NEW d \in Deployer,
             CheckCandidate(d) \/ SaveFails(d) \/ StopMigration(d)
      PROVE  ProfileInv'
  BY <1>9 DEF CheckCandidate, SaveFails, StopMigration, Goto
<1>10. ASSUME NEW d \in Deployer, CheckFails(d) PROVE ProfileInv'
  <2>1. lock = d
    BY <1>10, Values DEF CheckFails, LockInv, Holding
  <2>2. CASE Finish(d, TRUE)
    BY <1>10, <2>1, <2>2, ProfileEnds, Values DEF CheckFails
  <2>3. CASE Goto(d, "rollback") /\ UNCHANGED <<owner, job>>
    <3>1. \A b \in Actor : pc[b] \in Capturing => b = d
      BY <1>10, Exclusive, Values DEF CheckFails, Holding
    <3> QED
      BY <1>10, <2>3, <3>1 DEF CheckFails, Goto, ProfileInv, ProfileOf, Capturing
  <2> QED
    BY <1>10, <2>2, <2>3 DEF CheckFails, Abort
<1>11. ASSUME NEW d \in Deployer, Save(d) PROVE ProfileInv'
  <2>1. \A b \in Actor \ {d} : pc[b] \notin Capturing \cup Deploying \cup Purging
    BY <1>11, Exclusive, Values DEF Save, Holding
  <2>2. job[d].candidate # None
    BY <1>11, Values DEF Save, LocalInv, Well
  <2> QED
    BY <1>11, <2>1, <2>2 DEF Save, Goto, ProfileInv, ProfileOf, Capturing, Deploying
<1>12. ASSUME NEW d \in Deployer,
             RestoreFails(d) \/ StopCandidate(d) \/ StopCandidateFails(d)
      PROVE  ProfileInv'
  BY <1>12, ProfileEnds, Values DEF RestoreFails, StopCandidate, StopCandidateFails,
     LockInv, Holding, Upped
<1>13. ASSUME NEW a \in Caller, Schedule(a) PROVE ProfileInv'
  BY <1>13 DEF Schedule, Goto
<1>14. ASSUME NEW a \in Caller, BeginCapture(a) PROVE ProfileInv'
  BY <1>14 DEF BeginCapture, Goto, Healthy, ProfileInv, ProfileOf, Capturing
<1>15. ASSUME NEW a \in Caller, StopBackend(a) PROVE ProfileInv'
  BY <1>15 DEF StopBackend, Goto
<1>16. ASSUME NEW a \in Caller,
             StopUnconfirmed(a) \/ CaptureUnknown(a) \/ RestartFails(a)
      PROVE  ProfileInv'
  BY <1>16, ProfileEnds, Values DEF StopUnconfirmed, CaptureUnknown, RestartFails,
     LockInv, Holding, Upped
<1>17. ASSUME NEW a \in Caller, Dump(a) PROVE ProfileInv'
  BY <1>17 DEF Dump, Goto
<1>18. ASSUME NEW a \in Caller, CaptureFax(a) PROVE ProfileInv'
  BY <1>18 DEF CaptureFax, Goto
<1>19. ASSUME NEW a \in Caller,
             CaptureFails(a) \/ Transition(a)
      PROVE  ProfileInv'
  BY <1>19 DEF CaptureFails, Transition, Goto
<1>20. ASSUME NEW a \in Caller, Restart(a) PROVE ProfileInv'
  <2>1. CASE job[a].ok
    BY <1>20, <2>1 DEF Restart, Goto, ProfileInv, ProfileOf, Capturing, Upped
  <2> QED
    BY <1>20, <2>1, ProfileEnds DEF Restart, Upped
<1>21. ASSUME NEW a \in Caller, Verify(a) PROVE ProfileInv'
  <2>1. CASE a = Timer /\ Finish(a, FALSE)
    BY <1>21, <2>1, ProfileEnds DEF Verify
  <2>2. CASE a # Timer
    BY <1>21, <2>2 DEF Verify, Goto, ProfileInv, ProfileOf, Capturing, Local
  <2> QED
    BY <1>21, <2>1, <2>2 DEF Verify
<1>22. ASSUME NEW a \in Actor,
             Fails(a) \/ Kill(a)
      PROVE  ProfileInv'
  BY <1>22, ProfileEnds, Values DEF Fails, Kill, LockInv, Holding, Upped
<1>23. CASE StartBackup
  BY <1>23 DEF StartBackup, Goto
<1>24. CASE StartPurge
  BY <1>24 DEF StartPurge, Goto
<1>25. CASE CreateRetention
  BY <1>25 DEF CreateRetention, Goto
<1>26. CASE CreateFails \/ RemoveRetention \/ RetentionUnknown
  BY <1>26, ProfileEnds, Values DEF CreateFails, RemoveRetention, RetentionUnknown,
     LockInv, Holding, Upped
<1>27. CASE AwaitRetention
  <2>1. \A b \in Actor : job'[b].previous = job[b].previous
    BY <1>27 DEF AwaitRetention, Local
  <2> QED
    BY <1>27, <2>1 DEF AwaitRetention, Goto, ProfileInv, ProfileOf, Capturing
<1>28. CASE BackendWrites
  BY <1>28 DEF BackendWrites, Goto
<1>29. CASE RetentionWrites \/ RetentionEnds \/ MigrationApplies \/ MigrationEnds
  BY <1>29 DEF RetentionWrites, RetentionEnds, MigrationApplies, MigrationEnds, Goto
<1>30. CASE UNCHANGED vars
  BY <1>30 DEF vars
<1> QED
  BY <1>1, <1>2, <1>3, <1>4, <1>5, <1>6, <1>7, <1>8, <1>9, <1>10, <1>11, <1>12,
     <1>13, <1>14, <1>15, <1>16, <1>17, <1>18, <1>19, <1>20, <1>21, <1>22, <1>23,
     <1>24, <1>25, <1>26, <1>27, <1>28, <1>29, <1>30
     DEF Next, DeployStep, BackupStep, PurgeStep, ContainerStep

LEMMA PairStep ==
  ASSUME IInv, [Next]_vars
  PROVE  PairInv'
<1> USE Values DEF IInv, LockInv, LocalInv, PairInv, PairConsistent, PairOf,
            Captured, Local, guest, docker, owner, records
<1>1. ASSUME NEW d \in Deployer, ReadProfile(d) PROVE PairInv'
  BY <1>1 DEF ReadProfile, NoJob, Goto
<1>2. ASSUME NEW d \in Deployer, Observe(d) PROVE PairInv'
  BY <1>2 DEF Observe, MayProceed, Goto
<1>3. ASSUME NEW d \in Deployer, CheckPrevious(d) PROVE PairInv'
  BY <1>3 DEF CheckPrevious, Healthy, Goto
<1>4. ASSUME NEW d \in Deployer, TakeLock(d) PROVE PairInv'
  BY <1>4 DEF TakeLock, NoJob, Goto
<1>5. ASSUME NEW d \in Deployer,
             CheckSettings(d) \/ UpPostgres(d) \/ StartMigration(d) \/ Migrated(d)
      PROVE  PairInv'
  BY <1>5 DEF CheckSettings, UpPostgres, StartMigration, Migrated, Goto
<1>6. ASSUME NEW d \in Deployer,
             SettingsFail(d) \/ Deployed(d) \/ StopMigrationFails(d)
             \/ RolledBack(d)
      PROVE  PairInv'
  BY <1>6, PairEnds, Values DEF SettingsFail, Deployed, StopMigrationFails,
     RolledBack, LockInv, Holding
<1>7. ASSUME NEW d \in Deployer,
             UpPostgresFails(d) \/ MigrationNotStarted(d) \/ MigrationFails(d)
             \/ UpBackendFails(d)
      PROVE  PairInv'
  <2>1. lock = d
    BY <1>7, Values DEF UpPostgresFails, MigrationNotStarted, MigrationFails,
       UpBackendFails, LockInv, Holding
  <2>2. CASE Finish(d, TRUE)
    BY <1>7, <2>1, <2>2, PairEnds, Values DEF UpPostgresFails, MigrationNotStarted,
       MigrationFails, UpBackendFails
  <2>3. CASE Goto(d, "rollback") /\ UNCHANGED <<owner, job>>
    <3>1. \A b \in Actor : pc[b] \in Capturing => b = d
      BY <1>7, Exclusive, Values DEF UpPostgresFails, MigrationNotStarted,
         MigrationFails, UpBackendFails, Holding
    <3> QED
      BY <1>7, <2>3, <3>1 DEF UpPostgresFails, MigrationNotStarted, MigrationFails,
         UpBackendFails, Goto, Capturing
  <2> QED
    BY <1>7, <2>2, <2>3 DEF UpPostgresFails, MigrationNotStarted, MigrationFails,
       UpBackendFails, Abort
<1>8. ASSUME NEW d \in Deployer, UpBackend(d) PROVE PairInv'
  <2>1. \A b \in Actor \ {d} : pc[b] \notin Capturing \cup Deploying \cup Purging
    BY <1>8, Exclusive, Values DEF UpBackend, Holding
  <2> QED
    BY <1>8, <2>1 DEF UpBackend, Goto, Capturing, Deploying
<1>9. ASSUME NEW d \in Deployer,
             CheckCandidate(d) \/ Save(d) \/ SaveFails(d) \/ StopMigration(d)
      PROVE  PairInv'
  BY <1>9 DEF CheckCandidate, Save, SaveFails, StopMigration, Goto
<1>10. ASSUME NEW d \in Deployer, CheckFails(d) PROVE PairInv'
  <2>1. lock = d
    BY <1>10, Values DEF CheckFails, LockInv, Holding
  <2>2. CASE Finish(d, TRUE)
    BY <1>10, <2>1, <2>2, PairEnds, Values DEF CheckFails
  <2>3. CASE Goto(d, "rollback") /\ UNCHANGED <<owner, job>>
    <3>1. \A b \in Actor : pc[b] \in Capturing => b = d
      BY <1>10, Exclusive, Values DEF CheckFails, Holding
    <3> QED
      BY <1>10, <2>3, <3>1 DEF CheckFails, Goto, Capturing
  <2> QED
    BY <1>10, <2>2, <2>3 DEF CheckFails, Abort
<1>11. ASSUME NEW d \in Deployer,
             RestoreFails(d) \/ StopCandidate(d) \/ StopCandidateFails(d)
      PROVE  PairInv'
  BY <1>11, PairEnds, Values DEF RestoreFails, StopCandidate, StopCandidateFails,
     LockInv, Holding
<1>12. ASSUME NEW a \in Caller, Schedule(a) PROVE PairInv'
  BY <1>12 DEF Schedule, Goto
<1>13. ASSUME NEW a \in Caller, BeginCapture(a) PROVE PairInv'
  BY <1>13 DEF BeginCapture, Goto
<1>14. ASSUME NEW a \in Caller, StopBackend(a) PROVE PairInv'
  BY <1>14 DEF StopBackend, Goto
<1>15. ASSUME NEW a \in Caller,
             StopUnconfirmed(a) \/ CaptureUnknown(a) \/ RestartFails(a)
      PROVE  PairInv'
  BY <1>15, PairEnds, Values DEF StopUnconfirmed, CaptureUnknown, RestartFails,
     LockInv, Holding
<1>16. ASSUME NEW a \in Caller, Dump(a) PROVE PairInv'
  <2>1. [schema |-> schema, db |-> data, fax |-> data,
          quiet |-> "migration" \notin running] \in Pair
    BY DEF Pair, GuestInv
  <2>2. job'[a].pair = [schema |-> schema, db |-> data, fax |-> data,
          quiet |-> "migration" \notin running]
    BY <1>16 DEF Dump, Local
  <2> QED
    BY <1>16, <2>1, <2>2 DEF Dump, Goto
<1>17. ASSUME NEW a \in Caller, CaptureFax(a) PROVE PairInv'
  <2>1. /\ job[a].pair \in Pair /\ job[a].pair.db = data
        /\ job[a].pair.quiet => job[a].pair.schema = schema
    BY <1>17 DEF CaptureFax
  <2>2. job' = [job EXCEPT ![a] = [job[a] EXCEPT !.pair = [job[a].pair EXCEPT !.fax = data]]]
    BY <1>17 DEF CaptureFax
  <2>3. job'[a].pair = [job[a].pair EXCEPT !.fax = data]
    BY <2>2 DEF Local
  <2>4. /\ job'[a].pair \in Pair /\ job'[a].pair.db = data /\ job'[a].pair.fax = data
        /\ job'[a].pair.quiet => job'[a].pair.schema = schema
    BY <2>1, <2>3 DEF Pair, GuestInv
  <2> QED
    BY <1>17, <2>4 DEF CaptureFax, Goto
<1>18. ASSUME NEW a \in Caller, CaptureFails(a) PROVE PairInv'
  BY <1>18 DEF CaptureFails, Goto
<1>19. ASSUME NEW a \in Caller, Restart(a) PROVE PairInv'
  <2>1. lock = a
    BY <1>19, Values DEF Restart, LockInv, Holding
  <2>2. CASE job[a].ok
    <3>1. \A b \in Actor \ {a} : pc[b] \notin Capturing
      BY <1>19, Exclusive, Values DEF Restart, Holding
    <3> QED
      BY <1>19, <2>2, <3>1 DEF Restart, Goto, Capturing
  <2> QED
    BY <1>19, <2>1, <2>2, PairEnds DEF Restart
<1>20. ASSUME NEW a \in Caller, Transition(a) PROVE PairInv'
  BY <1>20 DEF Transition, Goto
<1>21. ASSUME NEW a \in Caller, Verify(a) PROVE PairInv'
  <2>1. CASE a = Timer /\ Finish(a, FALSE)
    BY <1>21, <2>1, PairEnds DEF Verify
  <2>2. CASE a # Timer
    BY <1>21, <2>2 DEF Verify, Goto, Local
  <2> QED
    BY <1>21, <2>1, <2>2 DEF Verify
<1>22. ASSUME NEW a \in Actor,
             Fails(a) \/ Kill(a)
      PROVE  PairInv'
  BY <1>22, PairEnds, Values DEF Fails, Kill, LockInv, Holding
<1>23. CASE StartBackup \/ StartPurge \/ CreateRetention \/ AwaitRetention
  BY <1>23 DEF StartBackup, StartPurge, CreateRetention, AwaitRetention, Goto
<1>24. CASE CreateFails \/ RemoveRetention \/ RetentionUnknown
  BY <1>24, PairEnds, Values DEF CreateFails, RemoveRetention, RetentionUnknown,
     LockInv, Holding
<1>25. CASE BackendWrites \/ RetentionEnds \/ MigrationEnds
  BY <1>25 DEF BackendWrites, RetentionEnds, MigrationEnds, Goto
<1>26. CASE RetentionWrites
  <2>1. \A b \in Actor : pc[b] # "fax"
    BY <1>26, Values DEF RetentionWrites, RetentionAlone, GuestInv, LockInv,
       Holding, Well, Purging
  <2> QED
    BY <1>26, <2>1 DEF RetentionWrites
<1>27. CASE MigrationApplies
  <2>1. \A b \in Actor : pc[b] = "fax" \/ Captured(b) => ~job[b].pair.quiet
    BY <1>27 DEF MigrationApplies, SettledInv, SettledOf
  <2> QED
    BY <1>27, <2>1 DEF MigrationApplies
<1>28. CASE UNCHANGED vars
  BY <1>28 DEF vars
<1> QED
  BY <1>1, <1>2, <1>3, <1>4, <1>5, <1>6, <1>7, <1>8, <1>9, <1>10, <1>11, <1>12,
     <1>13, <1>14, <1>15, <1>16, <1>17, <1>18, <1>19, <1>20, <1>21, <1>22, <1>23,
     <1>24, <1>25, <1>26, <1>27, <1>28
     DEF Next, DeployStep, BackupStep, PurgeStep, ContainerStep

LEMMA SettledStep ==
  ASSUME IInv, [Next]_vars
  PROVE  SettledInv'
<1> USE Values DEF IInv, LockInv, LocalInv, SettledInv, SettledOf, Captured, Local,
            guest, docker, owner, records
<1>1. ASSUME NEW d \in Deployer, ReadProfile(d) PROVE SettledInv'
  BY <1>1 DEF ReadProfile, NoJob, Goto
<1>2. ASSUME NEW d \in Deployer, Observe(d) PROVE SettledInv'
  BY <1>2 DEF Observe, MayProceed, Goto
<1>3. ASSUME NEW d \in Deployer, CheckPrevious(d) PROVE SettledInv'
  BY <1>3 DEF CheckPrevious, Healthy, Goto
<1>4. ASSUME NEW d \in Deployer, TakeLock(d) PROVE SettledInv'
  BY <1>4 DEF TakeLock, NoJob, Goto
<1>5. ASSUME NEW d \in Deployer,
             CheckSettings(d) \/ UpPostgres(d) \/ Migrated(d) \/ UpBackend(d)
      PROVE  SettledInv'
  BY <1>5 DEF CheckSettings, UpPostgres, Migrated, UpBackend, Goto
<1>6. ASSUME NEW d \in Deployer,
             SettingsFail(d) \/ Deployed(d) \/ StopMigrationFails(d)
             \/ RolledBack(d)
      PROVE  SettledInv'
  BY <1>6, SettledEnds, Values DEF SettingsFail, Deployed, StopMigrationFails,
     RolledBack
<1>7. ASSUME NEW d \in Deployer,
             UpPostgresFails(d) \/ MigrationNotStarted(d) \/ MigrationFails(d)
             \/ UpBackendFails(d)
      PROVE  SettledInv'
  <2>1. CASE Finish(d, TRUE)
    BY <1>7, <2>1, SettledEnds, Values DEF UpPostgresFails, MigrationNotStarted,
       MigrationFails, UpBackendFails
  <2>2. CASE Goto(d, "rollback") /\ UNCHANGED <<owner, job>>
    BY <1>7, <2>2 DEF UpPostgresFails, MigrationNotStarted, MigrationFails,
       UpBackendFails, Goto
  <2> QED
    BY <1>7, <2>1, <2>2 DEF UpPostgresFails, MigrationNotStarted, MigrationFails,
       UpBackendFails, Abort
<1>8. ASSUME NEW d \in Deployer, StartMigration(d) PROVE SettledInv'
  <2>1. \A b \in Actor \ {d} : pc[b] \notin Capturing \cup Deploying \cup Purging
    BY <1>8, Exclusive, Values DEF StartMigration, Holding
  <2> QED
    BY <1>8, <2>1 DEF StartMigration, Goto, PairConsistent, Capturing, Deploying
<1>9. ASSUME NEW d \in Deployer,
             CheckCandidate(d) \/ Save(d) \/ SaveFails(d) \/ StopMigration(d)
      PROVE  SettledInv'
  BY <1>9 DEF CheckCandidate, Save, SaveFails, StopMigration, Goto
<1>10. ASSUME NEW d \in Deployer, CheckFails(d) PROVE SettledInv'
  <2>1. CASE Finish(d, TRUE)
    BY <1>10, <2>1, SettledEnds, Values DEF CheckFails
  <2>2. CASE Goto(d, "rollback") /\ UNCHANGED <<owner, job>>
    BY <1>10, <2>2 DEF CheckFails, Goto
  <2> QED
    BY <1>10, <2>1, <2>2 DEF CheckFails, Abort
<1>11. ASSUME NEW d \in Deployer,
             RestoreFails(d) \/ StopCandidate(d) \/ StopCandidateFails(d)
      PROVE  SettledInv'
  BY <1>11, SettledEnds, Values DEF RestoreFails, StopCandidate, StopCandidateFails
<1>12. ASSUME NEW a \in Caller,
             Schedule(a) \/ BeginCapture(a) \/ StopBackend(a) \/ Dump(a)
      PROVE  SettledInv'
  <2>1. CASE Schedule(a) \/ BeginCapture(a) \/ StopBackend(a)
    BY <2>1 DEF Schedule, BeginCapture, StopBackend, Goto
  <2>2. CASE Dump(a)
    <3>1. job'[a].pair.quiet = ("migration" \notin running) /\ running' = running
      BY <2>2 DEF Dump
    <3>2. pc' = [pc EXCEPT ![a] = "fax"] /\ \A b \in Actor \ {a} : job'[b] = job[b]
      BY <2>2 DEF Dump, Goto
    <3>3. ASSUME NEW b \in Actor PROVE SettledOf(b)'
      <4>1. CASE b = a
        BY <3>1, <3>2, <4>1
      <4>2. CASE b # a
        BY <3>1, <3>2, <4>2
      <4> QED
        BY <4>1, <4>2
    <3> QED
      BY <3>3
  <2> QED
    BY <1>12, <2>1, <2>2
<1>13. ASSUME NEW a \in Caller,
             StopUnconfirmed(a) \/ CaptureUnknown(a) \/ RestartFails(a)
      PROVE  SettledInv'
  BY <1>13, SettledEnds, Values DEF StopUnconfirmed, CaptureUnknown, RestartFails
<1>14. ASSUME NEW a \in Caller,
             CaptureFax(a) \/ CaptureFails(a) \/ Transition(a)
      PROVE  SettledInv'
  <2>1. CASE CaptureFax(a)
    <3>1. pc[a] = "fax" /\ running' = running
          /\ pc' = [pc EXCEPT ![a] = "restart"]
          /\ \A b \in Actor \ {a} : job'[b] = job[b]
      BY <2>1 DEF CaptureFax, Goto
    <3>2. job[a].pair \in Pair
      BY <2>1 DEF CaptureFax, PairInv, PairOf
    <3>3. job'[a].pair = [job[a].pair EXCEPT !.fax = data]
      BY <2>1 DEF CaptureFax
    <3>4. job'[a].pair.quiet = job[a].pair.quiet
      BY <3>2, <3>3 DEF Pair
    <3>5. ASSUME NEW b \in Actor PROVE SettledOf(b)'
      <4>1. CASE b = a
        BY <3>1, <3>4, <4>1
      <4>2. CASE b # a
        BY <3>1, <4>2
      <4> QED
        BY <4>1, <4>2
    <3> QED
      BY <3>5
  <2>2. CASE CaptureFails(a) \/ Transition(a)
    BY <2>2 DEF CaptureFails, Transition, Goto
  <2> QED
    BY <1>14, <2>1, <2>2
<1>15. ASSUME NEW a \in Caller, Restart(a) PROVE SettledInv'
  <2>1. CASE job[a].ok
    BY <1>15, <2>1 DEF Restart, Goto
  <2> QED
    BY <1>15, <2>1, SettledEnds DEF Restart
<1>16. ASSUME NEW a \in Caller, Verify(a) PROVE SettledInv'
  <2>1. CASE a = Timer /\ Finish(a, FALSE)
    BY <1>16, <2>1, SettledEnds DEF Verify
  <2>2. CASE a # Timer
    BY <1>16, <2>2 DEF Verify, Goto, Local, PairConsistent
  <2> QED
    BY <1>16, <2>1, <2>2 DEF Verify
<1>17. ASSUME NEW a \in Actor,
             Fails(a) \/ Kill(a)
      PROVE  SettledInv'
  BY <1>17, SettledEnds, Values DEF Fails, Kill
<1>18. CASE StartBackup \/ StartPurge \/ CreateRetention \/ AwaitRetention
  BY <1>18 DEF StartBackup, StartPurge, CreateRetention, AwaitRetention, Goto
<1>19. CASE CreateFails
  <2>1. "migration" \in running' => "migration" \in running
    BY <1>19 DEF CreateFails
  <2> QED
    BY <1>19, <2>1, SettledEnds, Values DEF CreateFails
<1>20. CASE RemoveRetention \/ RetentionUnknown
  BY <1>20, SettledEnds, Values DEF RemoveRetention, RetentionUnknown
<1>21. CASE BackendWrites \/ RetentionWrites \/ RetentionEnds \/ MigrationApplies
  BY <1>21 DEF BackendWrites, RetentionWrites, RetentionEnds, MigrationApplies, Goto
<1>22. CASE MigrationEnds
  BY <1>22 DEF MigrationEnds, Goto
<1>23. CASE UNCHANGED vars
  BY <1>23 DEF vars
<1> QED
  BY <1>1, <1>2, <1>3, <1>4, <1>5, <1>6, <1>7, <1>8, <1>9, <1>10, <1>11, <1>12,
     <1>13, <1>14, <1>15, <1>16, <1>17, <1>18, <1>19, <1>20, <1>21, <1>22, <1>23
     DEF Next, DeployStep, BackupStep, PurgeStep, ContainerStep

LEMMA FreshStep ==
  ASSUME IInv, [Next]_vars
  PROVE  FreshInv'
<1> USE Values DEF IInv, GuestInv, LockInv, LocalInv, guest, docker, owner, records
<1>1. ASSUME NEW d \in Deployer, ReadProfile(d) PROVE FreshInv'
  <2>2. backend.started <= backend'.started /\ backend'.started \in Nat
    BY <1>1, StartStays DEF ReadProfile
  <2>3. Restorable => Restorable'
    BY <1>1 DEF ReadProfile, Restorable
  <2> QED
    BY <1>1, <2>2, <2>3, FreshGoes, Values DEF ReadProfile, Goto, Deploying, Early
<1>2. ASSUME NEW d \in Deployer, Observe(d) PROVE FreshInv'
  <2>2. backend.started <= backend'.started /\ backend'.started \in Nat
    BY <1>2, StartStays DEF Observe
  <2>3. Restorable => Restorable'
    BY <1>2 DEF Observe, Restorable
  <2>4. job'[d].previous = job[d].previous
    BY <1>2 DEF Observe, Local
  <2>5. pc' = [pc EXCEPT ![d] = IF job[d].previous = None THEN "lock" ELSE "health"]
        /\ \A b \in Actor \ {d} : job'[b] = job[b]
    BY <1>2 DEF Observe, Goto
  <2>6. \A b \in Actor : Backed(b)' => Backed(b) /\ SawStart(b)' = SawStart(b)
    BY <2>4, <2>5 DEF Backed, SawStart
  <2>7. pc[d] = "observe"
    BY <1>2 DEF Observe
  <2> QED
    BY <2>2, <2>3, <2>5, <2>6, <2>7, FreshKept DEF Deploying, Early
<1>3. ASSUME NEW d \in Deployer, CheckPrevious(d) PROVE FreshInv'
  <2>2. backend.started <= backend'.started /\ backend'.started \in Nat
    BY <1>3, StartStays DEF CheckPrevious
  <2>3. Restorable => Restorable'
    BY <1>3 DEF CheckPrevious, Restorable
  <2> QED
    BY <1>3, <2>2, <2>3, FreshGoes, Values DEF CheckPrevious, Goto, Deploying, Early
<1>4. ASSUME NEW d \in Deployer, TakeLock(d) PROVE FreshInv'
  <2>1. pc' = [pc EXCEPT ![d] = "settings"] /\ UNCHANGED <<backend, schema, running, snapshot>>
    BY <1>4 DEF TakeLock, Goto
  <2>2. job'[d].previous = job[d].previous /\ \A b \in Actor \ {d} : job'[b] = job[b]
    BY <1>4 DEF TakeLock, Local
  <2>3. \A b \in Actor : Backed(b)' => b # d /\ Backed(b) /\ SawStart(b)' = SawStart(b)
    BY <2>1, <2>2 DEF Backed, SawStart
  <2>4. pc[d] = "lock" /\ SawStart(d) = backend.started /\ (job[d].previous # None => Backed(d))
    BY <1>4 DEF TakeLock, SawStart, Backed, Observation
  <2>5. job[d].previous = None => \A b \in Actor : ~Backed(b)
    BY <1>4 DEF TakeLock, Backed, ProfileInv, ProfileOf
  <2>6. ASSUME NEW b \in Actor PROVE FreshOf(b)'
    <3>1. FreshOf(b)
      BY DEF FreshInv
    <3> QED
      BY <2>1, <2>3, <3>1 DEF FreshOf, Restorable
  <2>7. ASSUME NEW b \in Actor PROVE SafeOf(b)'
    <3>1. SafeOf(b) /\ FreshOf(d)
      BY DEF FreshInv
    <3>2. Restorable' <=> Restorable
      BY <2>1 DEF Restorable
    <3>3. CASE b = d
      BY <2>2, <2>4, <3>1, <3>2, <3>3 DEF SafeOf, FreshOf
    <3>4. CASE b # d
      BY <2>1, <2>2, <3>1, <3>2, <3>4 DEF SafeOf, Early
    <3> QED
      BY <3>3, <3>4
  <2>8. ASSUME NEW b \in Actor, NEW e \in Actor PROVE Rivals(b, e)'
    <3>1. Rivals(b, e) /\ Rivals(b, d) /\ FreshOf(b) /\ backend.started \in Nat
      BY DEF FreshInv, GuestInv
    <3>2. Backed(b) => SawStart(b) \in Nat
      BY SawNumber, AtLock
    <3>3. Backed(b)' => SawStart(b) < backend.started
      BY <2>3, <2>4, <2>5, <3>1, <3>2 DEF Rivals, FreshOf
    <3> QED
      BY <2>1, <2>3, <3>1, <3>3 DEF Rivals
  <2> QED
    BY <2>6, <2>7, <2>8 DEF FreshInv
<1>5. ASSUME NEW d \in Deployer, CheckSettings(d) PROVE FreshInv'
  <2>2. backend.started <= backend'.started /\ backend'.started \in Nat
    BY <1>5, StartStays DEF CheckSettings
  <2>3. Restorable => Restorable'
    BY <1>5 DEF CheckSettings, Restorable
  <2> QED
    BY <1>5, <2>2, <2>3, FreshGoes, Values DEF CheckSettings, Goto, Deploying, Early
<1>6. ASSUME NEW d \in Deployer,
             SettingsFail(d) \/ Deployed(d) \/ StopMigrationFails(d)
             \/ StopCandidate(d)
      PROVE  FreshInv'
  <2>2. backend.started <= backend'.started /\ backend'.started \in Nat
    BY <1>6, StartStays DEF SettingsFail, Deployed, StopMigrationFails,
       StopCandidate
  <2>3. Restorable => Restorable'
    BY <1>6 DEF SettingsFail, Deployed, StopMigrationFails, StopCandidate,
       Restorable
  <2> QED
    BY <1>6, <2>2, <2>3, FreshEnds, Values DEF SettingsFail, Deployed,
       StopMigrationFails, StopCandidate
<1>7. ASSUME NEW d \in Deployer, UpPostgres(d) PROVE FreshInv'
  <2>2. backend.started <= backend'.started /\ backend'.started \in Nat
    BY <1>7, StartStays DEF UpPostgres
  <2>3. Restorable => Restorable'
    BY <1>7 DEF UpPostgres, Restorable
  <2> QED
    BY <1>7, <2>2, <2>3, FreshGoes, Values DEF UpPostgres, Goto, Deploying, Early
<1>8. ASSUME NEW d \in Deployer,
             UpPostgresFails(d) \/ MigrationNotStarted(d) \/ MigrationFails(d)
             \/ CheckFails(d)
      PROVE  FreshInv'
  <2>2. backend.started <= backend'.started /\ backend'.started \in Nat
    BY <1>8, StartStays DEF UpPostgresFails, MigrationNotStarted, MigrationFails,
       CheckFails
  <2>3. Restorable => Restorable'
    BY <1>8 DEF UpPostgresFails, MigrationNotStarted, MigrationFails, CheckFails,
       Restorable
  <2>4. CASE Finish(d, TRUE)
    BY <2>2, <2>3, <2>4, FreshEnds, Values
  <2>5. CASE Goto(d, "rollback") /\ UNCHANGED <<owner, job>>
    <3>1. pc' = [pc EXCEPT ![d] = "rollback"] /\ job' = job /\ pc[d] \in Deploying
      BY <1>8, <2>5 DEF UpPostgresFails, MigrationNotStarted, MigrationFails,
         CheckFails, Goto, Deploying
    <3> QED
      BY <2>2, <2>3, <3>1, FreshGoes, Values DEF Early
  <2> QED
    BY <1>8, <2>4, <2>5 DEF UpPostgresFails, MigrationNotStarted, MigrationFails,
       CheckFails, Abort
<1>9. ASSUME NEW d \in Deployer, StartMigration(d) PROVE FreshInv'
  <2>1. \A b \in Actor \ {d} : pc[b] \notin Capturing \cup Deploying \cup Purging
    BY <1>9, Exclusive, Values DEF StartMigration, Holding
  <2>2. pc' = [pc EXCEPT ![d] = "migrating"] /\ job' = job /\ backend' = backend /\ pc[d] \in Deploying
    BY <1>9 DEF StartMigration, Goto, Deploying
  <2>3. \A b \in Actor : Backed(b)' => Backed(b) /\ SawStart(b)' = SawStart(b)
    BY <2>2 DEF Backed, SawStart
  <2>4. ASSUME NEW b \in Actor PROVE FreshOf(b)'
    <3>1. Rivals(b, d) /\ FreshOf(b) /\ backend.started \in Nat
      BY DEF FreshInv, GuestInv
    <3>2. Backed(b) => SawStart(b) \in Nat
      BY SawNumber, AtLock
    <3> QED
      BY <2>2, <2>3, <3>1, <3>2 DEF FreshOf, Rivals
  <2>5. ASSUME NEW b \in Actor PROVE SafeOf(b)'
    BY <2>1, <2>2 DEF SafeOf, Early, Deploying
  <2>6. ASSUME NEW b \in Actor, NEW e \in Actor PROVE Rivals(b, e)'
    <3>1. Rivals(b, e)
      BY DEF FreshInv
    <3> QED
      BY <2>2, <2>3, <3>1 DEF Rivals, Deploying
  <2> QED
    BY <2>4, <2>5, <2>6 DEF FreshInv
<1>10. ASSUME NEW d \in Deployer,
             Migrated(d) \/ CheckCandidate(d) \/ Save(d) \/ SaveFails(d)
      PROVE  FreshInv'
  <2>2. backend.started <= backend'.started /\ backend'.started \in Nat
    BY <1>10, StartStays DEF Migrated, CheckCandidate, Save, SaveFails
  <2>3. Restorable => Restorable'
    BY <1>10 DEF Migrated, CheckCandidate, Save, SaveFails, Restorable
  <2> QED
    BY <1>10, <2>2, <2>3, FreshGoes, Values DEF Migrated, CheckCandidate, Save,
       SaveFails, Goto, Deploying, Early
<1>11. ASSUME NEW d \in Deployer, UpBackend(d) PROVE FreshInv'
  <2>1. job[d].candidate \in Release \cup {None} /\ backend' \in HalfUpped(job[d].candidate)
    BY <1>11, Fields, Values DEF UpBackend, GuestInv, HalfUpped
  <2>2. backend.started <= backend'.started /\ backend'.started \in Nat
    BY <2>1, StartGrows
  <2>3. Restorable => Restorable'
    BY <1>11 DEF UpBackend, Restorable
  <2> QED
    BY <1>11, <2>2, <2>3, FreshGoes, Values DEF UpBackend, Goto, Deploying, Early
<1>12. ASSUME NEW d \in Deployer, UpBackendFails(d) PROVE FreshInv'
  <2>1. job[d].candidate \in Release \cup {None} /\ backend' \in HalfUpped(job[d].candidate)
    BY <1>12, Fields, Values DEF UpBackendFails, GuestInv, HalfUpped
  <2>2. backend.started <= backend'.started /\ backend'.started \in Nat
    BY <2>1, StartGrows
  <2>3. Restorable => Restorable'
    BY <1>12 DEF UpBackendFails, Restorable
  <2>4. CASE Finish(d, TRUE)
    BY <2>2, <2>3, <2>4, FreshEnds, Values
  <2>5. CASE Goto(d, "rollback") /\ UNCHANGED <<owner, job>>
    <3>1. pc' = [pc EXCEPT ![d] = "rollback"] /\ job' = job /\ pc[d] \in Deploying
      BY <1>12, <2>5 DEF UpBackendFails, Goto, Deploying
    <3> QED
      BY <2>2, <2>3, <3>1, FreshGoes, Values DEF Early
  <2> QED
    BY <1>12, <2>4, <2>5 DEF UpBackendFails, Abort
<1>13. ASSUME NEW d \in Deployer, StopMigration(d) PROVE FreshInv'
  <2>2. backend.started <= backend'.started /\ backend'.started \in Nat
    BY <1>13, StartStays DEF StopMigration
  <2>3. Restorable => Restorable'
    BY <1>13 DEF StopMigration, Restorable
  <2> QED
    BY <1>13, <2>2, <2>3, FreshGoes, Values DEF StopMigration, Goto, Deploying,
       Early
<1>14. ASSUME NEW d \in Deployer,
             RolledBack(d) \/ RestoreFails(d)
      PROVE  FreshInv'
  <2>1. job[d].previous \in Release \cup {None} /\ backend' \in HalfUpped(job[d].previous)
    BY <1>14, Fields, Values DEF RolledBack, RestoreFails, GuestInv, HalfUpped
  <2>2. backend.started <= backend'.started /\ backend'.started \in Nat
    BY <2>1, StartGrows
  <2>3. Restorable => Restorable'
    BY <1>14 DEF RolledBack, RestoreFails, Restorable
  <2> QED
    BY <1>14, <2>2, <2>3, FreshEnds, Values DEF RolledBack, RestoreFails
<1>15. ASSUME NEW d \in Deployer, StopCandidateFails(d) PROVE FreshInv'
  <2>2. backend.started <= backend'.started /\ backend'.started \in Nat
    BY <1>15, StartStays DEF StopCandidateFails
  <2>3. Restorable => Restorable'
    BY <1>15 DEF StopCandidateFails, Restorable
  <2> QED
    BY <1>15, <2>2, <2>3, FreshEnds, Values DEF StopCandidateFails
<1>16. ASSUME NEW a \in Caller,
             Schedule(a) \/ BeginCapture(a) \/ StopBackend(a) \/ Dump(a)
      PROVE  FreshInv'
  <2>2. backend.started <= backend'.started /\ backend'.started \in Nat
    BY <1>16, StartStays DEF Schedule, BeginCapture, StopBackend, Dump
  <2>3. Restorable => Restorable'
    BY <1>16 DEF Schedule, BeginCapture, StopBackend, Dump, Restorable
  <2> QED
    BY <1>16, <2>2, <2>3, FreshGoes, Values DEF Schedule, BeginCapture, StopBackend,
       Dump, Goto, Deploying, Early
<1>17. ASSUME NEW a \in Caller,
             StopUnconfirmed(a) \/ CaptureUnknown(a)
      PROVE  FreshInv'
  <2>2. backend.started <= backend'.started /\ backend'.started \in Nat
    BY <1>17, StartStays DEF StopUnconfirmed, CaptureUnknown
  <2>3. Restorable => Restorable'
    BY <1>17 DEF StopUnconfirmed, CaptureUnknown, Restorable
  <2> QED
    BY <1>17, <2>2, <2>3, FreshEnds, Values DEF StopUnconfirmed, CaptureUnknown
<1>18. ASSUME NEW a \in Caller,
             CaptureFax(a) \/ CaptureFails(a)
      PROVE  FreshInv'
  <2>2. backend.started <= backend'.started /\ backend'.started \in Nat
    BY <1>18, StartStays DEF CaptureFax, CaptureFails
  <2>3. Restorable => Restorable'
    BY <1>18 DEF CaptureFax, CaptureFails, Restorable
  <2> QED
    BY <1>18, <2>2, <2>3, FreshGoes, Values DEF CaptureFax, CaptureFails, Goto,
       Deploying, Early
<1>19. ASSUME NEW a \in Caller, Restart(a) PROVE FreshInv'
  <2>1. CASE job[a].ok
    <3>1. pc' = [pc EXCEPT ![a] = "transition"] /\ UNCHANGED <<job, schema, running, snapshot>>
      BY <1>19, <2>1 DEF Restart, Goto
    <3>2. backend'.started = backend.started + 1 /\ backend.started \in Nat
      BY <1>19 DEF Restart, PairInv, PairOf, Upped, Healthy, GuestInv
    <3>3. \A b \in Actor : Backed(b)' => Backed(b) /\ SawStart(b)' = SawStart(b)
      BY <3>1 DEF Backed, SawStart
    <3>4. \A b \in Actor : Backed(b) => SawStart(b) < backend'.started
      <4> SUFFICES ASSUME NEW b \in Actor, Backed(b) PROVE SawStart(b) < backend'.started
        OBVIOUS
      <4>1. FreshOf(b)
        BY DEF FreshInv
      <4>2. SawStart(b) \in Nat
        BY SawNumber, AtLock
      <4> QED
        BY <3>2, <4>1, <4>2 DEF FreshOf
    <3>5. ASSUME NEW b \in Actor PROVE FreshOf(b)'
      <4>1. Backed(b) => SawStart(b) \in Nat
        BY SawNumber, AtLock
      <4> QED
        BY <3>2, <3>3, <3>4, <4>1 DEF FreshOf
    <3>6. ASSUME NEW b \in Actor PROVE SafeOf(b)'
      BY <3>1 DEF FreshInv, SafeOf, Early, Restorable
    <3>7. ASSUME NEW b \in Actor, NEW e \in Actor PROVE Rivals(b, e)'
      <4>1. Rivals(b, e)
        BY DEF FreshInv
      <4> QED
        BY <3>3, <3>4, <4>1 DEF Rivals
    <3> QED
      BY <3>5, <3>6, <3>7 DEF FreshInv
  <2>2. CASE ~job[a].ok
    <3>1. backend.release \in Release \cup {None} /\ backend' \in HalfUpped(backend.release)
      BY <1>19 DEF Restart, GuestInv, HalfUpped
    <3>2. backend.started <= backend'.started /\ backend'.started \in Nat
      BY <3>1, StartGrows
    <3> QED
      BY <1>19, <2>2, <3>2, FreshEnds DEF Restart, Restorable
  <2> QED
    BY <2>1, <2>2
<1>20. ASSUME NEW a \in Caller, RestartFails(a) PROVE FreshInv'
  <2>1. backend.release \in Release \cup {None} /\ backend' \in HalfUpped(backend.release)
    BY <1>20, Fields, Values DEF RestartFails, GuestInv, HalfUpped
  <2>2. backend.started <= backend'.started /\ backend'.started \in Nat
    BY <2>1, StartGrows
  <2>3. Restorable => Restorable'
    BY <1>20 DEF RestartFails, Restorable
  <2> QED
    BY <1>20, <2>2, <2>3, FreshEnds, Values DEF RestartFails
<1>21. ASSUME NEW a \in Caller, Transition(a) PROVE FreshInv'
  <2>1. \A b \in Actor \ {a} : pc[b] \notin {"transition"} \cup Deploying
    BY <1>21, Exclusive, Values DEF Transition, Holding, Capturing
  <2>2. pc' = [pc EXCEPT ![a] = "verify"] /\ UNCHANGED <<backend, schema, running>> /\ pc[a] = "transition"
    BY <1>21 DEF Transition, Goto
  <2>3. job'[a].base.after.started = backend.started /\ \A b \in Actor \ {a} : job'[b] = job[b]
    BY <1>21 DEF Transition, Local, Observation
  <2>4. Restorable'
    BY <1>21, <2>2 DEF Transition, PairInv, PairOf, SettledInv, SettledOf, Captured,
       Restorable
  <2>5. \A b \in Actor : Backed(b)' /\ b # a => Backed(b) /\ SawStart(b)' = SawStart(b)
    BY <2>2, <2>3 DEF Backed, SawStart
  <2>6. SawStart(a)' = backend.started /\ backend.started \in Nat
    BY <2>2, <2>3 DEF SawStart, GuestInv
  <2>7. \A b \in Actor : Backed(b)' /\ b # a => SawStart(b)' < backend.started /\ SawStart(b)' \in Nat
    <3> SUFFICES ASSUME NEW b \in Actor, Backed(b)', b # a
                 PROVE  SawStart(b)' < backend.started /\ SawStart(b)' \in Nat
      OBVIOUS
    <3>1. Rivals(b, a)
      BY DEF FreshInv
    <3>2. SawStart(b) \in Nat
      BY <2>5, SawNumber, AtLock
    <3> QED
      BY <2>2, <2>5, <3>1, <3>2 DEF Rivals
  <2>8. ASSUME NEW b \in Actor PROVE FreshOf(b)' /\ SafeOf(b)'
    BY <2>2, <2>4, <2>6, <2>7 DEF FreshOf, SafeOf
  <2>9. ASSUME NEW b \in Actor, NEW e \in Actor PROVE Rivals(b, e)'
    <3>1. pc'[e] \notin {"transition"} \cup Deploying
      BY <2>1, <2>2 DEF Deploying
    <3>2. Backed(b)' /\ Backed(e)' /\ b # e => SawStart(b)' # SawStart(e)'
      <4>1. Rivals(b, e)
        BY DEF FreshInv
      <4> QED
        BY <2>5, <2>6, <2>7, <4>1 DEF Rivals
    <3> QED
      BY <3>1, <3>2 DEF Rivals
  <2> QED
    BY <2>8, <2>9 DEF FreshInv
<1>22. ASSUME NEW a \in Caller, Verify(a) PROVE FreshInv'
  <2>2. backend.started <= backend'.started /\ backend'.started \in Nat
    BY <1>22, StartStays DEF Verify
  <2>3. Restorable => Restorable'
    BY <1>22 DEF Verify, Restorable
  <2>4. CASE a = Timer
    BY <1>22, <2>2, <2>3, <2>4, FreshEnds DEF Verify
  <2>5. CASE a # Timer
    <3>1. pc[a] = "verify" /\ pc' = [pc EXCEPT ![a] = "lock"]
      BY <1>22, <2>5 DEF Verify, Goto
    <3>2. job'[a].before = job[a].base.after /\ \A b \in Actor \ {a} : job'[b] = job[b]
      BY <1>22, <2>5 DEF Verify, Local
    <3>3. \A b \in Actor : Backed(b)' => Backed(b) /\ SawStart(b)' = SawStart(b)
      BY <3>1, <3>2 DEF Backed, SawStart
    <3> QED
      BY <2>2, <2>3, <3>1, <3>2, <3>3, FreshKept DEF Deploying, Early
  <2> QED
    BY <2>4, <2>5
<1>23. ASSUME NEW a \in Actor,
             Fails(a) \/ Kill(a)
      PROVE  FreshInv'
  <2>2. backend.started <= backend'.started /\ backend'.started \in Nat
    BY <1>23, StartStays DEF Fails, Kill
  <2>3. Restorable => Restorable'
    BY <1>23 DEF Fails, Kill, Restorable
  <2> QED
    BY <1>23, <2>2, <2>3, FreshEnds, Values DEF Fails, Kill
<1>24. CASE StartBackup \/ StartPurge \/ CreateRetention \/ AwaitRetention
  <2>2. backend.started <= backend'.started /\ backend'.started \in Nat
    BY <1>24, StartStays DEF StartBackup, StartPurge, CreateRetention,
       AwaitRetention
  <2>3. Restorable => Restorable'
    BY <1>24 DEF StartBackup, StartPurge, CreateRetention, AwaitRetention,
       Restorable
  <2> QED
    BY <1>24, <2>2, <2>3, FreshGoes, Values DEF StartBackup, StartPurge,
       CreateRetention, AwaitRetention, Goto, Deploying, Early
<1>25. CASE CreateFails
  <2>2. backend.started <= backend'.started /\ backend'.started \in Nat
    BY <1>25, StartStays DEF CreateFails
  <2>3. Restorable => Restorable'
    BY <1>25 DEF CreateFails, Restorable
  <2> QED
    BY <1>25, <2>2, <2>3, FreshEnds, Values DEF CreateFails
<1>26. CASE RemoveRetention
  <2>2. backend.started <= backend'.started /\ backend'.started \in Nat
    BY <1>26, StartStays DEF RemoveRetention
  <2>3. Restorable => Restorable'
    BY <1>26 DEF RemoveRetention, Restorable
  <2> QED
    BY <1>26, <2>2, <2>3, FreshEnds, Values DEF RemoveRetention
<1>27. CASE RetentionUnknown
  <2>2. backend.started <= backend'.started /\ backend'.started \in Nat
    BY <1>27, StartStays DEF RetentionUnknown
  <2>3. Restorable => Restorable'
    BY <1>27 DEF RetentionUnknown, Restorable
  <2> QED
    BY <1>27, <2>2, <2>3, FreshEnds, Values DEF RetentionUnknown
<1>28. CASE BackendWrites \/ RetentionWrites \/ RetentionEnds \/ MigrationApplies
  <2>2. backend.started <= backend'.started /\ backend'.started \in Nat
    BY <1>28, StartStays DEF BackendWrites, RetentionWrites, RetentionEnds,
       MigrationApplies
  <2>3. Restorable => Restorable'
    BY <1>28 DEF BackendWrites, RetentionWrites, RetentionEnds, MigrationApplies,
       Restorable
  <2> QED
    BY <1>28, <2>2, <2>3, FreshKept DEF BackendWrites, RetentionWrites,
       RetentionEnds, MigrationApplies, Backed, SawStart
<1>29. CASE MigrationEnds
  <2>2. backend.started <= backend'.started /\ backend'.started \in Nat
    BY <1>29, StartStays DEF MigrationEnds
  <2>3. Restorable => Restorable'
    BY <1>29 DEF MigrationEnds, Restorable
  <2> QED
    BY <1>29, <2>2, <2>3, FreshKept DEF MigrationEnds, Backed, SawStart
<1>30. CASE UNCHANGED vars
  <2>2. backend.started <= backend'.started /\ backend'.started \in Nat
    BY <1>30, StartStays DEF vars
  <2>3. Restorable => Restorable'
    BY <1>30 DEF vars, Restorable
  <2> QED
    BY <1>30, <2>2, <2>3, FreshKept DEF vars, Backed, SawStart
<1> QED
  BY <1>1, <1>2, <1>3, <1>4, <1>5, <1>6, <1>7, <1>8, <1>9, <1>10, <1>11, <1>12,
     <1>13, <1>14, <1>15, <1>16, <1>17, <1>18, <1>19, <1>20, <1>21, <1>22, <1>23,
     <1>24, <1>25, <1>26, <1>27, <1>28, <1>29, <1>30
     DEF Next, DeployStep, BackupStep, PurgeStep, ContainerStep

(* Who goes on with the same candidate, or ends, owns no more than before. *)
LEMMA OwnerGoes ==
  ASSUME LocalInv, OwnerInv, NEW a \in Actor,
         UNCHANGED <<profile, migrators, volumes, recovery>>,
         \A b \in Actor \ {a} : pc'[b] = pc[b] /\ job'[b] = job[b],
         pc'[a] \notin {"lock", "migrate"},
         pc'[a] \in Deploying => pc[a] \in Deploying /\ job'[a].candidate = job[a].candidate,
         job'[a].recovery \in {job[a].recovery, recovery, None}
  PROVE  OwnerInv'
<1>1. PICK c \in Release \cup {None} : OwnedBy(c)
  BY DEF OwnerInv
<1>2. CASE profile # None
  BY <1>1, <1>2 DEF OwnerInv, OwnedBy
<1>3. CASE profile = None
  <2>1. OwnReport(c, recovery)' /\ migrators' \subseteq {c}
        /\ (migrators' # {} => volumes')
    BY <1>1, <1>3 DEF OwnedBy, OwnReport
  <2>2. ASSUME NEW b \in Actor PROVE OwnReport(c, job[b].recovery)'
    BY <1>1, <1>3 DEF OwnedBy, OwnReport
  <2>3. ASSUME NEW d \in Deployer PROVE OwnWork(c, d)'
    <3>1. OwnWork(c, d) /\ d \in Actor
      BY <1>1, <1>3, Values DEF OwnedBy
    <3>2. CASE d = a
      BY <3>1, <3>2 DEF OwnWork
    <3>3. CASE d # a
      BY <3>1, <3>3 DEF OwnWork, Deploying
    <3> QED
      BY <3>2, <3>3
  <2> QED
    BY <2>1, <2>2, <2>3 DEF OwnedBy, OwnerInv
<1> QED
  BY <1>2, <1>3

LEMMA OwnerEnds ==
  ASSUME LockInv, LocalInv, OwnerInv, NEW a \in Actor,
         Finish(a, TRUE) \/ Finish(a, FALSE), 
         UNCHANGED <<profile, migrators, volumes, recovery>>
  PROVE  OwnerInv'
<1>1. \A b \in Actor \ {a} : pc'[b] = pc[b] /\ job'[b] = job[b]
  BY Ended
<1>2. pc'[a] = "idle" /\ job'[a].recovery = None
  BY Ended, Values
<1> QED
  BY <1>1, <1>2, OwnerGoes DEF Deploying

(* Data appears in a deploy, which then owns it.                           *)
LEMMA OwnerBegins ==
  ASSUME LockInv, LocalInv, OwnerInv, NEW d \in Deployer, pc[d] = "postgres",
         UNCHANGED <<profile, migrators, recovery>>, volumes' \in {volumes, TRUE},
         \A b \in Actor \ {d} : pc'[b] = pc[b] /\ job'[b] = job[b],
         \/ pc'[d] = "idle" /\ job'[d] = NoJob
         \/ pc'[d] \in Deploying /\ job'[d] = job[d] /\ (pc'[d] = "migrate" => volumes')
  PROVE  OwnerInv'
<1> USE Values
<1>1. PICK c \in Release \cup {None} : OwnedBy(c)
  BY DEF OwnerInv
<1>2. \A b \in Actor \ {d} : pc[b] \notin Capturing \cup Deploying \cup Purging
  BY Exclusive DEF Holding
<1>3. CASE profile # None
  BY <1>1, <1>3 DEF OwnerInv, OwnedBy
<1>4. CASE profile = None /\ volumes
  <2>1. OwnReport(c, recovery)' /\ migrators' \subseteq {c}
        /\ (migrators' # {} => volumes')
    BY <1>1, <1>4 DEF OwnedBy, OwnReport
  <2>2. ASSUME NEW b \in Actor PROVE OwnReport(c, job[b].recovery)'
    BY <1>1, <1>4 DEF OwnedBy, OwnReport
  <2>3. ASSUME NEW e \in Deployer PROVE OwnWork(c, e)'
    <3>1. OwnWork(c, e) /\ OwnWork(c, d) /\ e \in Actor
      BY <1>1, <1>4 DEF OwnedBy
    <3> QED
      BY <1>4, <3>1 DEF OwnWork, Deploying
  <2> QED
    BY <2>1, <2>2, <2>3 DEF OwnedBy, OwnerInv
<1>5. CASE profile = None /\ ~volumes
  <2>1. PICK k \in Release \cup {None} : k = job[d].candidate
    BY Fields
  <2>2. migrators = {}
    BY <1>1, <1>5 DEF OwnedBy
  <2>3. OwnReport(k, recovery)'
    BY <1>1, <1>5 DEF OwnedBy, OwnReport
  <2>4. ASSUME NEW b \in Actor PROVE OwnReport(k, job[b].recovery)'
    BY <1>1, <1>5 DEF OwnedBy, OwnReport
  <2>5. ASSUME NEW e \in Deployer PROVE OwnWork(k, e)'
    <3>1. OwnWork(c, e) /\ e \in Actor
      BY <1>1, <1>5 DEF OwnedBy
    <3>2. CASE e = d
      BY <1>5, <2>1, <3>2 DEF OwnWork, Deploying
    <3>3. CASE e # d
      BY <1>2, <1>5, <3>1, <3>3 DEF OwnWork, Deploying
    <3> QED
      BY <3>2, <3>3
  <2>6. OwnedBy(k)'
    BY <2>2, <2>3, <2>4, <2>5 DEF OwnedBy
  <2> QED
    BY <2>6 DEF OwnerInv
<1> QED
  BY <1>3, <1>4, <1>5

LEMMA OwnerStep ==
  ASSUME IInv, [Next]_vars
  PROVE  OwnerInv'
<1> USE Values DEF IInv, LockInv, LocalInv, guest, docker, owner, records
<1>1. ASSUME NEW d \in Deployer, ReadProfile(d) PROVE OwnerInv'
  <2>1. PICK c \in Release, r \in {None, recovery} :
          job' = [job EXCEPT ![d] = [NoJob EXCEPT !.candidate = c, !.recovery = r,
                                                   !.previous = profile]]
    BY <1>1 DEF ReadProfile
  <2>2. job'[d].recovery = r
    BY <2>1, Values DEF Local
  <2> QED
    BY <1>1, <2>1, <2>2, OwnerGoes, Values DEF ReadProfile, Goto, Deploying
<1>2. ASSUME NEW d \in Deployer, Observe(d) PROVE OwnerInv'
  <2>1. PICK c \in Release \cup {None} : OwnedBy(c)
    BY DEF OwnerInv
  <2>2. /\ job'[d].recovery = job[d].recovery /\ job'[d].candidate = job[d].candidate
        /\ job'[d].before = Observation /\ \A b \in Actor \ {d} : job'[b] = job[b]
    BY <1>2 DEF Observe, Local
  <2>3. CASE profile = None
    <3>1. ASSUME NEW e \in Deployer PROVE OwnWork(c, e)'
      <4>1. OwnWork(c, e) /\ OwnWork(c, d) /\ OwnReport(c, job[d].recovery) /\ e \in Actor
        BY <2>1, <2>3 DEF OwnedBy
      <4>2. CASE e = d
        BY <1>2, <2>2, <4>1, <4>2 DEF Observe, Goto, MayProceed, Existing,
           Observation, OwnWork, OwnReport, Deploying
      <4>3. CASE e # d
        BY <1>2, <2>2, <4>1, <4>3 DEF Observe, Goto, OwnWork, Deploying
      <4> QED
        BY <4>2, <4>3
    <3>2. ASSUME NEW b \in Actor PROVE OwnReport(c, job[b].recovery)'
      <4>1. job'[b].recovery = job[b].recovery
        BY <1>2, <2>2
      <4> QED
        BY <1>2, <2>1, <2>3, <4>1 DEF Observe, OwnedBy, OwnReport
    <3>3. OwnReport(c, recovery)' /\ migrators' \subseteq {c}
          /\ (migrators' # {} => volumes')
      BY <1>2, <2>1, <2>3 DEF Observe, OwnedBy, OwnReport
    <3> QED
      BY <2>1, <3>1, <3>2, <3>3 DEF OwnedBy, OwnerInv
  <2>4. CASE profile # None
    BY <1>2, <2>4 DEF Observe, OwnerInv, OwnedBy
  <2> QED
    BY <2>3, <2>4
<1>3. ASSUME NEW d \in Deployer,
             CheckPrevious(d) \/ CheckSettings(d) \/ Migrated(d) \/ UpBackend(d)
      PROVE  OwnerInv'
  <2>1. job'[d].recovery \in {job[d].recovery, recovery, None}
        /\ job'[d].candidate = job[d].candidate
    BY <1>3, Values DEF CheckPrevious, CheckSettings, Migrated, UpBackend, Local
  <2> QED
    BY <1>3, <2>1, OwnerGoes, Values DEF CheckPrevious, CheckSettings, Migrated,
       UpBackend, Goto, Deploying
<1>4. ASSUME NEW d \in Deployer, TakeLock(d) PROVE OwnerInv'
  <2>1. PICK c \in Release \cup {None} : OwnedBy(c)
    BY DEF OwnerInv
  <2>2. /\ job'[d].recovery = None /\ job'[d].candidate = job[d].candidate
        /\ \A b \in Actor \ {d} : job'[b] = job[b]
    BY <1>4 DEF TakeLock, Local
  <2>3. CASE profile = None
    <3>1. ASSUME NEW e \in Deployer PROVE OwnWork(c, e)'
      <4>1. OwnWork(c, e) /\ OwnWork(c, d) /\ OwnReport(c, job[d].recovery) /\ e \in Actor
        BY <2>1, <2>3 DEF OwnedBy
      <4>2. CASE e = d
        BY <1>4, <2>2, <4>1, <4>2 DEF TakeLock, Goto, Observation, OwnWork,
           Deploying
      <4>3. CASE e # d
        BY <1>4, <2>2, <4>1, <4>3 DEF TakeLock, Goto, OwnWork, Deploying
      <4> QED
        BY <4>2, <4>3
    <3>2. ASSUME NEW b \in Actor PROVE OwnReport(c, job[b].recovery)'
      <4>1. job'[b].recovery \in {job[b].recovery, None}
        BY <1>4, <2>2
      <4> QED
        BY <1>4, <2>1, <2>3, <4>1 DEF TakeLock, OwnedBy, OwnReport
    <3>3. OwnReport(c, recovery)' /\ migrators' \subseteq {c}
          /\ (migrators' # {} => volumes')
      BY <1>4, <2>1, <2>3 DEF TakeLock, OwnedBy, OwnReport
    <3> QED
      BY <2>1, <3>1, <3>2, <3>3 DEF OwnedBy, OwnerInv
  <2>4. CASE profile # None
    BY <1>4, <2>4 DEF TakeLock, OwnerInv, OwnedBy
  <2> QED
    BY <2>3, <2>4
<1>5. ASSUME NEW d \in Deployer,
             SettingsFail(d) \/ Deployed(d) \/ StopMigrationFails(d)
             \/ RolledBack(d)
      PROVE  OwnerInv'
  BY <1>5, OwnerEnds, Values DEF SettingsFail, Deployed, StopMigrationFails,
     RolledBack
<1>6. ASSUME NEW d \in Deployer, UpPostgres(d) PROVE OwnerInv'
  <2>1. pc' = [pc EXCEPT ![d] = "migrate"] /\ job' = job
    BY <1>6 DEF UpPostgres, Goto
  <2> QED
    BY <1>6, <2>1, OwnerBegins DEF UpPostgres, Deploying
<1>7. ASSUME NEW d \in Deployer, UpPostgresFails(d) PROVE OwnerInv'
  <2>1. CASE Finish(d, TRUE)
    BY <1>7, <2>1, Ended, OwnerBegins, Values DEF UpPostgresFails
  <2>2. CASE Goto(d, "rollback") /\ UNCHANGED <<owner, job>>
    <3>1. pc' = [pc EXCEPT ![d] = "rollback"] /\ job' = job
      BY <1>7, <2>2 DEF Goto
    <3> QED
      BY <1>7, <3>1, OwnerBegins DEF UpPostgresFails, Deploying
  <2> QED
    BY <1>7, <2>1, <2>2 DEF UpPostgresFails, Abort
<1>8. ASSUME NEW d \in Deployer, StartMigration(d) PROVE OwnerInv'
  <2>1. PICK c \in Release \cup {None} : OwnedBy(c)
    BY DEF OwnerInv
  <2>3. CASE profile = None
    <3>1. ASSUME NEW e \in Deployer PROVE OwnWork(c, e)'
      <4>1. OwnWork(c, e) /\ OwnWork(c, d) /\ OwnReport(c, job[d].recovery) /\ e \in Actor
        BY <2>1, <2>3 DEF OwnedBy
      <4> QED
        BY <1>8, <4>1 DEF StartMigration, Goto, OwnWork, Deploying
    <3>2. ASSUME NEW b \in Actor PROVE OwnReport(c, job[b].recovery)'
      BY <1>8, <2>1, <2>3 DEF StartMigration, OwnedBy, OwnReport
    <3>3. OwnReport(c, recovery)' /\ migrators' \subseteq {c}
          /\ (migrators' # {} => volumes')
      <4>1. OwnWork(c, d)
        BY <2>1, <2>3 DEF OwnedBy
      <4> QED
        BY <1>8, <2>1, <2>3, <4>1 DEF StartMigration, OwnedBy, OwnReport, OwnWork,
           Deploying
    <3> QED
      BY <2>1, <3>1, <3>2, <3>3 DEF OwnedBy, OwnerInv
  <2>4. CASE profile # None
    BY <1>8, <2>4 DEF StartMigration, OwnerInv, OwnedBy
  <2> QED
    BY <2>3, <2>4
<1>9. ASSUME NEW d \in Deployer,
             MigrationNotStarted(d) \/ MigrationFails(d) \/ UpBackendFails(d)
             \/ CheckFails(d)
      PROVE  OwnerInv'
  <2>1. CASE Finish(d, TRUE)
    BY <1>9, <2>1, OwnerEnds, Values DEF MigrationNotStarted, MigrationFails,
       UpBackendFails, CheckFails
  <2>2. CASE Goto(d, "rollback") /\ UNCHANGED <<owner, job>>
    <3>1. pc' = [pc EXCEPT ![d] = "rollback"] /\ job' = job /\ pc[d] \in Deploying
      BY <1>9, <2>2 DEF MigrationNotStarted, MigrationFails, UpBackendFails,
         CheckFails, Goto, Deploying
    <3> QED
      BY <1>9, <3>1, OwnerGoes, Values DEF MigrationNotStarted, MigrationFails,
         UpBackendFails, CheckFails
  <2> QED
    BY <1>9, <2>1, <2>2 DEF MigrationNotStarted, MigrationFails, UpBackendFails,
       CheckFails, Abort
<1>10. ASSUME NEW d \in Deployer,
             CheckCandidate(d) \/ SaveFails(d) \/ StopMigration(d)
      PROVE  OwnerInv'
  <2>1. job'[d].recovery \in {job[d].recovery, recovery, None}
        /\ job'[d].candidate = job[d].candidate
    BY <1>10, Values DEF CheckCandidate, SaveFails, StopMigration, Local
  <2> QED
    BY <1>10, <2>1, OwnerGoes, Values DEF CheckCandidate, SaveFails, StopMigration,
       Goto, Deploying
<1>11. ASSUME NEW d \in Deployer, Save(d) PROVE OwnerInv'
  <2>1. profile' # None
    BY <1>11 DEF Save, Well
  <2> QED
    BY <2>1 DEF OwnerInv, OwnedBy
<1>12. ASSUME NEW d \in Deployer,
             RestoreFails(d) \/ StopCandidateFails(d)
      PROVE  OwnerInv'
  BY <1>12, OwnerEnds, Values DEF RestoreFails, StopCandidateFails
<1>13. ASSUME NEW d \in Deployer, StopCandidate(d) PROVE OwnerInv'
  <2>1. PICK c \in Release \cup {None} : OwnedBy(c)
    BY DEF OwnerInv
  <2>3. CASE profile = None
    <3>1. ASSUME NEW e \in Deployer PROVE OwnWork(c, e)'
      <4>1. OwnWork(c, e) /\ OwnWork(c, d) /\ OwnReport(c, job[d].recovery) /\ e \in Actor
        BY <2>1, <2>3 DEF OwnedBy
      <4>2. pc'[e] = "idle" \/ (pc'[e] = pc[e] /\ job'[e] = job[e])
        BY <1>13, <4>1, Ended, Values DEF StopCandidate
      <4> QED
        BY <1>13, <4>1, <4>2 DEF StopCandidate, OwnWork, Deploying
    <3>2. ASSUME NEW b \in Actor PROVE OwnReport(c, job[b].recovery)'
      <4>1. job'[b].recovery \in {job[b].recovery, None}
        BY <1>13, Ended, Values DEF StopCandidate
      <4> QED
        BY <1>13, <2>1, <2>3, <4>1 DEF StopCandidate, OwnedBy, OwnReport
    <3>3. OwnReport(c, recovery)' /\ migrators' \subseteq {c}
          /\ (migrators' # {} => volumes')
      <4>1. OwnWork(c, d)
        BY <2>1, <2>3 DEF OwnedBy
      <4> QED
        BY <1>13, <2>1, <2>3, <4>1 DEF StopCandidate, OwnedBy, OwnReport, OwnWork,
           Deploying, Observation
    <3> QED
      BY <2>1, <3>1, <3>2, <3>3 DEF OwnedBy, OwnerInv
  <2>4. CASE profile # None
    BY <1>13, <2>4 DEF StopCandidate, OwnerInv, OwnedBy
  <2> QED
    BY <2>3, <2>4
<1>14. ASSUME NEW a \in Caller,
             Schedule(a) \/ BeginCapture(a) \/ StopBackend(a) \/ Dump(a)
      PROVE  OwnerInv'
  <2>1. job'[a].recovery \in {job[a].recovery, recovery, None}
        /\ job'[a].candidate = job[a].candidate
    BY <1>14, Values DEF Schedule, BeginCapture, StopBackend, Dump, Local
  <2> QED
    BY <1>14, <2>1, OwnerGoes, Values DEF Schedule, BeginCapture, StopBackend, Dump,
       Goto, Deploying
<1>15. ASSUME NEW a \in Caller,
             StopUnconfirmed(a) \/ CaptureUnknown(a) \/ RestartFails(a)
      PROVE  OwnerInv'
  BY <1>15, OwnerEnds, Values DEF StopUnconfirmed, CaptureUnknown, RestartFails
<1>16. ASSUME NEW a \in Caller,
             CaptureFax(a) \/ CaptureFails(a) \/ Transition(a)
      PROVE  OwnerInv'
  <2>1. job'[a].recovery \in {job[a].recovery, recovery, None}
        /\ job'[a].candidate = job[a].candidate
    BY <1>16, Values DEF CaptureFax, CaptureFails, Transition, Local
  <2> QED
    BY <1>16, <2>1, OwnerGoes, Values DEF CaptureFax, CaptureFails, Transition,
       Goto, Deploying
<1>17. ASSUME NEW a \in Caller, Restart(a) PROVE OwnerInv'
  <2>1. CASE job[a].ok
    <3>1. pc' = [pc EXCEPT ![a] = "transition"] /\ job' = job
      BY <1>17, <2>1 DEF Restart, Goto
    <3> QED
      BY <1>17, <3>1, OwnerGoes DEF Restart, Deploying
  <2> QED
    BY <1>17, <2>1, OwnerEnds DEF Restart
<1>18. ASSUME NEW a \in Caller, Verify(a) PROVE OwnerInv'
  <2>1. CASE a = Timer
    BY <1>18, <2>1, OwnerEnds DEF Verify
  <2>2. CASE a # Timer
    BY <1>18, <2>2 DEF Verify, Healthy, OwnerInv, OwnedBy
  <2> QED
    BY <2>1, <2>2
<1>19. ASSUME NEW a \in Actor,
             Fails(a) \/ Kill(a)
      PROVE  OwnerInv'
  BY <1>19, OwnerEnds, Values DEF Fails, Kill
<1>20. CASE StartBackup
  <2>1. job'[Timer].recovery \in {job[Timer].recovery, recovery, None}
        /\ job'[Timer].candidate = job[Timer].candidate
    BY <1>20, Values DEF StartBackup, Local
  <2> QED
    BY <1>20, <2>1, OwnerGoes, Values DEF StartBackup, Goto, Deploying
<1>21. CASE StartPurge \/ CreateRetention \/ AwaitRetention
  <2>1. job'[Purger].recovery \in {job[Purger].recovery, recovery, None}
        /\ job'[Purger].candidate = job[Purger].candidate
    BY <1>21, Values DEF StartPurge, CreateRetention, AwaitRetention, Local
  <2> QED
    BY <1>21, <2>1, OwnerGoes, Values DEF StartPurge, CreateRetention,
       AwaitRetention, Goto, Deploying
<1>22. CASE CreateFails \/ RemoveRetention \/ RetentionUnknown
  BY <1>22, OwnerEnds, Values DEF CreateFails, RemoveRetention, RetentionUnknown
<1>23. CASE BackendWrites \/ RetentionWrites \/ RetentionEnds \/ MigrationApplies
  BY <1>23 DEF BackendWrites, RetentionWrites, RetentionEnds, MigrationApplies,
     OwnerInv, OwnedBy, OwnReport, OwnWork
<1>24. CASE MigrationEnds
  BY <1>24 DEF MigrationEnds, OwnerInv, OwnedBy, OwnReport, OwnWork
<1>25. CASE UNCHANGED vars
  BY <1>25 DEF vars, OwnerInv, OwnedBy, OwnReport, OwnWork
<1> QED
  BY <1>1, <1>2, <1>3, <1>4, <1>5, <1>6, <1>7, <1>8, <1>9, <1>10, <1>11, <1>12,
     <1>13, <1>14, <1>15, <1>16, <1>17, <1>18, <1>19, <1>20, <1>21, <1>22, <1>23,
     <1>24, <1>25
     DEF Next, DeployStep, BackupStep, PurgeStep, ContainerStep

(* The holder of the lock ends: it says that it failed, or the release on  *)
(* record runs.                                                            *)
LEMMA RunEnds ==
  ASSUME LockInv, LocalInv, RunInv, NEW a \in Actor,
         Finish(a, TRUE) \/ (Finish(a, FALSE) /\ (lock = a => Serves')),
         profile' = profile, lock = a \/ UNCHANGED backend
  PROVE  RunInv'
<1>1. /\ pc'[a] = "idle" /\ \A b \in Actor \ {a} : pc'[b] = pc[b] /\ job'[b] = job[b]
      /\ lock' = IF lock = a THEN None ELSE lock
  BY Ended
<1>2. ServesOrReported'
  <2>1. CASE lock = a
    BY <2>1, Reported DEF ServesOrReported
  <2>2. CASE lock # a
    BY <1>1, <2>2, Reported DEF RunInv, ServesOrReported, Healthy, Serves
  <2> QED
    BY <2>1, <2>2
<1>3. ASSUME NEW b \in Actor PROVE RunOf(b)'
  <2>1. CASE b = a
    BY <1>1, <2>1 DEF RunOf, Deploying
  <2>2. CASE b # a /\ lock = a
    <3>1. pc[b] \notin Deploying \cup {"transition"}
      BY <2>2, Exclusive DEF LockInv, Capturing
    <3> QED
      BY <1>1, <2>2, <3>1 DEF RunOf, Deploying
  <2>3. CASE b # a /\ lock # a
    BY <1>1, <2>3 DEF RunInv, RunOf, Deploying, Healthy, Serves
  <2> QED
    BY <2>1, <2>2, <2>3
<1> QED
  BY <1>2, <1>3 DEF RunInv

(* A step under the lock disturbs nobody but its process.                  *)
LEMMA RunGoes ==
  ASSUME LockInv, LocalInv, RunInv, NEW a \in Actor, pc[a] \in Holding,
         \A b \in Actor \ {a} : pc'[b] = pc[b] /\ job'[b] = job[b],
         lock' = lock, RunOf(a)'
  PROVE  RunInv'
<1>1. lock = a /\ \A b \in Actor \ {a} : pc[b] \notin Capturing \cup Deploying \cup Purging
  BY Exclusive
<1>2. ServesOrReported'
  BY <1>1, Values DEF ServesOrReported
<1>3. ASSUME NEW b \in Actor PROVE RunOf(b)'
  BY <1>1 DEF RunOf, Capturing, Deploying
<1> QED
  BY <1>2, <1>3 DEF RunInv

(* Before the lock, and beside it, nothing is changed.                     *)
LEMMA RunWaits ==
  ASSUME RunInv, NEW a \in Actor, UNCHANGED <<profile, backend>>,
         lock' # None \/ UNCHANGED <<lock, failed>>,
         \A b \in Actor \ {a} : pc'[b] = pc[b] /\ job'[b] = job[b],
         pc'[a] \notin Deploying \cup {"transition"}
  PROVE  RunInv'
<1>1. ServesOrReported'
  BY DEF RunInv, ServesOrReported, Healthy, Serves
<1>2. ASSUME NEW b \in Actor PROVE RunOf(b)'
  BY DEF RunInv, RunOf, Deploying, Healthy, Serves
<1> QED
  BY <1>1, <1>2 DEF RunInv

LEMMA RunStep ==
  ASSUME IInv, RunInv, [Next]_vars
  PROVE  RunInv'
<1> USE Values DEF IInv, LockInv, LocalInv, guest, docker, owner, records
<1>1. ASSUME NEW d \in Deployer, ReadProfile(d) PROVE RunInv'
  <2>1. UNCHANGED <<profile, backend>> /\ (lock' # None \/ UNCHANGED <<lock, failed>>)
        /\ \A b \in Actor \ {d} : pc'[b] = pc[b] /\ job'[b] = job[b]
    BY <1>1, Values DEF ReadProfile, Goto
  <2>2. pc'[d] \notin Deploying \cup {"transition"}
    BY <1>1, Values DEF ReadProfile, Goto, Deploying
  <2> QED
    BY <2>1, <2>2, RunWaits, Values
<1>2. ASSUME NEW d \in Deployer, Observe(d) PROVE RunInv'
  <2>1. UNCHANGED <<profile, backend>> /\ (lock' # None \/ UNCHANGED <<lock, failed>>)
        /\ \A b \in Actor \ {d} : pc'[b] = pc[b] /\ job'[b] = job[b]
    BY <1>2, Values DEF Observe, Goto
  <2>2. pc'[d] \notin Deploying \cup {"transition"}
    BY <1>2, Values DEF Observe, Goto, Deploying
  <2> QED
    BY <2>1, <2>2, RunWaits, Values
<1>3. ASSUME NEW d \in Deployer, CheckPrevious(d) PROVE RunInv'
  <2>1. UNCHANGED <<profile, backend>> /\ (lock' # None \/ UNCHANGED <<lock, failed>>)
        /\ \A b \in Actor \ {d} : pc'[b] = pc[b] /\ job'[b] = job[b]
    BY <1>3, Values DEF CheckPrevious, Goto
  <2>2. pc'[d] \notin Deploying \cup {"transition"}
    BY <1>3, Values DEF CheckPrevious, Goto, Deploying
  <2> QED
    BY <2>1, <2>2, RunWaits, Values
<1>4. ASSUME NEW d \in Deployer, TakeLock(d) PROVE RunInv'
  <2>1. ServesOrReported'
    BY <1>4, Values DEF TakeLock, ServesOrReported
  <2>2. job'[d].previous = job[d].previous /\ profile' = job[d].previous
    BY <1>4 DEF TakeLock, Local
  <2>3. ASSUME NEW b \in Actor PROVE RunOf(b)'
    <3>1. CASE b = d
      BY <1>4, <2>2, <3>1 DEF TakeLock, Goto, RunOf
    <3>2. CASE b # d
      BY <1>4, <3>2 DEF TakeLock, Goto, RunInv, RunOf, Deploying, Healthy, Serves
    <3> QED
      BY <3>1, <3>2
  <2> QED
    BY <2>1, <2>3 DEF RunInv
<1>5. ASSUME NEW d \in Deployer,
             CheckSettings(d) \/ UpPostgres(d) \/ StartMigration(d) \/ Migrated(d)
      PROVE  RunInv'
  <2>1. pc[d] \in Holding /\ lock' = lock
        /\ \A b \in Actor \ {d} : pc'[b] = pc[b] /\ job'[b] = job[b]
    BY <1>5, Values DEF CheckSettings, UpPostgres, StartMigration, Migrated,
       Holding, Goto
  <2>2. RunOf(d)'
    BY <1>5, Values DEF CheckSettings, UpPostgres, StartMigration, Migrated, Goto,
       RunInv, RunOf, Deploying, Healthy, Serves, GuestInv
  <2> QED
    BY <2>1, <2>2, RunGoes, Values
<1>6. ASSUME NEW d \in Deployer,
             SettingsFail(d) \/ StopMigrationFails(d) \/ RestoreFails(d)
             \/ StopCandidate(d)
      PROVE  RunInv'
  <2>1. profile' = profile /\ (lock = d \/ UNCHANGED backend)
    BY <1>6 DEF SettingsFail, StopMigrationFails, RestoreFails, StopCandidate,
       LockInv, Holding
  <2> QED
    BY <1>6, <2>1, RunEnds, Values DEF SettingsFail, StopMigrationFails,
       RestoreFails, StopCandidate
<1>7. ASSUME NEW d \in Deployer,
             UpPostgresFails(d) \/ MigrationNotStarted(d) \/ MigrationFails(d)
             \/ UpBackendFails(d)
      PROVE  RunInv'
  <2>1. lock = d /\ pc[d] \in Holding
    BY <1>7 DEF UpPostgresFails, MigrationNotStarted, MigrationFails,
       UpBackendFails, LockInv, Holding
  <2>2. CASE Finish(d, TRUE)
    BY <1>7, <2>1, <2>2, RunEnds, Values DEF UpPostgresFails, MigrationNotStarted,
       MigrationFails, UpBackendFails
  <2>3. CASE Goto(d, "rollback") /\ UNCHANGED <<owner, job>>
    <3>1. pc' = [pc EXCEPT ![d] = "rollback"] /\ job' = job /\ lock' = lock /\ profile' = profile
      BY <1>7, <2>3 DEF UpPostgresFails, MigrationNotStarted, MigrationFails,
         UpBackendFails, Goto
    <3>2. RunOf(d)'
      BY <1>7, <3>1 DEF UpPostgresFails, MigrationNotStarted, MigrationFails,
         UpBackendFails, RunInv, RunOf, Deploying
    <3> QED
      BY <2>1, <3>1, <3>2, RunGoes, Values
  <2> QED
    BY <1>7, <2>2, <2>3 DEF UpPostgresFails, MigrationNotStarted, MigrationFails,
       UpBackendFails, Abort
<1>8. ASSUME NEW d \in Deployer,
             UpBackend(d) \/ CheckCandidate(d) \/ Save(d) \/ SaveFails(d)
      PROVE  RunInv'
  <2>1. pc[d] \in Holding /\ lock' = lock
        /\ \A b \in Actor \ {d} : pc'[b] = pc[b] /\ job'[b] = job[b]
    BY <1>8, Values DEF UpBackend, CheckCandidate, Save, SaveFails, Holding, Goto
  <2>2. RunOf(d)'
    BY <1>8, Values DEF UpBackend, CheckCandidate, Save, SaveFails, Goto, RunInv,
       RunOf, Deploying, Healthy, Serves, GuestInv
  <2> QED
    BY <2>1, <2>2, RunGoes, Values
<1>9. ASSUME NEW d \in Deployer, CheckFails(d) PROVE RunInv'
  <2>1. lock = d /\ pc[d] \in Holding
    BY <1>9 DEF CheckFails, LockInv, Holding
  <2>2. CASE Finish(d, TRUE)
    BY <1>9, <2>1, <2>2, RunEnds, Values DEF CheckFails
  <2>3. CASE Goto(d, "rollback") /\ UNCHANGED <<owner, job>>
    <3>1. pc' = [pc EXCEPT ![d] = "rollback"] /\ job' = job /\ lock' = lock /\ profile' = profile
      BY <1>9, <2>3 DEF CheckFails, Goto
    <3>2. RunOf(d)'
      BY <1>9, <3>1 DEF CheckFails, RunInv, RunOf, Deploying
    <3> QED
      BY <2>1, <3>1, <3>2, RunGoes, Values
  <2> QED
    BY <1>9, <2>2, <2>3 DEF CheckFails, Abort
<1>10. ASSUME NEW d \in Deployer, Deployed(d) PROVE RunInv'
  <2>1. lock = d /\ profile' = profile /\ Serves'
    BY <1>10 DEF Deployed, LockInv, Holding, RunInv, RunOf, Deploying, Healthy, Serves,
       Upped
  <2> QED
    BY <1>10, <2>1, RunEnds, Values DEF Deployed
<1>11. ASSUME NEW d \in Deployer, StopMigration(d) PROVE RunInv'
  <2>1. pc[d] \in Holding /\ lock' = lock
        /\ \A b \in Actor \ {d} : pc'[b] = pc[b] /\ job'[b] = job[b]
    BY <1>11, Values DEF StopMigration, Holding, Goto
  <2>2. RunOf(d)'
    BY <1>11, Values DEF StopMigration, Goto, RunInv, RunOf, Deploying, Healthy, Serves,
       GuestInv
  <2> QED
    BY <2>1, <2>2, RunGoes, Values
<1>12. ASSUME NEW d \in Deployer, RolledBack(d) PROVE RunInv'
  <2>1. lock = d /\ profile' = profile /\ Serves'
    BY <1>12 DEF RolledBack, LockInv, Holding, RunInv, RunOf, Deploying, Healthy, Serves,
       Upped
  <2> QED
    BY <1>12, <2>1, RunEnds, Values DEF RolledBack
<1>13. ASSUME NEW d \in Deployer, StopCandidateFails(d) PROVE RunInv'
  <2>1. profile' = profile /\ (lock = d \/ UNCHANGED backend)
    BY <1>13 DEF StopCandidateFails, LockInv, Holding
  <2> QED
    BY <1>13, <2>1, RunEnds, Values DEF StopCandidateFails
<1>14. ASSUME NEW a \in Caller,
             Schedule(a) \/ BeginCapture(a)
      PROVE  RunInv'
  <2>1. UNCHANGED <<profile, backend>> /\ (lock' # None \/ UNCHANGED <<lock, failed>>)
        /\ \A b \in Actor \ {a} : pc'[b] = pc[b] /\ job'[b] = job[b]
    BY <1>14, Values DEF Schedule, BeginCapture, Goto
  <2>2. pc'[a] \notin Deploying \cup {"transition"}
    BY <1>14, Values DEF Schedule, BeginCapture, Goto, Deploying
  <2> QED
    BY <2>1, <2>2, RunWaits, Values
<1>15. ASSUME NEW a \in Caller,
             StopBackend(a) \/ Dump(a) \/ CaptureFax(a) \/ CaptureFails(a)
      PROVE  RunInv'
  <2>1. pc[a] \in Holding /\ lock' = lock
        /\ \A b \in Actor \ {a} : pc'[b] = pc[b] /\ job'[b] = job[b]
    BY <1>15, Values DEF StopBackend, Dump, CaptureFax, CaptureFails, Holding, Goto
  <2>2. RunOf(a)'
    BY <1>15, Values DEF StopBackend, Dump, CaptureFax, CaptureFails, Goto, RunInv,
       RunOf, Deploying, Healthy, Serves, GuestInv
  <2> QED
    BY <2>1, <2>2, RunGoes, Values
<1>16. ASSUME NEW a \in Caller,
             StopUnconfirmed(a) \/ CaptureUnknown(a) \/ RestartFails(a)
      PROVE  RunInv'
  <2>1. profile' = profile /\ (lock = a \/ UNCHANGED backend)
    BY <1>16 DEF StopUnconfirmed, CaptureUnknown, RestartFails, LockInv, Holding
  <2> QED
    BY <1>16, <2>1, RunEnds, Values DEF StopUnconfirmed, CaptureUnknown,
       RestartFails
<1>17. ASSUME NEW a \in Caller, Restart(a) PROVE RunInv'
  <2>1. lock = a /\ pc[a] \in Holding
    BY <1>17 DEF Restart, LockInv, Holding
  <2>2. CASE job[a].ok
    <3>1. pc' = [pc EXCEPT ![a] = "transition"] /\ job' = job /\ lock' = lock
      BY <1>17, <2>2 DEF Restart, Goto
    <3>2. RunOf(a)'
      BY <1>17, <3>1 DEF Restart, RunOf, Deploying, Upped, Healthy, Serves, GuestInv
    <3> QED
      BY <2>1, <3>1, <3>2, RunGoes
  <2>3. CASE ~job[a].ok
    BY <1>17, <2>1, <2>3, RunEnds DEF Restart
  <2> QED
    BY <2>2, <2>3
<1>18. ASSUME NEW a \in Caller, Transition(a) PROVE RunInv'
  <2>1. Healthy(profile) /\ UNCHANGED <<profile, backend>>
    BY <1>18 DEF Transition, RunInv, RunOf, ProfileInv, ProfileOf, Capturing,
       Healthy, Serves
  <2>2. ServesOrReported'
    BY <2>1 DEF ServesOrReported, Healthy, Serves
  <2>3. ASSUME NEW b \in Actor PROVE RunOf(b)'
    <3>1. CASE b = a
      BY <1>18, <3>1 DEF Transition, Goto, RunOf, Deploying
    <3>2. CASE b # a
      BY <1>18, <2>1, <3>2 DEF Transition, Goto, RunInv, RunOf, Deploying, Healthy, Serves
    <3> QED
      BY <3>1, <3>2
  <2> QED
    BY <2>2, <2>3 DEF RunInv
<1>19. ASSUME NEW a \in Caller, Verify(a) PROVE RunInv'
  <2>1. CASE a = Timer
    <3>1. lock # a
      BY <1>19 DEF Verify, LockInv, Holding
    <3> QED
      BY <1>19, <2>1, <3>1, RunEnds DEF Verify
  <2>2. CASE a # Timer
    BY <1>19, <2>2, RunWaits DEF Verify, Goto, Deploying
  <2> QED
    BY <2>1, <2>2
<1>20. ASSUME NEW a \in Actor,
             Fails(a) \/ Kill(a)
      PROVE  RunInv'
  <2>1. profile' = profile /\ (lock = a \/ UNCHANGED backend)
    BY <1>20 DEF Fails, Kill, LockInv, Holding
  <2> QED
    BY <1>20, <2>1, RunEnds, Values DEF Fails, Kill
<1>21. CASE StartBackup
  <2>1. UNCHANGED <<profile, backend>> /\ (lock' # None \/ UNCHANGED <<lock, failed>>)
        /\ \A b \in Actor \ {Timer} : pc'[b] = pc[b] /\ job'[b] = job[b]
    BY <1>21, Values DEF StartBackup, Goto
  <2>2. pc'[Timer] \notin Deploying \cup {"transition"}
    BY <1>21, Values DEF StartBackup, Goto, Deploying
  <2> QED
    BY <2>1, <2>2, RunWaits, Values
<1>22. CASE StartPurge
  <2>1. UNCHANGED <<profile, backend>> /\ (lock' # None \/ UNCHANGED <<lock, failed>>)
        /\ \A b \in Actor \ {Purger} : pc'[b] = pc[b] /\ job'[b] = job[b]
    BY <1>22, Values DEF StartPurge, Goto
  <2>2. pc'[Purger] \notin Deploying \cup {"transition"}
    BY <1>22, Values DEF StartPurge, Goto, Deploying
  <2> QED
    BY <2>1, <2>2, RunWaits, Values
<1>23. CASE CreateRetention \/ AwaitRetention
  <2>1. pc[Purger] \in Holding /\ lock' = lock
        /\ \A b \in Actor \ {Purger} : pc'[b] = pc[b] /\ job'[b] = job[b]
    BY <1>23, Values DEF CreateRetention, AwaitRetention, Holding, Goto
  <2>2. RunOf(Purger)'
    BY <1>23, Values DEF CreateRetention, AwaitRetention, Goto, RunInv, RunOf,
       Deploying, Healthy, Serves, GuestInv
  <2> QED
    BY <2>1, <2>2, RunGoes, Values
<1>24. CASE CreateFails \/ RetentionUnknown
  <2>1. profile' = profile /\ (lock = Purger \/ UNCHANGED backend)
    BY <1>24 DEF CreateFails, RetentionUnknown, LockInv, Holding
  <2> QED
    BY <1>24, <2>1, RunEnds, Values DEF CreateFails, RetentionUnknown
<1>25. CASE RemoveRetention
  <2>1. lock = Purger /\ UNCHANGED <<profile, backend>>
    BY <1>25 DEF RemoveRetention, LockInv, Holding
  <2>2. CASE Healthy(profile) /\ Finish(Purger, FALSE)
    BY <2>1, <2>2, RunEnds DEF Healthy, Serves
  <2>3. CASE Finish(Purger, TRUE)
    BY <2>1, <2>3, RunEnds
  <2> QED
    BY <1>25, <2>2, <2>3 DEF RemoveRetention
<1>26. CASE BackendWrites \/ RetentionWrites \/ RetentionEnds \/ MigrationApplies
  BY <1>26 DEF BackendWrites, RetentionWrites, RetentionEnds, MigrationApplies,
     RunInv, ServesOrReported, RunOf, Deploying, Healthy, Serves
<1>27. CASE MigrationEnds
  BY <1>27 DEF MigrationEnds, RunInv, ServesOrReported, RunOf, Deploying, Healthy, Serves
<1>28. CASE UNCHANGED vars
  BY <1>28 DEF vars, RunInv, ServesOrReported, RunOf, Deploying, Healthy, Serves
<1> QED
  BY <1>1, <1>2, <1>3, <1>4, <1>5, <1>6, <1>7, <1>8, <1>9, <1>10, <1>11, <1>12,
     <1>13, <1>14, <1>15, <1>16, <1>17, <1>18, <1>19, <1>20, <1>21, <1>22, <1>23,
     <1>24, <1>25, <1>26, <1>27, <1>28
     DEF Next, DeployStep, BackupStep, PurgeStep, ContainerStep

EndsSettled ==
  lock \in Deployer /\ lock' = None /\ pc[lock] # "transition" /\ ~failed'
    => "migration" \notin running'

MigratesBackedUp ==
  "migration" \notin running /\ "migration" \in running' /\ profile # None
    => snapshot # None /\ (snapshot.quiet => snapshot.schema = schema)

LEMMA Unsuccessful ==
  ASSUME LockInv, LocalInv, NEW a \in Actor, Finish(a, TRUE)
  PROVE  lock' = lock \/ (lock = a /\ failed')
  BY Ended, Reported

(* Besides a stored pair, a deploy and a rollback end the lock in success. *)
LEMMA SettledByEnd ==
  ASSUME IInv, [Next]_vars
  PROVE  EndsSettled
<1> USE Values DEF EndsSettled, IInv, LockInv, LocalInv, guest, docker, owner,
            records
<1>1. ASSUME NEW d \in Deployer,
             ReadProfile(d) \/ Observe(d) \/ CheckPrevious(d) \/ TakeLock(d)
             \/ CheckSettings(d) \/ UpPostgres(d) \/ StartMigration(d)
             \/ Migrated(d)
      PROVE  EndsSettled
  BY <1>1 DEF ReadProfile, NoJob, Observe, MayProceed, CheckPrevious, Healthy,
       TakeLock, CheckSettings, UpPostgres, StartMigration, Migrated
<1>2. ASSUME NEW d \in Deployer,
             SettingsFail(d) \/ StopMigrationFails(d) \/ RestoreFails(d)
             \/ StopCandidate(d) \/ StopCandidateFails(d)
      PROVE  EndsSettled
  BY <1>2, Unsuccessful DEF SettingsFail, StopMigrationFails, RestoreFails,
       StopCandidate, StopCandidateFails
<1>3. ASSUME NEW d \in Deployer,
             UpPostgresFails(d) \/ MigrationNotStarted(d) \/ MigrationFails(d)
             \/ UpBackendFails(d) \/ CheckFails(d)
      PROVE  EndsSettled
  BY <1>3, Unsuccessful DEF UpPostgresFails, Abort, MigrationNotStarted,
       MigrationFails, UpBackendFails, CheckFails
<1>4. ASSUME NEW d \in Deployer,
             UpBackend(d) \/ CheckCandidate(d) \/ Save(d) \/ SaveFails(d)
             \/ StopMigration(d)
      PROVE  EndsSettled
  BY <1>4 DEF UpBackend, CheckCandidate, Save, SaveFails, StopMigration
<1>5. ASSUME NEW d \in Deployer, Deployed(d) PROVE EndsSettled
  BY <1>5 DEF Deployed, SettledInv, SettledOf, Captured
<1>6. ASSUME NEW d \in Deployer, RolledBack(d) PROVE EndsSettled
  BY <1>6 DEF RolledBack, SettledInv, SettledOf, Captured
<1>7. ASSUME NEW a \in Caller,
             Schedule(a) \/ BeginCapture(a) \/ StopBackend(a) \/ Dump(a)
             \/ CaptureFax(a) \/ CaptureFails(a)
      PROVE  EndsSettled
  BY <1>7 DEF Schedule, BeginCapture, StopBackend, Dump, CaptureFax, CaptureFails
<1>8. ASSUME NEW a \in Caller,
             StopUnconfirmed(a) \/ CaptureUnknown(a) \/ RestartFails(a)
      PROVE  EndsSettled
  BY <1>8, Unsuccessful DEF StopUnconfirmed, CaptureUnknown, RestartFails
<1>9. ASSUME NEW a \in Caller, Restart(a) PROVE EndsSettled
  <2>1. CASE job[a].ok
    BY <1>9, <2>1 DEF Restart
  <2> QED
    BY <1>9, <2>1, Unsuccessful DEF Restart
<1>10. ASSUME NEW a \in Caller, Transition(a) PROVE EndsSettled
  BY <1>10 DEF Transition, Holding
<1>11. ASSUME NEW a \in Caller, Verify(a) PROVE EndsSettled
  <2>1. lock # a
    BY <1>11 DEF Verify, LockInv, Holding
  <2>2. lock' = lock
    BY <1>11, <2>1, Ended DEF Verify
  <2> QED
    BY <2>2
<1>12. ASSUME NEW a \in Actor, Fails(a) PROVE EndsSettled
  BY <1>12, Unsuccessful DEF Fails
<1>13. ASSUME NEW a \in Actor, Kill(a) PROVE EndsSettled
  BY <1>13, Unsuccessful DEF Kill
<1>14. CASE StartBackup \/ StartPurge \/ CreateRetention \/ AwaitRetention
            \/ BackendWrites \/ RetentionWrites \/ RetentionEnds \/ MigrationApplies
  BY <1>14 DEF StartBackup, StartPurge, CreateRetention, AwaitRetention,
       BackendWrites, RetentionWrites, RetentionEnds, MigrationApplies
<1>15. CASE CreateFails \/ RetentionUnknown
  BY <1>15, Unsuccessful DEF CreateFails, RetentionUnknown
<1>16. CASE RemoveRetention
  BY <1>16 DEF RemoveRetention, LockInv, Holding
<1>17. CASE MigrationEnds
  BY <1>17 DEF MigrationEnds
<1>18. CASE UNCHANGED vars
  BY <1>18 DEF vars
<1> QED
  BY <1>1, <1>2, <1>3, <1>4, <1>5, <1>6, <1>7, <1>8, <1>9, <1>10, <1>11, <1>12,
     <1>13, <1>14, <1>15, <1>16, <1>17, <1>18
     DEF Next, DeployStep, BackupStep, PurgeStep, ContainerStep

(* Only a deploy starts a migration, and it is early in it.                *)
LEMMA MigrationBackedUp ==
  ASSUME IInv, [Next]_vars
  PROVE  MigratesBackedUp
<1> USE Values DEF MigratesBackedUp, IInv, LockInv, LocalInv, guest, docker, owner,
            records
<1>1. ASSUME NEW d \in Deployer,
             ReadProfile(d) \/ Observe(d) \/ CheckPrevious(d) \/ TakeLock(d)
      PROVE  MigratesBackedUp
  BY <1>1 DEF ReadProfile, NoJob, Observe, MayProceed, CheckPrevious, Healthy,
       TakeLock
<1>2. ASSUME NEW d \in Deployer,
             CheckSettings(d) \/ SettingsFail(d) \/ UpPostgres(d)
             \/ UpPostgresFails(d)
      PROVE  MigratesBackedUp
  BY <1>2 DEF CheckSettings, SettingsFail, UpPostgres, UpPostgresFails, Abort
<1>3. ASSUME NEW d \in Deployer, StartMigration(d) PROVE MigratesBackedUp
  <2>1. profile # None => snapshot \in Pair /\ (snapshot.quiet => snapshot.schema = schema)
    BY <1>3 DEF StartMigration, ProfileInv, ProfileOf, FreshInv, SafeOf, Early,
       Restorable
  <2> QED
    BY <2>1
<1>4. ASSUME NEW d \in Deployer,
             MigrationNotStarted(d) \/ Migrated(d) \/ MigrationFails(d)
             \/ UpBackend(d)
      PROVE  MigratesBackedUp
  BY <1>4 DEF MigrationNotStarted, Abort, Migrated, MigrationFails, UpBackend
<1>5. ASSUME NEW d \in Deployer,
             UpBackendFails(d) \/ CheckCandidate(d) \/ CheckFails(d) \/ Save(d)
      PROVE  MigratesBackedUp
  BY <1>5 DEF UpBackendFails, Abort, CheckCandidate, CheckFails, Save
<1>6. ASSUME NEW d \in Deployer,
             SaveFails(d) \/ Deployed(d) \/ StopMigration(d)
             \/ StopMigrationFails(d)
      PROVE  MigratesBackedUp
  BY <1>6 DEF SaveFails, Deployed, StopMigration, StopMigrationFails
<1>7. ASSUME NEW d \in Deployer,
             RolledBack(d) \/ RestoreFails(d) \/ StopCandidate(d)
             \/ StopCandidateFails(d)
      PROVE  MigratesBackedUp
  BY <1>7 DEF RolledBack, RestoreFails, StopCandidate, StopCandidateFails
<1>8. ASSUME NEW a \in Caller,
             Schedule(a) \/ BeginCapture(a) \/ StopBackend(a) \/ StopUnconfirmed(a)
      PROVE  MigratesBackedUp
  BY <1>8 DEF Schedule, BeginCapture, StopBackend, StopUnconfirmed
<1>9. ASSUME NEW a \in Caller,
             Dump(a) \/ CaptureFax(a) \/ CaptureFails(a) \/ CaptureUnknown(a)
      PROVE  MigratesBackedUp
  BY <1>9 DEF Dump, CaptureFax, CaptureFails, CaptureUnknown
<1>10. ASSUME NEW a \in Caller,
             Restart(a) \/ RestartFails(a) \/ Transition(a) \/ Verify(a)
      PROVE  MigratesBackedUp
  BY <1>10 DEF Restart, RestartFails, Transition, Verify
<1>11. ASSUME NEW a \in Actor, Fails(a) \/ Kill(a) PROVE MigratesBackedUp
  BY <1>11 DEF Fails, Kill
<1>12. CASE StartBackup \/ StartPurge \/ AwaitRetention \/ RemoveRetention
  BY <1>12 DEF StartBackup, StartPurge, AwaitRetention, RemoveRetention
<1>13. CASE CreateRetention
  <2>1. running' \subseteq running \cup {"retention"}
    BY <1>13 DEF CreateRetention
  <2> QED
    BY <2>1
<1>14. CASE CreateFails
  <2>1. running' \subseteq running \cup {"retention"}
    BY <1>14 DEF CreateFails
  <2> QED
    BY <2>1
<1>15. CASE RetentionUnknown \/ BackendWrites \/ RetentionWrites \/ RetentionEnds
  BY <1>15 DEF RetentionUnknown, BackendWrites, RetentionWrites, RetentionEnds
<1>16. CASE MigrationApplies \/ MigrationEnds
  BY <1>16 DEF MigrationApplies, MigrationEnds
<1>17. CASE UNCHANGED vars
  BY <1>17 DEF vars
<1> QED
  BY <1>1, <1>2, <1>3, <1>4, <1>5, <1>6, <1>7, <1>8, <1>9, <1>10, <1>11, <1>12,
     <1>13, <1>14, <1>15, <1>16, <1>17
     DEF Next, DeployStep, BackupStep, PurgeStep, ContainerStep

LEMMA InvInit == Init => IInv /\ RunInv
<1> SUFFICES ASSUME Init PROVE IInv /\ RunInv
  OBVIOUS
<1> USE Values DEF Init
<1>1. \A a \in Actor : pc[a] = "idle" /\ job[a] = NoJob
  OBVIOUS
<1>2. GuestInv
  <2>1. profile \in Release \cup {None} /\ volumes \in BOOLEAN /\ migrators \subseteq Release
    OBVIOUS
  <2>2. backend \in [release : Release \cup {None}, started : Nat, up : BOOLEAN]
    <3>1. [release |-> None, started |-> 0, up |-> FALSE] \in
            [release : Release \cup {None}, started : Nat, up : BOOLEAN]
      OBVIOUS
    <3>2. ASSUME NEW r \in Release
          PROVE  [release |-> r, started |-> 0, up |-> TRUE] \in
                   [release : Release \cup {None}, started : Nat, up : BOOLEAN]
      OBVIOUS
    <3> QED
      BY <3>1, <3>2
  <2>3. schema \in 0 .. MaxSchema /\ data \in 0 .. MaxWrites
    OBVIOUS
  <2> QED
    BY <2>1, <2>2, <2>3 DEF GuestInv
<1>3. LockInv
  BY <1>1 DEF LockInv, Holding
<1>4. LocalInv
  BY <1>1 DEF LocalInv, Well, Capturing, Purging
<1>5. RetentionAlone
  BY DEF RetentionAlone
<1>6. ProfileInv
  BY <1>1 DEF ProfileInv, ProfileOf, Capturing
<1>7. PairInv
  BY <1>1 DEF PairInv, PairOf, PairConsistent, Captured
<1>8. SettledInv
  BY <1>1 DEF SettledInv, SettledOf, Captured
<1>9. FreshInv
  BY <1>1 DEF FreshInv, FreshOf, SafeOf, Rivals, Backed, Early
<1>10. OwnerInv
  <2>1. OwnedBy(None)
    BY <1>1 DEF OwnedBy, OwnReport, OwnWork, Deploying
  <2> QED
    BY <2>1 DEF OwnerInv
<1>11. RunInv
  BY <1>1 DEF RunInv, ServesOrReported, Serves, RunOf, Deploying, Healthy
<1> QED
  BY <1>2, <1>3, <1>4, <1>5, <1>6, <1>7, <1>8, <1>9, <1>10, <1>11 DEF IInv

LEMMA InvStep == IInv /\ [Next]_vars => IInv'
<1> SUFFICES ASSUME IInv, [Next]_vars PROVE IInv'
  OBVIOUS
<1>1. GuestInv' /\ LockInv' /\ LocalInv'
  BY GuestStep, LockStep, LocalStep
<1>2. RetentionAlone' /\ ProfileInv' /\ PairInv' /\ SettledInv'
  BY RetentionStep, ProfileStep, PairStep, SettledStep
<1>3. FreshInv' /\ OwnerInv'
  BY FreshStep, OwnerStep
<1> QED
  BY <1>1, <1>2, <1>3 DEF IInv

(* The inductive invariant holds in every run.                             *)
THEOREM Invariance == Spec => []IInv
<1> USE DEF Spec
<1> QED
  BY InvInit, InvStep, PTL

(* TypeOK: what each variable may hold, what runs exists, and the lock     *)
(* belongs to the one process between taking it (acquire_lock) and letting *)
(* it go.                                                                  *)
THEOREM Typed == Spec => []TypeOK
<1>1. IInv => TypeOK
  BY Types DEF IInv
<1> QED
  BY <1>1, Invariance, PTL

(* RetentionAlone: a retention container, running or left unsettled, keeps *)
(* capture_pair and deploy out, because both look for it under the lock.   *)
THEOREM RetentionIsAlone == Spec => []RetentionAlone
<1>1. IInv => RetentionAlone
  BY DEF IInv
<1> QED
  BY <1>1, Invariance, PTL

(* PairConsistent: the database and the FAX files of every stored pair are *)
(* of one moment, however often backends, retentions and migrations ran    *)
(* between two captures.                                                   *)
THEOREM PairsConsistent == Spec => []PairConsistent
<1>1. IInv => PairConsistent
  BY DEF IInv, PairInv
<1> QED
  BY <1>1, Invariance, PTL

(* SuccessMeansSettled: deploy reports success, or a rollback, only after  *)
(* any migration it could have met has ended.                              *)
THEOREM SuccessIsSettled == Spec => SuccessMeansSettled
<1>1. IInv /\ [Next]_vars =>
        [\A d \in Deployer :
           lock = d /\ lock' = None /\ pc[d] # "transition" /\ ~failed'
             => "migration" \notin running']_vars
  BY SettledByEnd DEF EndsSettled
<1> QED
  BY <1>1, Invariance, PTL DEF Spec, SuccessMeansSettled

(* MigratedOnlyBackedUp: deploy starts a migration over recorded data only *)
(* after a backup, and the last one stored has the database as it is       *)
(* unless a migration left behind ran, without a session, beside its dump. *)
THEOREM OnlyBackedUpIsMigrated == Spec => MigratedOnlyBackedUp
<1>1. IInv /\ [Next]_vars => [MigratesBackedUp]_vars
  BY MigrationBackedUp
<1> QED
  BY <1>1, Invariance, PTL DEF Spec, MigratedOnlyBackedUp, MigratesBackedUp

(* FirstReleaseOnly: before a first release is recorded, the data belongs  *)
(* to one candidate, over any number of deploys, failures and recoveries.  *)
THEOREM OneFirstRelease == Spec => []FirstReleaseOnly
<1>1. IInv => FirstReleaseOnly
  <2> SUFFICES ASSUME IInv, profile = None PROVE Cardinality(migrators) <= 1
    BY DEF FirstReleaseOnly
  <2>1. PICK c \in Release \cup {None} : migrators \subseteq {c}
    BY DEF IInv, OwnerInv, OwnedBy
  <2>2. Cardinality({c}) = 1 /\ IsFiniteSet({c})
    BY FS_Singleton
  <2>3. Cardinality({}) = 0
    BY FS_EmptySet
  <2>4. migrators = {} \/ migrators = {c}
    BY <2>1
  <2> QED
    BY <2>2, <2>3, <2>4
<1> QED
  BY <1>1, Invariance, PTL

LEMMA RunInvariance == Spec => [](IInv /\ RunInv)
<1>1. IInv /\ RunInv /\ [Next]_vars => RunInv'
  BY RunStep
<1> QED
  BY <1>1, InvInit, Invariance, PTL DEF Spec

(* Signalled or not, at whatever moment: with the lock free and a release  *)
(* on record, the backend is up or the last operation reported its         *)
(* failure. A late signal may leave the wrong release up, never none.      *)
THEOREM UpOrReported ==
  Spec => [](lock = None /\ ~failed /\ profile # None => backend.up)
<1>1. RunInv => (lock = None /\ ~failed /\ profile # None => backend.up)
  BY DEF RunInv, ServesOrReported, Serves, Healthy
<1> QED
  BY <1>1, RunInvariance, PTL

(* RunningOrReported, of a guest whose deploys are not signalled between   *)
(* the replace in save and its return: with the lock free, the recorded    *)
(* release runs or the last operation reported its failure.                *)
THEOREM RunningIsRecorded == LateSignal = FALSE => (Spec => []RunningOrReported)
<1> SUFFICES ASSUME LateSignal = FALSE PROVE Spec => []RunningOrReported
  OBVIOUS
<1>1. RunInv => RunningOrReported
  BY DEF RunInv, ServesOrReported, Serves, RunningOrReported
<1> QED
  BY <1>1, RunInvariance, PTL

(* A process holds a pair from the dump to the store, whose FAX files are  *)
(* as they were at the dump until they are read; and what is about to be   *)
(* recorded is what runs.                                                  *)
HeldOf(a) ==
  /\ pc[a] \notin {"fax", "restart", "transition"} => job[a].pair = None
  /\ pc[a] = "fax" => job[a].pair \in Pair /\ job[a].pair.fax = data
  /\ pc[a] = "save" => Healthy(job[a].candidate)

HeldInv == \A a \in Actor : HeldOf(a)

(* Every release on record, in a container or to be restored has had its   *)
(* own migration run.                                                      *)
RanOf(a) ==
  /\ job[a].previous \in migrators \cup {None}
  /\ pc[a] \in {"migrating", "backend", "check", "save"} => job[a].candidate \in migrators

RanInv == /\ {profile, backend.release} \subseteq migrators \cup {None}
          /\ \A a \in Actor : RanOf(a)

(* compose up leaves the release it is asked for, or the one that was.     *)
LEMMA UppedRelease ==
  ASSUME GuestInv, NEW r \in Release \cup {None}
  PROVE  /\ Upped(r).release = r
         /\ \A left \in HalfUpped(r) : left.release \in {backend.release, r}
<1>1. Upped(r).release = r
  BY DEF Upped, Healthy
<1>2. [backend EXCEPT !.up = FALSE].release = backend.release
  BY DEF GuestInv
<1>3. [Upped(r) EXCEPT !.up = FALSE].release = Upped(r).release
  BY BackendType
<1> QED
  BY <1>1, <1>2, <1>3 DEF HalfUpped

(* What a deploy carries on its way to the lock.                           *)
LEMMA Carried ==
  ASSUME LocalInv, NEW d \in Deployer,
         ReadProfile(d) \/ Observe(d) \/ CheckPrevious(d) \/ TakeLock(d)
  PROVE  /\ job'[d].pair \in {job[d].pair, None}
         /\ job'[d].previous \in {job[d].previous, profile}
<1> USE Values DEF LocalInv
<1>1. CASE ReadProfile(d)
  <2>1. PICK c \in Release, r \in {None, recovery} :
          job' = [job EXCEPT ![d] = [NoJob EXCEPT !.candidate = c, !.recovery = r,
                                                 !.previous = profile]]
    BY <1>1 DEF ReadProfile
  <2>2. job'[d] = [NoJob EXCEPT !.candidate = c, !.recovery = r, !.previous = profile]
    BY <2>1
  <2> QED
    BY <2>2 DEF NoJob
<1>2. CASE Observe(d)
  <2>1. job'[d] = [job[d] EXCEPT !.before = Observation]
    BY <1>2 DEF Observe
  <2> QED
    BY <2>1 DEF Local
<1>3. CASE CheckPrevious(d)
  BY <1>3 DEF CheckPrevious
<1>4. CASE TakeLock(d)
  <2>1. job'[d] = [NoJob EXCEPT !.candidate = job[d].candidate, !.previous = job[d].previous]
    BY <1>4 DEF TakeLock
  <2> QED
    BY <2>1 DEF NoJob
<1> QED
  BY <1>1, <1>2, <1>3, <1>4

LEMMA HeldGoes ==
  ASSUME LockInv, HeldInv, NEW a \in Actor,
         pc[a] \in Holding \/ UNCHANGED <<backend, schema, data>>,
         \A b \in Actor \ {a} : pc'[b] = pc[b] /\ job'[b] = job[b],
         HeldOf(a)'
  PROVE  HeldInv'
<1> SUFFICES ASSUME NEW b \in Actor \ {a} PROVE HeldOf(b)'
  BY DEF HeldInv
<1>1. CASE pc[a] \in Holding
  <2>1. pc[b] \notin Capturing \cup Deploying
    BY <1>1, Exclusive
  <2> QED
    BY <2>1 DEF HeldInv, HeldOf, Capturing, Deploying
<1>2. CASE UNCHANGED <<backend, schema, data>>
  BY <1>2 DEF HeldInv, HeldOf, Healthy
<1> QED
  BY <1>1, <1>2

LEMMA HeldEnds ==
  ASSUME LockInv, LocalInv, HeldInv, NEW a \in Actor, Finish(a, TRUE) \/ Finish(a, FALSE),
         pc[a] \in Holding \/ UNCHANGED <<backend, schema, data>>
  PROVE  HeldInv'
<1>1. pc'[a] = "idle" /\ job'[a] = NoJob
  BY Ended
<1>2. HeldOf(a)'
  BY <1>1 DEF HeldOf, NoJob
<1> QED
  BY <1>2, Ended, HeldGoes

LEMMA RanGoes ==
  ASSUME RanInv, NEW a \in Actor, migrators \subseteq migrators',
         \A b \in Actor \ {a} : pc'[b] = pc[b] /\ job'[b] = job[b],
         {profile', backend'.release} \subseteq migrators' \cup {None}, RanOf(a)'
  PROVE  RanInv'
BY DEF RanInv, RanOf

LEMMA RanEnds ==
  ASSUME LockInv, LocalInv, RanInv, NEW a \in Actor, Finish(a, TRUE) \/ Finish(a, FALSE),
         profile' = profile, migrators' = migrators,
         backend'.release \in migrators \cup {None}
  PROVE  RanInv'
<1>1. pc'[a] = "idle" /\ job'[a] = NoJob
  BY Ended
<1>2. RanOf(a)'
  BY <1>1 DEF RanOf, NoJob
<1> QED
  BY <1>2, Ended, RanGoes DEF RanInv

LEMMA HeldStep ==
  ASSUME IInv, HeldInv, [Next]_vars
  PROVE  HeldInv'
<1> USE Values DEF IInv, LockInv, LocalInv, guest, docker, owner, records
<1>1. ASSUME NEW d \in Deployer,
             ReadProfile(d) \/ Observe(d) \/ CheckPrevious(d) \/ TakeLock(d)
      PROVE  HeldInv'
  <2>1. HeldOf(d)'
    <3>1. pc'[d] \in {"observe", "lock", "health", "schedule", "settings"}
      BY <1>1 DEF ReadProfile, Observe, CheckPrevious, TakeLock, Goto
    <3>2. pc[d] \in {"idle", "observe", "lock", "health"} /\ job[d].pair = None
      BY <1>1 DEF ReadProfile, Observe, CheckPrevious, TakeLock, HeldInv, HeldOf
    <3>3. job'[d].pair = None
      BY <1>1, <3>2, Carried
    <3> QED
      BY <3>1, <3>3 DEF HeldOf
  <2>2. UNCHANGED <<backend, schema, data>>
        /\ \A b \in Actor \ {d} : pc'[b] = pc[b] /\ job'[b] = job[b]
    BY <1>1 DEF ReadProfile, Observe, CheckPrevious, TakeLock, Goto
  <2> QED
    BY <2>1, <2>2, HeldGoes
<1>2. ASSUME NEW d \in Deployer,
             CheckSettings(d) \/ UpPostgres(d) \/ StartMigration(d) \/ Migrated(d)
             \/ UpBackend(d) \/ CheckCandidate(d) \/ Save(d) \/ SaveFails(d) \/ StopMigration(d)
      PROVE  HeldInv'
  <2>1. HeldOf(d)'
    BY <1>2 DEF CheckSettings, UpPostgres, StartMigration, Migrated, UpBackend, CheckCandidate,
       Save, SaveFails, StopMigration, Goto, HeldInv, HeldOf, Healthy
  <2>2. pc[d] \in Holding /\ \A b \in Actor \ {d} : pc'[b] = pc[b] /\ job'[b] = job[b]
    BY <1>2 DEF CheckSettings, UpPostgres, StartMigration, Migrated, UpBackend, CheckCandidate,
       Save, SaveFails, StopMigration, Goto, Holding
  <2> QED
    BY <2>1, <2>2, HeldGoes
<1>3. ASSUME NEW d \in Deployer,
             UpPostgresFails(d) \/ MigrationNotStarted(d) \/ MigrationFails(d)
             \/ UpBackendFails(d) \/ CheckFails(d)
      PROVE  HeldInv'
  <2>1. pc[d] \in Holding /\ pc[d] \notin {"fax", "restart", "transition"} /\ Abort(d)
    BY <1>3 DEF UpPostgresFails, MigrationNotStarted, MigrationFails, UpBackendFails, CheckFails,
       Holding
  <2>2. CASE Finish(d, TRUE)
    BY <2>1, <2>2, HeldEnds
  <2>3. CASE Goto(d, "rollback") /\ UNCHANGED <<owner, job>>
    <3>1. HeldOf(d)'
      BY <2>1, <2>3 DEF Goto, HeldInv, HeldOf
    <3> QED
      BY <2>1, <2>3, <3>1, HeldGoes DEF Goto
  <2> QED
    BY <2>1, <2>2, <2>3 DEF Abort
<1>4. ASSUME NEW d \in Deployer,
             SettingsFail(d) \/ Deployed(d) \/ StopMigrationFails(d) \/ RolledBack(d)
             \/ RestoreFails(d) \/ StopCandidate(d) \/ StopCandidateFails(d)
      PROVE  HeldInv'
  <2>1. pc[d] \in Holding /\ (Finish(d, TRUE) \/ Finish(d, FALSE))
    BY <1>4 DEF SettingsFail, Deployed, StopMigrationFails, RolledBack, RestoreFails,
       StopCandidate, StopCandidateFails, Holding
  <2> QED
    BY <2>1, HeldEnds
<1>5. ASSUME NEW a \in Caller,
             Schedule(a) \/ BeginCapture(a) \/ StopBackend(a)
      PROVE  HeldInv'
  <2>1. HeldOf(a)'
    BY <1>5 DEF Schedule, BeginCapture, StopBackend, Goto, HeldInv, HeldOf, Local
  <2>2. pc[a] \in Holding \/ UNCHANGED <<backend, schema, data>>
    BY <1>5 DEF Schedule, BeginCapture, StopBackend, Holding
  <2>3. \A b \in Actor \ {a} : pc'[b] = pc[b] /\ job'[b] = job[b]
    BY <1>5 DEF Schedule, BeginCapture, StopBackend, Goto
  <2> QED
    BY <2>1, <2>2, <2>3, HeldGoes
<1>6. ASSUME NEW a \in Caller, Dump(a)
      PROVE  HeldInv'
  <2>5. [schema |-> schema, db |-> data, fax |-> data,
          quiet |-> "migration" \notin running] \in Pair
    BY DEF Pair, GuestInv
  <2>1. job'[a].pair \in Pair /\ job'[a].pair.fax = data
    BY <1>6, <2>5 DEF Dump, Local
  <2>2. pc'[a] = "fax" /\ UNCHANGED <<schema, data, backend>>
    BY <1>6 DEF Dump, Goto
  <2>3. HeldOf(a)'
    BY <2>1, <2>2 DEF HeldOf
  <2>4. \A b \in Actor \ {a} : pc'[b] = pc[b] /\ job'[b] = job[b]
    BY <1>6 DEF Dump, Goto
  <2> QED
    BY <2>2, <2>3, <2>4, HeldGoes
<1>7. ASSUME NEW a \in Caller, CaptureFax(a) \/ CaptureFails(a)
      PROVE  HeldInv'
  <2>1. HeldOf(a)'
    BY <1>7 DEF CaptureFax, CaptureFails, Goto, HeldOf
  <2>2. UNCHANGED <<schema, data, backend>>
        /\ \A b \in Actor \ {a} : pc'[b] = pc[b] /\ job'[b] = job[b]
    BY <1>7 DEF CaptureFax, CaptureFails, Goto
  <2> QED
    BY <2>1, <2>2, HeldGoes
<1>8. ASSUME NEW a \in Caller, StopUnconfirmed(a) \/ CaptureUnknown(a) \/ RestartFails(a)
      PROVE  HeldInv'
  <2>1. pc[a] \in Holding /\ Finish(a, TRUE)
    BY <1>8 DEF StopUnconfirmed, CaptureUnknown, RestartFails, Holding
  <2> QED
    BY <2>1, HeldEnds
<1>9. ASSUME NEW a \in Caller, Restart(a)
      PROVE  HeldInv'
  <2>1. pc[a] \in Holding
    BY <1>9 DEF Restart, Holding
  <2>2. CASE job[a].ok
    <3>1. HeldOf(a)'
      BY <1>9, <2>2 DEF Restart, Goto, HeldOf
    <3> QED
      BY <1>9, <2>1, <2>2, <3>1, HeldGoes DEF Restart, Goto
  <2>3. CASE ~job[a].ok
    BY <1>9, <2>1, <2>3, HeldEnds DEF Restart
  <2> QED
    BY <2>2, <2>3
<1>10. ASSUME NEW a \in Caller, Transition(a)
      PROVE  HeldInv'
  <2>1. HeldOf(a)'
    BY <1>10 DEF Transition, Goto, HeldOf, Local
  <2>2. UNCHANGED <<schema, data, backend>>
        /\ \A b \in Actor \ {a} : pc'[b] = pc[b] /\ job'[b] = job[b]
    BY <1>10 DEF Transition, Goto
  <2> QED
    BY <2>1, <2>2, HeldGoes
<1>11. ASSUME NEW a \in Caller, Verify(a)
      PROVE  HeldInv'
  <2>1. UNCHANGED <<schema, data, backend>>
    BY <1>11 DEF Verify
  <2>2. CASE a = Timer /\ Finish(a, FALSE)
    BY <2>1, <2>2, HeldEnds
  <2>3. CASE a # Timer
    <3>1. HeldOf(a)'
      BY <1>11, <2>3 DEF Verify, Goto, HeldInv, HeldOf, Local
    <3> QED
      BY <1>11, <2>1, <2>3, <3>1, HeldGoes DEF Verify, Goto
  <2> QED
    BY <1>11, <2>2, <2>3 DEF Verify
<1>12. ASSUME NEW a \in Actor, Fails(a) \/ Kill(a)
      PROVE  HeldInv'
  BY <1>12, HeldEnds DEF Fails, Kill
<1>13. CASE StartBackup \/ StartPurge \/ CreateRetention \/ AwaitRetention
  <2>1. UNCHANGED <<schema, data, backend>>
    BY <1>13 DEF StartBackup, StartPurge, CreateRetention, AwaitRetention
  <2>2. CASE StartBackup
    <3>1. HeldOf(Timer)'
      BY <2>2 DEF StartBackup, Goto, HeldInv, HeldOf
    <3> QED
      BY <2>1, <2>2, <3>1, HeldGoes DEF StartBackup, Goto
  <2>3. CASE StartPurge \/ CreateRetention \/ AwaitRetention
    <3>1. HeldOf(Purger)'
      BY <2>3 DEF StartPurge, CreateRetention, AwaitRetention, Goto, HeldInv, HeldOf, Local
    <3>2. \A b \in Actor \ {Purger} : pc'[b] = pc[b] /\ job'[b] = job[b]
      BY <2>3 DEF StartPurge, CreateRetention, AwaitRetention, Goto
    <3> QED
      BY <2>1, <3>1, <3>2, HeldGoes
  <2> QED
    BY <1>13, <2>2, <2>3
<1>14. CASE CreateFails \/ RemoveRetention \/ RetentionUnknown
  <2>1. UNCHANGED <<schema, data, backend>> /\ (Finish(Purger, TRUE) \/ Finish(Purger, FALSE))
    BY <1>14 DEF CreateFails, RemoveRetention, RetentionUnknown
  <2> QED
    BY <2>1, HeldEnds
<1>15. CASE BackendWrites \/ RetentionWrites
  <2>1. \A b \in Actor : pc[b] # "fax"
    BY <1>15 DEF BackendWrites, RetentionWrites, RetentionAlone, GuestInv,
       Holding, Well, Purging, PairInv, PairOf
  <2> QED
    BY <1>15, <2>1 DEF BackendWrites, RetentionWrites, HeldInv, HeldOf, Healthy
<1>16. CASE MigrationApplies
  BY <1>16 DEF MigrationApplies, HeldInv, HeldOf, Healthy
<1>17. CASE RetentionEnds \/ MigrationEnds \/ UNCHANGED vars
  BY <1>17 DEF RetentionEnds, MigrationEnds, vars, HeldInv, HeldOf, Healthy
<1> QED
  BY <1>1, <1>2, <1>3, <1>4, <1>5, <1>6, <1>7, <1>8, <1>9, <1>10, <1>11, <1>12,
     <1>13, <1>14, <1>15, <1>16, <1>17
     DEF Next, DeployStep, BackupStep, PurgeStep, ContainerStep

LEMMA RanStep ==
  ASSUME IInv, RanInv, [Next]_vars
  PROVE  RanInv'
<1> USE Values DEF IInv, LockInv, LocalInv, guest, docker, owner, records
<1>1. ASSUME NEW d \in Deployer,
             ReadProfile(d) \/ Observe(d) \/ CheckPrevious(d) \/ TakeLock(d)
      PROVE  RanInv'
  <2>1. RanOf(d)'
    <3>1. pc'[d] \in {"observe", "lock", "health", "schedule", "settings"}
      BY <1>1 DEF ReadProfile, Observe, CheckPrevious, TakeLock, Goto
    <3>2. job'[d].previous \in {profile, job[d].previous}
      BY <1>1, Carried
    <3>3. migrators' = migrators
      BY <1>1 DEF ReadProfile, Observe, CheckPrevious, TakeLock
    <3> QED
      BY <3>1, <3>2, <3>3 DEF RanInv, RanOf
  <2>2. UNCHANGED <<profile, backend, migrators>>
        /\ \A b \in Actor \ {d} : pc'[b] = pc[b] /\ job'[b] = job[b]
    BY <1>1 DEF ReadProfile, Observe, CheckPrevious, TakeLock, Goto
  <2> QED
    BY <2>1, <2>2, RanGoes DEF RanInv
<1>2. ASSUME NEW d \in Deployer,
             CheckSettings(d) \/ UpPostgres(d) \/ StartMigration(d) \/ Migrated(d)
             \/ UpBackend(d) \/ CheckCandidate(d) \/ Save(d) \/ SaveFails(d) \/ StopMigration(d)
      PROVE  RanInv'
  <2>1. job' = job /\ migrators \subseteq migrators'
        /\ \A b \in Actor \ {d} : pc'[b] = pc[b]
    BY <1>2 DEF CheckSettings, UpPostgres, StartMigration, Migrated, UpBackend, CheckCandidate,
       Save, SaveFails, StopMigration, Goto
  <2>2. pc[d] \in {"migrating", "backend", "check", "save"} \/ ~ pc'[d] \in {"migrating", "backend", "check", "save"}
        \/ job[d].candidate \in migrators'
    BY <1>2 DEF CheckSettings, UpPostgres, StartMigration, Migrated, UpBackend, CheckCandidate,
       Save, SaveFails, StopMigration, Goto
  <2>3. RanOf(d)'
    BY <2>1, <2>2 DEF RanInv, RanOf
  <2>4. profile' = profile \/ (pc[d] = "save" /\ profile' = job[d].candidate)
    BY <1>2 DEF CheckSettings, UpPostgres, StartMigration, Migrated, UpBackend, CheckCandidate,
       Save, SaveFails, StopMigration
  <2>5. backend'.release = backend.release \/ (pc[d] = "backend" /\ backend'.release = job[d].candidate)
    BY <1>2 DEF CheckSettings, UpPostgres, StartMigration, Migrated, UpBackend, CheckCandidate,
       Save, SaveFails, StopMigration, Upped
  <2>6. {profile', backend'.release} \subseteq migrators' \cup {None}
    BY <2>1, <2>4, <2>5 DEF RanInv, RanOf
  <2> QED
    BY <2>1, <2>3, <2>6, RanGoes
<1>3. ASSUME NEW d \in Deployer,
             UpPostgresFails(d) \/ MigrationNotStarted(d) \/ MigrationFails(d)
             \/ UpBackendFails(d) \/ CheckFails(d)
      PROVE  RanInv'
  <2>1. Abort(d) /\ UNCHANGED <<profile, migrators>>
    BY <1>3 DEF UpPostgresFails, MigrationNotStarted, MigrationFails, UpBackendFails, CheckFails
  <2>2. backend'.release = backend.release \/ (pc[d] = "backend" /\ backend'.release = job[d].candidate)
    BY <1>3, UppedRelease, Fields
       DEF UpPostgresFails, MigrationNotStarted, MigrationFails, UpBackendFails, CheckFails
  <2>3. backend'.release \in migrators \cup {None}
    BY <2>2 DEF RanInv, RanOf
  <2>4. CASE Finish(d, TRUE)
    BY <2>1, <2>3, <2>4, RanEnds
  <2>5. CASE Goto(d, "rollback") /\ UNCHANGED <<owner, job>>
    <3>1. RanOf(d)'
      BY <2>1, <2>5 DEF Goto, RanInv, RanOf
    <3> QED
      BY <2>1, <2>3, <2>5, <3>1, RanGoes DEF Goto, RanInv
  <2> QED
    BY <2>1, <2>4, <2>5 DEF Abort
<1>4. ASSUME NEW d \in Deployer,
             SettingsFail(d) \/ Deployed(d) \/ StopMigrationFails(d) \/ RolledBack(d)
             \/ RestoreFails(d) \/ StopCandidate(d) \/ StopCandidateFails(d)
      PROVE  RanInv'
  <2>1. (Finish(d, TRUE) \/ Finish(d, FALSE)) /\ UNCHANGED <<profile, migrators>>
    BY <1>4 DEF SettingsFail, Deployed, StopMigrationFails, RolledBack, RestoreFails,
       StopCandidate, StopCandidateFails
  <2>2. backend'.release \in {backend.release, job[d].previous}
    <3>1. job[d].previous \in Release \cup {None}
      BY Fields
    <3>2. [backend EXCEPT !.up = FALSE].release = backend.release
      BY DEF GuestInv
    <3> QED
      BY <1>4, <3>1, <3>2, UppedRelease
         DEF SettingsFail, Deployed, StopMigrationFails, RolledBack, RestoreFails,
             StopCandidate, StopCandidateFails
  <2> QED
    BY <2>1, <2>2, RanEnds DEF RanInv, RanOf
<1>5. ASSUME NEW a \in Caller,
             Schedule(a) \/ BeginCapture(a) \/ StopBackend(a) \/ Dump(a) \/ CaptureFax(a)
             \/ CaptureFails(a) \/ Transition(a)
      PROVE  RanInv'
  <2>1. UNCHANGED <<profile, migrators>> /\ backend'.release = backend.release
    BY <1>5 DEF Schedule, BeginCapture, StopBackend, Dump, CaptureFax, CaptureFails, Transition,
       GuestInv
  <2>2. job'[a].previous = job[a].previous
    BY <1>5 DEF Schedule, BeginCapture, StopBackend, Dump, CaptureFax, CaptureFails, Transition,
       Local
  <2>3. pc'[a] \in {"capture", "stop", "dump", "fax", "restart", "verify"}
        /\ \A b \in Actor \ {a} : pc'[b] = pc[b] /\ job'[b] = job[b]
    BY <1>5 DEF Schedule, BeginCapture, StopBackend, Dump, CaptureFax, CaptureFails, Transition,
       Goto
  <2>4. RanOf(a)'
    BY <2>1, <2>2, <2>3 DEF RanInv, RanOf
  <2> QED
    BY <2>1, <2>3, <2>4, RanGoes DEF RanInv
<1>6. ASSUME NEW a \in Caller,
             StopUnconfirmed(a) \/ CaptureUnknown(a) \/ RestartFails(a)
      PROVE  RanInv'
  <2>1. Finish(a, TRUE) /\ UNCHANGED <<profile, migrators>>
    BY <1>6 DEF StopUnconfirmed, CaptureUnknown, RestartFails
  <2>2. backend'.release = backend.release
    <3>1. \A up \in BOOLEAN : [backend EXCEPT !.up = up].release = backend.release
      BY DEF GuestInv
    <3>2. backend.release \in Release \cup {None}
      BY DEF GuestInv
    <3> QED
      BY <1>6, <3>1, <3>2, UppedRelease DEF StopUnconfirmed, CaptureUnknown, RestartFails
  <2> QED
    BY <2>1, <2>2, RanEnds DEF RanInv
<1>7. ASSUME NEW a \in Caller, Restart(a)
      PROVE  RanInv'
  <2>1. UNCHANGED <<profile, migrators>> /\ backend'.release = backend.release
    BY <1>7 DEF Restart, Upped
  <2>2. CASE job[a].ok
    <3>1. RanOf(a)'
      BY <1>7, <2>1, <2>2 DEF Restart, Goto, RanInv, RanOf
    <3> QED
      BY <1>7, <2>1, <2>2, <3>1, RanGoes DEF Restart, Goto, RanInv
  <2>3. CASE ~job[a].ok
    BY <1>7, <2>1, <2>3, RanEnds DEF Restart, RanInv
  <2> QED
    BY <2>2, <2>3
<1>8. ASSUME NEW a \in Caller, Verify(a)
      PROVE  RanInv'
  <2>1. UNCHANGED <<profile, migrators, backend>>
    BY <1>8 DEF Verify
  <2>2. CASE a = Timer /\ Finish(a, FALSE)
    BY <2>1, <2>2, RanEnds DEF RanInv
  <2>3. CASE a # Timer
    <3>1. RanOf(a)'
      BY <1>8, <2>1, <2>3 DEF Verify, Goto, RanInv, RanOf, Local
    <3> QED
      BY <1>8, <2>1, <2>3, <3>1, RanGoes DEF Verify, Goto, RanInv
  <2> QED
    BY <1>8, <2>2, <2>3 DEF Verify
<1>9. ASSUME NEW a \in Actor, Fails(a) \/ Kill(a)
      PROVE  RanInv'
  <2>1. Finish(a, TRUE) /\ UNCHANGED <<profile, migrators, backend>>
    BY <1>9 DEF Fails, Kill
  <2> QED
    BY <2>1, RanEnds DEF RanInv
<1>10. CASE StartBackup
  <2>1. RanOf(Timer)'
    BY <1>10 DEF StartBackup, Goto, RanInv, RanOf
  <2> QED
    BY <1>10, <2>1, RanGoes DEF StartBackup, Goto, RanInv
<1>11. CASE StartPurge \/ CreateRetention \/ AwaitRetention
  <2>1. UNCHANGED <<profile, migrators, backend>>
        /\ pc'[Purger] \in {"create", "wait", "cleanup"}
        /\ \A b \in Actor \ {Purger} : pc'[b] = pc[b] /\ job'[b] = job[b]
    BY <1>11 DEF StartPurge, CreateRetention, AwaitRetention, Goto
  <2>2. job'[Purger].previous = job[Purger].previous
    BY <1>11 DEF StartPurge, CreateRetention, AwaitRetention, Local
  <2>3. RanOf(Purger)'
    BY <2>1, <2>2 DEF RanInv, RanOf
  <2> QED
    BY <2>1, <2>3, RanGoes DEF RanInv
<1>12. CASE CreateFails \/ RemoveRetention \/ RetentionUnknown
  <2>1. UNCHANGED <<profile, migrators, backend>> /\ (Finish(Purger, TRUE) \/ Finish(Purger, FALSE))
    BY <1>12 DEF CreateFails, RemoveRetention, RetentionUnknown
  <2> QED
    BY <2>1, RanEnds DEF RanInv
<1>13. CASE ContainerStep \/ UNCHANGED vars
  BY <1>13 DEF ContainerStep, BackendWrites, RetentionWrites, RetentionEnds, MigrationApplies,
     MigrationEnds, vars, RanInv, RanOf
<1> QED
  BY <1>1, <1>2, <1>3, <1>4, <1>5, <1>6, <1>7, <1>8, <1>9, <1>10, <1>11, <1>12, <1>13
     DEF Next, DeployStep, BackupStep, PurgeStep

-----------------------------------------------------------------------------
(* Refinement                                                              *)

(* A step that only starts or stops a backend, gives a pair up, or shows   *)
(* nothing.                                                                *)
LEMMA QuietMaps ==
  ASSUME RanInv', NEW a \in Actor,
         UNCHANGED <<profile, schema, data, migrators, snapshot>>,
         "migration" \in running' <=> "migration" \in running,
         \A b \in Actor \ {a} : job'[b] = job[b],
         job'[a].pair \in {job[a].pair, None}
  PROVE  Promise!Turn(a)
<1>1. Serving' \in {Serving, None} \cup migrators
  BY DEF RanInv, Serving
<1>2. Taken' \in {Taken, [Taken EXCEPT ![a] = None]}
  <2>1. CASE job'[a].pair = job[a].pair
    <3>1. Taken' = Taken
      BY <2>1 DEF Taken
    <3> QED
      BY <3>1
  <2>2. CASE job'[a].pair = None
    <3>1. Taken' = [Taken EXCEPT ![a] = None]
      BY <2>2 DEF Taken
    <3> QED
      BY <3>1
  <2> QED
    BY <2>1, <2>2
<1>3. ("migration" \in running)' = ("migration" \in running)
  OBVIOUS
<1> QED
  BY <1>1, <1>2, <1>3 DEF Promise!Turn

LEMMA EndMaps ==
  ASSUME LockInv, LocalInv, RanInv', NEW a \in Actor, Finish(a, TRUE) \/ Finish(a, FALSE),
         UNCHANGED <<profile, schema, data, migrators, snapshot>>,
         "migration" \in running' <=> "migration" \in running
  PROVE  Promise!Turn(a)
<1>1. job'[a] = NoJob /\ \A b \in Actor \ {a} : job'[b] = job[b]
  BY Ended
<1>2. job'[a].pair = None
  BY <1>1 DEF NoJob
<1> QED
  BY <1>1, <1>2, QuietMaps

(* A process without a pair shows nothing of its locals.                   *)
LEMMA NothingTaken ==
  ASSUME HeldInv, HeldInv', NEW a \in Actor,
         pc[a] \notin {"fax", "restart", "transition"},
         pc'[a] \notin {"fax", "restart", "transition"},
         \A b \in Actor \ {a} : job'[b] = job[b]
  PROVE  Taken' = Taken
<1>1. job[a].pair = None /\ job'[a].pair = None
  BY DEF HeldInv, HeldOf
<1> QED
  BY <1>1 DEF Taken

LEMMA MigrationMaps ==
  ASSUME IInv, HeldInv, HeldInv', NEW d \in Deployer, StartMigration(d)
  PROVE  Promise!StartMigration(job[d].candidate) /\ job[d].candidate \in Release
<1> USE Values DEF IInv, guest, docker, owner, records
<1>1. job[d].candidate \in Release
  BY DEF StartMigration, LocalInv, Well
<1>2. "migration" \notin running /\ "migration" \in running'
  BY DEF StartMigration, GuestInv
<1>3. profile # None => snapshot \in Pair /\ (snapshot.quiet => snapshot.schema = schema)
  BY DEF StartMigration, ProfileInv, ProfileOf, FreshInv, SafeOf, Early, Restorable
<1>4. profile = None => migrators \subseteq {job[d].candidate}
  BY DEF StartMigration, OwnerInv, OwnedBy, OwnWork, Deploying
<1>5. Taken' = Taken
  BY NothingTaken DEF StartMigration, Goto, LocalInv
<1>6. UNCHANGED <<profile, Serving, schema, data, snapshot>>
  BY DEF StartMigration, Serving
<1>7. migrators' = migrators \cup {job[d].candidate}
  BY DEF StartMigration
<1>8. ("migration" \in running)' = TRUE
  BY <1>2
<1> QED
  BY <1>1, <1>2, <1>3, <1>4, <1>5, <1>6, <1>7, <1>8 DEF Promise!StartMigration

LEMMA MigrationEndMaps ==
  ASSUME IInv, HeldInv, HeldInv', "migration" \notin running',
         MigrationEnds \/ \E d \in Deployer : StopMigration(d) \/ StopMigrationFails(d)
  PROVE  Promise!EndMigration
<1> USE Values DEF IInv, guest, docker, owner, records
<1>1. UNCHANGED <<profile, Serving, schema, data, migrators, snapshot>>
  BY DEF StopMigration, StopMigrationFails, MigrationEnds, Serving
<1>2. ("migration" \in running)' = FALSE
  OBVIOUS
<1>3. Taken' = Taken
  <2>1. CASE MigrationEnds
    BY <2>1 DEF MigrationEnds, Taken
  <2>2. ASSUME NEW d \in Deployer, StopMigration(d) \/ StopMigrationFails(d)
        PROVE  Taken' = Taken
    <3>1. pc[d] = "rollback" /\ pc'[d] \in {"restore", "idle"}
      BY <2>2, Ended DEF StopMigration, StopMigrationFails, Goto, LocalInv
    <3>2. \A b \in Actor \ {d} : job'[b] = job[b]
      BY <2>2, Ended DEF StopMigration, StopMigrationFails
    <3> QED
      BY <3>1, <3>2, NothingTaken
  <2> QED
    BY <2>1, <2>2
<1> QED
  BY <1>1, <1>2, <1>3 DEF Promise!EndMigration

(* The dump takes the pair: its FAX files are read later, but nothing      *)
(* changes until then.                                                     *)
LEMMA DumpMaps ==
  ASSUME IInv, NEW a \in Caller, Dump(a)
  PROVE  Promise!Take(a)
<1> USE Values DEF IInv, guest, docker, owner, records
<1>1. Serving = None
  BY DEF Dump, PairInv, PairOf, Serving
<1>2. job'[a].pair = Promise!Moment /\ \A b \in Actor \ {a} : job'[b] = job[b]
  BY DEF Dump, Promise!Moment, LocalInv, Local
<1>3. Taken' = [Taken EXCEPT ![a] = Promise!Moment]
  BY <1>2 DEF Taken
<1>4. UNCHANGED <<profile, Serving, schema, data, running, migrators, snapshot>>
  BY DEF Dump, Serving
<1> QED
  BY <1>1, <1>3, <1>4 DEF Promise!Take, Dump

LEMMA TransitionMaps ==
  ASSUME IInv, NEW a \in Caller, Transition(a)
  PROVE  Promise!Store(a)
<1> USE Values DEF IInv, guest, docker, owner, records
<1>1. job[a].pair \in Pair /\ (job[a].pair.quiet => job[a].pair.schema = schema)
  BY DEF Transition, PairInv, PairOf, Captured
<1>2. Taken[a] = job[a].pair
  BY DEF Taken
<1>3. job'[a].pair = None /\ \A b \in Actor \ {a} : job'[b] = job[b]
  BY DEF Transition, LocalInv, Local
<1>4. Taken' = [Taken EXCEPT ![a] = None]
  BY <1>3 DEF Taken
<1>5. UNCHANGED <<profile, Serving, schema, data, running, migrators>> /\ snapshot' = job[a].pair
  BY DEF Transition, Serving
<1> QED
  BY <1>1, <1>2, <1>4, <1>5 DEF Promise!Store

LEMMA SaveMaps ==
  ASSUME IInv, HeldInv, HeldInv', RanInv, NEW d \in Deployer, Save(d)
  PROVE  Promise!Record(job[d].candidate) /\ job[d].candidate \in Release
<1> USE Values DEF IInv, guest, docker, owner, records
<1>1. job[d].candidate \in Release
  BY DEF Save, LocalInv, Well
<1>2. job[d].candidate \in migrators /\ Serving = job[d].candidate /\ "migration" \notin running
  BY DEF Save, RanInv, RanOf, HeldInv, HeldOf, Healthy, Serving, SettledInv, SettledOf
<1>3. Taken' = Taken
  BY NothingTaken DEF Save, Goto, LocalInv
<1>4. UNCHANGED <<Serving, schema, data, running, migrators, snapshot>>
      /\ profile' = job[d].candidate
  BY DEF Save, Serving
<1> QED
  BY <1>1, <1>2, <1>3, <1>4 DEF Promise!Record

LEMMA DataMaps ==
  ASSUME IInv, BackendWrites \/ RetentionWrites \/ MigrationApplies
  PROVE  Promise!Write \/ Promise!Alter
<1> USE DEF IInv, guest, docker, owner, records
<1>1. UNCHANGED <<profile, Serving, running, migrators, Taken, snapshot>>
  BY DEF BackendWrites, RetentionWrites, MigrationApplies, Serving, Taken
<1>2. \/ data' = data + 1 /\ schema' = schema
      \/ schema' = schema + 1 /\ data' = data /\ "migration" \in running
  BY DEF BackendWrites, RetentionWrites, MigrationApplies
<1> QED
  BY <1>1, <1>2 DEF Promise!Write, Promise!Alter

LEMMA StepMaps ==
  ASSUME IInv, HeldInv, RanInv, [Next]_vars
  PROVE  Promise!Next \/ UNCHANGED Promise!vars
<1> DEFINE Goal == Promise!Next \/ UNCHANGED Promise!vars
<1>a. HeldInv' /\ RanInv'
  BY HeldStep, RanStep
<1>b. ASSUME NEW a \in Actor, Promise!Turn(a) PROVE Goal
  BY <1>b DEF Promise!Next
<1> USE Values DEF IInv, LockInv, LocalInv, guest, docker, owner, records
<1>1. ASSUME NEW d \in Deployer,
             ReadProfile(d) \/ Observe(d) \/ CheckPrevious(d) \/ TakeLock(d)
      PROVE  Goal
  <2>1. UNCHANGED <<profile, schema, data, migrators, snapshot, running>>
        /\ \A b \in Actor \ {d} : job'[b] = job[b]
    BY <1>1 DEF ReadProfile, Observe, CheckPrevious, TakeLock
  <2> QED
    BY <1>1, <1>a, <1>b, <2>1, Carried, QuietMaps
<1>2. ASSUME NEW d \in Deployer,
             CheckSettings(d) \/ UpPostgres(d) \/ Migrated(d)
             \/ UpBackend(d) \/ CheckCandidate(d) \/ SaveFails(d)
      PROVE  Goal
  <2>1. UNCHANGED <<profile, schema, data, migrators, snapshot, running, job>>
    BY <1>2 DEF CheckSettings, UpPostgres, Migrated, UpBackend, CheckCandidate, SaveFails
  <2> QED
    BY <1>a, <1>b, <2>1, QuietMaps
<1>3. ASSUME NEW d \in Deployer,
             UpPostgresFails(d) \/ MigrationNotStarted(d) \/ MigrationFails(d)
             \/ UpBackendFails(d) \/ CheckFails(d)
      PROVE  Goal
  <2>1. UNCHANGED <<profile, schema, data, migrators, snapshot, running>> /\ Abort(d)
    BY <1>3 DEF UpPostgresFails, MigrationNotStarted, MigrationFails, UpBackendFails, CheckFails
  <2>2. CASE Finish(d, TRUE)
    BY <1>a, <1>b, <2>1, <2>2, EndMaps
  <2>3. CASE UNCHANGED job
    BY <1>a, <1>b, <2>1, <2>3, QuietMaps
  <2> QED
    BY <2>1, <2>2, <2>3 DEF Abort
<1>4. ASSUME NEW d \in Deployer,
             SettingsFail(d) \/ Deployed(d) \/ RolledBack(d)
             \/ RestoreFails(d) \/ StopCandidate(d) \/ StopCandidateFails(d)
      PROVE  Goal
  <2>1. UNCHANGED <<profile, schema, data, migrators, snapshot, running>>
        /\ (Finish(d, TRUE) \/ Finish(d, FALSE))
    BY <1>4 DEF SettingsFail, Deployed, RolledBack, RestoreFails, StopCandidate, StopCandidateFails
  <2> QED
    BY <1>a, <1>b, <2>1, EndMaps
<1>5. ASSUME NEW d \in Deployer, StopMigration(d) PROVE Goal
  BY <1>5, <1>a, MigrationEndMaps DEF StopMigration, Promise!Next
<1>6. ASSUME NEW d \in Deployer, StopMigrationFails(d) PROVE Goal
  <2>1. CASE "migration" \notin running'
    BY <1>6, <1>a, <2>1, MigrationEndMaps DEF Promise!Next
  <2>2. CASE "migration" \in running'
    BY <1>6, <1>a, <1>b, <2>2, EndMaps DEF StopMigrationFails
  <2> QED
    BY <2>1, <2>2
<1>7. ASSUME NEW d \in Deployer, StartMigration(d) \/ Save(d) PROVE Goal
  BY <1>7, <1>a, MigrationMaps, SaveMaps DEF Promise!Next
<1>8. ASSUME NEW a \in Caller, Dump(a) \/ Transition(a) PROVE Goal
  BY <1>8, DumpMaps, TransitionMaps DEF Promise!Next
<1>9. ASSUME NEW a \in Caller,
             Schedule(a) \/ BeginCapture(a) \/ StopBackend(a) \/ CaptureFails(a)
      PROVE  Goal
  <2>1. UNCHANGED <<profile, schema, data, migrators, snapshot, running>>
        /\ \A b \in Actor \ {a} : job'[b] = job[b]
    BY <1>9 DEF Schedule, BeginCapture, StopBackend, CaptureFails
  <2>2. job'[a].pair = job[a].pair
    BY <1>9 DEF Schedule, BeginCapture, StopBackend, CaptureFails, Local
  <2> QED
    BY <1>a, <1>b, <2>1, <2>2, QuietMaps
<1>10. ASSUME NEW a \in Caller, CaptureFax(a) PROVE Goal
  <2>1. UNCHANGED <<profile, schema, data, migrators, snapshot, running>>
        /\ \A b \in Actor \ {a} : job'[b] = job[b]
    BY <1>10 DEF CaptureFax
  <2>2. job[a].pair \in Pair /\ job[a].pair.fax = data
    BY <1>10 DEF CaptureFax, HeldInv, HeldOf
  <2>3. job'[a].pair = [job[a].pair EXCEPT !.fax = data]
    BY <1>10 DEF CaptureFax, Local
  <2>4. job'[a].pair = job[a].pair
    BY <2>2, <2>3 DEF Pair
  <2> QED
    BY <1>a, <1>b, <2>1, <2>4, QuietMaps
<1>11. ASSUME NEW a \in Caller,
             StopUnconfirmed(a) \/ CaptureUnknown(a) \/ RestartFails(a)
      PROVE  Goal
  <2>1. UNCHANGED <<profile, schema, data, migrators, snapshot, running>> /\ Finish(a, TRUE)
    BY <1>11 DEF StopUnconfirmed, CaptureUnknown, RestartFails
  <2> QED
    BY <1>a, <1>b, <2>1, EndMaps
<1>12. ASSUME NEW a \in Caller, Restart(a) PROVE Goal
  <2>1. UNCHANGED <<profile, schema, data, migrators, snapshot, running>>
    BY <1>12 DEF Restart
  <2>2. CASE job[a].ok
    BY <1>12, <1>a, <1>b, <2>1, <2>2, QuietMaps DEF Restart
  <2>3. CASE ~job[a].ok
    BY <1>12, <1>a, <1>b, <2>1, <2>3, EndMaps DEF Restart
  <2> QED
    BY <2>2, <2>3
<1>13. ASSUME NEW a \in Caller, Verify(a) PROVE Goal
  <2>1. UNCHANGED <<profile, schema, data, migrators, snapshot, running>>
    BY <1>13 DEF Verify
  <2>2. CASE Finish(a, FALSE)
    BY <1>a, <1>b, <2>1, <2>2, EndMaps
  <2>3. CASE a # Timer
    <3>1. job'[a].pair = job[a].pair /\ \A b \in Actor \ {a} : job'[b] = job[b]
      BY <1>13, <2>3 DEF Verify, Local
    <3> QED
      BY <1>a, <1>b, <2>1, <3>1, QuietMaps
  <2> QED
    BY <1>13, <2>2, <2>3 DEF Verify
<1>14. ASSUME NEW a \in Actor, Fails(a) \/ Kill(a) PROVE Goal
  <2>1. UNCHANGED <<profile, schema, data, migrators, snapshot, running>> /\ Finish(a, TRUE)
    BY <1>14 DEF Fails, Kill
  <2> QED
    BY <1>a, <1>b, <2>1, EndMaps
<1>15. CASE StartBackup \/ StartPurge \/ CreateRetention \/ AwaitRetention
  <2>1. UNCHANGED <<profile, schema, data, migrators, snapshot>>
        /\ ("migration" \in running' <=> "migration" \in running)
        /\ \A b \in Actor \ {Purger} : job'[b] = job[b]
    BY <1>15 DEF StartBackup, StartPurge, CreateRetention, AwaitRetention
  <2>2. job'[Purger].pair = job[Purger].pair
    BY <1>15 DEF StartBackup, StartPurge, CreateRetention, AwaitRetention, Local
  <2> QED
    BY <1>a, <1>b, <2>1, <2>2, QuietMaps
<1>16. CASE CreateFails \/ RemoveRetention \/ RetentionUnknown
  <2>1. UNCHANGED <<profile, schema, data, migrators, snapshot>>
        /\ (Finish(Purger, TRUE) \/ Finish(Purger, FALSE))
    BY <1>16 DEF CreateFails, RemoveRetention, RetentionUnknown
  <2>2. "migration" \in running' <=> "migration" \in running
    BY <1>16 DEF CreateFails, RemoveRetention, RetentionUnknown
  <2> QED
    BY <1>a, <1>b, <2>1, <2>2, EndMaps
<1>17. CASE BackendWrites \/ RetentionWrites \/ MigrationApplies
  BY <1>17, DataMaps DEF Promise!Next
<1>18. CASE RetentionEnds
  <2>1. UNCHANGED <<profile, schema, data, migrators, snapshot, job>>
        /\ ("migration" \in running' <=> "migration" \in running)
    BY <1>18 DEF RetentionEnds
  <2> QED
    BY <1>a, <1>b, <2>1, QuietMaps
<1>19. CASE MigrationEnds
  BY <1>19, <1>a, MigrationEndMaps DEF MigrationEnds, Promise!Next
<1>20. CASE UNCHANGED vars
  BY <1>20 DEF vars, Promise!vars, Serving, Taken
<1> QED
  BY <1>1, <1>2, <1>3, <1>4, <1>5, <1>6, <1>7, <1>8, <1>9, <1>10, <1>11, <1>12,
     <1>13, <1>14, <1>15, <1>16, <1>17, <1>18, <1>19, <1>20
     DEF Next, DeployStep, BackupStep, PurgeStep, ContainerStep

LEMMA InitMaps == Init => Promise!Init /\ HeldInv /\ RanInv
<1> SUFFICES ASSUME Init PROVE Promise!Init /\ HeldInv /\ RanInv
  OBVIOUS
<1>1. \A a \in Actor : pc[a] = "idle" /\ job[a] = NoJob
  BY DEF Init
<1>2. Taken = [a \in Actor |-> None]
  BY <1>1 DEF Taken, NoJob
<1>3. Serving = profile /\ profile \in Release \cup {None}
  BY DEF Init, Serving
<1>4. HeldInv
  BY <1>1 DEF HeldInv, HeldOf, NoJob
<1>5. RanInv
  BY <1>1, Values DEF Init, RanInv, RanOf, NoJob
<1> QED
  BY <1>2, <1>3, <1>4, <1>5 DEF Init, Promise!Init

(* ImplementsSafeRelease: however many deploys, backups and purges compete *)
(* for the lock, and whatever of them fails, is killed or stays in doubt,  *)
(* each step keeps what SafeRelease promises of releases, migrations and   *)
(* backups, a late signal included.                                        *)
THEOREM RuntimeIsSafe == Spec => ImplementsSafeRelease
<1>1. IInv /\ HeldInv /\ RanInv /\ [Next]_vars => HeldInv' /\ RanInv'
  BY HeldStep, RanStep
<1>2. IInv /\ HeldInv /\ RanInv /\ [Next]_vars => [Promise!Next]_(Promise!vars)
  BY StepMaps
<1> QED
  BY InitMaps, Invariance, <1>1, <1>2, PTL DEF Spec, ImplementsSafeRelease, Promise!Spec
=============================================================================
