----------------------------- MODULE SafeRelease -----------------------------
(***************************************************************************)
(* What the guest promises about its releases and their data, with no      *)
(* lock, container, command, timeout or rollback in sight.  A backup is of *)
(* one moment, at which no release serves.  The migration of a candidate   *)
(* touches the data of the recorded release only after a backup, and the   *)
(* last one stored has the database as it is if it is quiet: no migration  *)
(* ran beside it.  Data that no release is recorded for belongs to one     *)
(* candidate.  Only a release whose own migration was run serves, and it   *)
(* is recorded while it serves.                                            *)
(* ProductionRuntime implements this specification.                        *)
(***************************************************************************)
EXTENDS Naturals

CONSTANTS
  Release,
  Process,     \* who may make a backup
  None

VARIABLES
  recorded,    \* the release on record, or None
  serving,     \* the release whose backend serves, or None
  schema,      \* how often a migration changed the database
  data,        \* how often anybody changed database and files
  migrating,   \* does a migration run?
  migrators,   \* releases whose migration was run
  taken,       \* the backup each process has taken and not yet stored
  stored       \* the last backup that was stored

vars == <<recorded, serving, schema, data, migrating, migrators, taken, stored>>

Moment == [schema |-> schema, db |-> data, fax |-> data, quiet |-> ~migrating]

Init ==
  /\ recorded \in Release \cup {None} /\ serving = recorded
  /\ schema = 0 /\ data = 0
  /\ migrating = FALSE /\ migrators = {recorded} \ {None}
  /\ taken = [p \in Process |-> None] /\ stored = None

Write ==
  /\ data' = data + 1
  /\ UNCHANGED <<recorded, serving, schema, migrating, migrators, taken, stored>>

(* Database and files of one moment, in which no release serves.           *)
Take(p) ==
  /\ serving = None
  /\ taken' = [taken EXCEPT ![p] = Moment]
  /\ UNCHANGED <<recorded, serving, schema, data, migrating, migrators, stored>>

(* The backend may write again by then, but no migration came between, or  *)
(* it ran when the backup was taken.                                       *)
Store(p) ==
  /\ taken[p] # None /\ (taken[p].quiet => taken[p].schema = schema)
  /\ stored' = taken[p]
  /\ taken' = [taken EXCEPT ![p] = None]
  /\ UNCHANGED <<recorded, serving, schema, data, migrating, migrators>>

(* A release starts or stops to serve, or a backup is given up, or both.   *)
Turn(p) ==
  /\ serving' \in {serving, None} \cup migrators
  /\ taken' \in {taken, [taken EXCEPT ![p] = None]}
  /\ UNCHANGED <<recorded, schema, data, migrating, migrators, stored>>

StartMigration(r) ==
  /\ ~migrating
  /\ IF recorded = None THEN migrators \subseteq {r}
     ELSE stored # None /\ (stored.quiet => stored.schema = schema)
  /\ migrating' = TRUE /\ migrators' = migrators \cup {r}
  /\ UNCHANGED <<recorded, serving, schema, data, taken, stored>>

Alter ==
  /\ migrating
  /\ schema' = schema + 1
  /\ UNCHANGED <<recorded, serving, data, migrating, migrators, taken, stored>>

EndMigration ==
  /\ migrating' = FALSE
  /\ UNCHANGED <<recorded, serving, schema, data, migrators, taken, stored>>

Record(r) ==
  /\ r \in migrators /\ serving = r /\ ~migrating
  /\ recorded' = r
  /\ UNCHANGED <<serving, schema, data, migrating, migrators, taken, stored>>

Next ==
  \/ Write \/ Alter \/ EndMigration
  \/ \E p \in Process : Take(p) \/ Store(p) \/ Turn(p)
  \/ \E r \in Release : StartMigration(r) \/ Record(r)

Spec == Init /\ [][Next]_vars
=============================================================================
