----------------------------- MODULE CheckReuse -----------------------------
(***************************************************************************)
(* A stored plan of an adapter with checks of its own                      *)
(* (scripts/document_governance_portable.py): each check that an earlier   *)
(* result has passed on the same inputs is reused, the others run, and the *)
(* result becomes the earlier result of the next run; beside it the timing *)
(* log, of which any line may be lost.                                     *)
(*                                                                         *)
(* Inputs are taken from the index, declared reads from the disk as well;  *)
(* checks run on the work tree. Every edit makes a content never seen      *)
(* before; what is staged is not taken back, an edit of the work tree may  *)
(* be. A check reads its files in one step, and what a file imports does   *)
(* not change. The adapter is the one of the frontend, which looks at the  *)
(* files through the plan and the inputs only; that of the core asks for a *)
(* clean work tree and the same index at the end as well.                  *)
(*                                                                         *)
(* The fields called mixed are no part of the code: the checks that ran on *)
(* a file whose staged content was another one.                            *)
(* Operators named X_Fault are faulty versions of X; nothing uses them.    *)
(***************************************************************************)
EXTENDS Naturals, FiniteSets

CONSTANTS
  Path,          \* the files, and Tools
  Tools,         \* the interpreter, packages, programs and environment
  Tracked,       \* the files in the index
  Common,        \* the runner's files, on which every check depends
  Check,         \* the checks the plan selects
  Before,        \* those that come before a check
  Module,        \* test modules: check -> files
  Declared,      \* what the owner says a check reads: check -> files, or None
  Imports,       \* static imports: file -> files
  Loads,         \* what a file loads while it runs: file -> files
  Dynamic,       \* the files that name a loader
  None,
  ObservedOnce,  \* does nothing change between the two looks at the inputs?
  MaxVersion, MaxRuns

ASSUME ReuseAssumption ==
  /\ Tools \in Path /\ Tracked \subseteq Path \ {Tools} /\ Common \subseteq Tracked
  /\ Module \in [Check -> SUBSET Tracked]
  /\ \A c \in Check : Declared[c] = None \/ Declared[c] \subseteq Path \ {Tools}
  /\ {Imports, Loads} \subseteq [Path -> SUBSET Tracked]
  /\ \A p \in Path : Loads[p] # {} => p \in Dynamic /\ Loads[p] \subseteq Tracked
  /\ \A c \in Check : Module[c] = {} => Declared[c] = None
  /\ ObservedOnce \in BOOLEAN /\ {MaxVersion, MaxRuns} \subseteq Nat

Status   == {"passed", "failed", "not_run"}
Line     == {"reused", "start", "passed", "failed"}
Content  == [version : Nat, breaks : Check \cup {None}]  \* the check it makes fail, if any
Some     == UNION {[some -> Content] : some \in SUBSET Path}
Snapshot == [Check -> [staged : Some, read : Some]]
Recorded == [status : {"passed", "failed"}, checks : [Check -> Status], inputs : Snapshot,
             mixed : SUBSET Check]

ASSUME NoneAssumption == None \notin Check \cup Snapshot \cup Recorded

VARIABLES
  tree,    \* content of each file, and of the tools
  index,   \* staged content of each tracked file
  edits,   \* how many edits there were
  known,   \* every tool could be identified
  plan,    \* what the stored plan was made from
  result,  \* the last result that was written
  run,     \* the run of the gate: its step and locals
  log,     \* the lines this run has for the timing log, for each check
  runs     \* how many runs there were

files  == <<tree, index, known, edits>>
vars   == <<files, plan, result, run, log, runs>>

-----------------------------------------------------------------------------
(* Inputs of a check                                                       *)

(* What is reached from some files over a relation. *)
Closure(from, next) ==
  {p \in Path : \A s \in SUBSET Path :
     from \subseteq s /\ (\A q \in s : next[q] \subseteq s) => p \in s}

(* Faulty: what an imported file imports is not followed. *)
ImportedSources_Direct(roots) ==
  LET found == (roots \cup UNION {Imports[p] : p \in roots}) \cap Tracked
  IN IF found \cap Dynamic # {} THEN Tracked ELSE found

(* Imports are followed; a loader makes it the whole tree. *)
ImportedSources(roots) ==
  LET found == Closure(roots, Imports) \cap Tracked
  IN IF found \cap Dynamic # {} THEN Tracked ELSE found

DeclaredReads(c) == IF Declared[c] = None THEN {} ELSE Declared[c]

(* check_input_definitions, and the declared reads on disk. A check without *)
(* a module of its own depends on the whole tree.                           *)
Sources ==
  [c \in Check |->
     IF Module[c] = {} THEN Tracked \cup {Tools}
     ELSE Common \cup {Tools} \cup DeclaredReads(c) \cup ImportedSources(Module[c])]

Staged == [p \in Path |-> IF p \in Tracked THEN index[p] ELSE tree[p]]

Inputs ==
  [c \in Check |-> [staged |-> [p \in Sources[c] |-> Staged[p]],
                   read   |-> [p \in DeclaredReads(c) |-> tree[p]]]]

(* Known reads, known tools, a local process. *)
Reusable(c) == known /\ Declared[c] # None

(* select_check_reuse of the governance authority. *)
Reuse(prior) ==
  IF prior = None THEN {}
  ELSE {c \in Check : /\ Reusable(c) /\ prior.checks[c] = "passed"
                      /\ prior.inputs[c] = Inputs[c]}

(* What a check really reads, and whether it passes. *)
Reads ==
  [c \in Check |->
     IF Module[c] = {} THEN Tracked \cup {Tools}
     ELSE Common \cup {Tools} \cup DeclaredReads(c)
          \cup Closure(Module[c], [p \in Path |-> Imports[p] \cup Loads[p]])]
Passes(c, on) == \A p \in Reads[c] : on[p].breaks # c

(* Does it read a file of which another content is staged? *)
Mixed(c) == \E p \in Reads[c] : tree[p] # Staged[p]

(* The changed paths, in a staged scope those of the index, and the         *)
(* producer's files on disk, which the plan is bound to.                    *)
CurrentPlan(stagedOnly) ==
  [stagedOnly |-> stagedOnly,
   paths   |-> {p \in Tracked : index[p].version # 0 \/ (~stagedOnly /\ tree[p] # index[p])},
   command |-> [p \in Common |-> tree[p]]]
Valid == plan = CurrentPlan(plan.stagedOnly)

-----------------------------------------------------------------------------
Idle == [pc |-> "idle", prior |-> None, reuse |-> {}, snapshot |-> None,
         current |-> None, done |-> {}, failed |-> {}, mixed |-> {}]
NoLog == [c \in Check |-> {}]
First == [version |-> 0, breaks |-> None]

Init ==
  /\ tree = [p \in Path |-> First] /\ index = [p \in Tracked |-> First]
  /\ edits = 0 /\ known = TRUE
  /\ plan = None /\ result = None /\ run = Idle /\ log = NoLog /\ runs = 0

At(step) == run.pc = step

(* The run, its plan and its lines of the log are over. *)
Finish == run' = Idle /\ plan' = None /\ log' = NoLog

(* A line of the log for each check; that it cannot be written is ignored. *)
Emit(checks, line) ==
  log' = [c \in Check |-> IF c \in checks THEN log[c] \cup {line} ELSE log[c]]

(* A plan is stored and executed, with the last result or without. *)
Begin ==
  /\ At("idle") /\ runs < MaxRuns /\ runs' = runs + 1
  /\ \E prior \in {None, result} : run' = [Idle EXCEPT !.pc = "select", !.prior = prior]
  /\ \E stagedOnly \in BOOLEAN : plan' = CurrentPlan(stagedOnly)
  /\ UNCHANGED <<files, result, log>>

(* --build-check-execution-selection: what runs is chosen from one look at *)
(* the inputs, ...                                                         *)
Select ==
  /\ At("select") /\ Valid
  /\ run' = [run EXCEPT !.reuse = Reuse(run.prior), !.pc = "observe"]
  /\ Emit(Reuse(run.prior), "reused")
  /\ UNCHANGED <<files, plan, result, runs>>

(* ... and the inputs of the run are another look at them. *)
Observe ==
  /\ At("observe")
  /\ run' = [run EXCEPT !.snapshot = Inputs, !.pc = "run"]
  /\ UNCHANGED <<files, plan, result, log, runs>>

(* Faulty: a check that is reused runs all the same. *)
StartCheck_Reused(c) ==
  /\ At("run") /\ run.current = None /\ c \notin run.done
  /\ Before[c] \subseteq run.reuse \cup run.done
  /\ run' = [run EXCEPT !.current = c]
  /\ Emit({c}, "start")
  /\ UNCHANGED <<files, plan, result, runs>>

StartCheck(c) ==
  /\ At("run") /\ run.current = None /\ c \notin run.reuse \cup run.done
  /\ Before[c] \subseteq run.reuse \cup run.done
  /\ run' = [run EXCEPT !.current = c]
  /\ Emit({c}, "start")
  /\ UNCHANGED <<files, plan, result, runs>>

CheckPasses ==
  /\ run.current # None /\ Passes(run.current, tree)
  /\ run' = [run EXCEPT !.current = None, !.done = @ \cup {run.current},
                       !.mixed = IF Mixed(run.current) THEN @ \cup {run.current} ELSE @]
  /\ Emit({run.current}, "passed")
  /\ UNCHANGED <<files, plan, result, runs>>

(* Faulty: the end is logged as if the check had passed. *)
CheckFails_Unobserved ==
  /\ run.current # None
  /\ run' = [run EXCEPT !.current = None, !.failed = {run.current}, !.pc = "trap"]
  /\ Emit({run.current}, "passed")
  /\ UNCHANGED <<files, plan, result, runs>>

(* It fails, as it must or for another reason. *)
CheckFails ==
  /\ run.current # None
  /\ run' = [run EXCEPT !.current = None, !.failed = {run.current}, !.pc = "trap"]
  /\ Emit({run.current}, "failed")
  /\ UNCHANGED <<files, plan, result, runs>>

-----------------------------------------------------------------------------
(* write_distribution_check_result                                         *)

(* The plan still holds, and so do the inputs, once they were looked at. *)
SameInputs == Valid /\ (run.snapshot = None \/ run.snapshot = Inputs)

(* Those of this run, and of the run whose pass is reused. *)
MixedPasses(prior) ==
  run.mixed \cup (IF prior = None THEN {} ELSE Reuse(prior) \cap prior.mixed)

Result(status, checks) ==
  [status |-> status, checks |-> checks, inputs |-> Inputs, mixed |-> MixedPasses(run.prior)]

(* Each check that is to run by now counts as passed. *)
WritePassed ==
  /\ At("run") /\ run.done \cup run.reuse = Check /\ SameInputs
  /\ result' = Result("passed",
       [c \in Check |-> IF c \in Reuse(run.prior) THEN "not_run" ELSE "passed"])
  /\ Finish
  /\ UNCHANGED <<files, runs>>

(* Faulty: a check that was not reached counts as passed. *)
FailedStatus_Unreached(c, executed) ==
  IF c \notin executed THEN "not_run"
  ELSE IF c \in run.failed THEN "failed" ELSE "passed"

(* Without a completed or failed check, all that were to run have failed. *)
FailedStatus(c, executed) ==
  IF c \notin executed THEN "not_run"
  ELSE IF c \in run.failed \/ run.done \cup run.failed = {} THEN "failed"
  ELSE IF c \in run.done THEN "passed" ELSE "not_run"

(* The EXIT trap; a reused check is not reported as executed. *)
WriteFailed ==
  LET executed == Check \ Reuse(run.prior)
  IN /\ At("trap") /\ SameInputs /\ run.done \cup run.failed \subseteq executed
     /\ result' = Result("failed", [c \in Check |-> FailedStatus(c, executed)])
     /\ Finish
     /\ UNCHANGED <<files, runs>>

(* An error of the trap is ignored; the gate is killed. *)
NoResult ==
  /\ ~At("idle") /\ Finish
  /\ UNCHANGED <<files, result, runs>>

Fail ==
  /\ run.pc \in {"select", "observe", "run"} /\ run.current = None
  /\ run' = [run EXCEPT !.pc = "trap"]
  /\ UNCHANGED <<files, plan, result, log, runs>>

-----------------------------------------------------------------------------
(* When files may change. *)
Open == ~(ObservedOnce /\ At("observe")) /\ ~(At("idle") /\ runs = MaxRuns)

(* A file of the work tree is edited, or the tools change. *)
Edit(p) ==
  /\ Open /\ edits < MaxVersion /\ edits' = edits + 1
  /\ \E c \in {d \in Check : p \in Reads[d]} \cup {None} :
       tree' = [tree EXCEPT ![p] = [version |-> edits + 1, breaks |-> c]]
  /\ known' \in IF p = Tools THEN BOOLEAN ELSE {known}
  /\ UNCHANGED <<index, plan, result, run, log, runs>>

(* git add *)
Stage(p) ==
  /\ Open /\ tree[p] # index[p] /\ index' = [index EXCEPT ![p] = tree[p]]
  /\ UNCHANGED <<tree, edits, known, plan, result, run, log, runs>>

(* git restore *)
Discard(p) ==
  /\ Open /\ tree[p] # index[p] /\ tree' = [tree EXCEPT ![p] = index[p]]
  /\ UNCHANGED <<index, edits, known, plan, result, run, log, runs>>

Next ==
  \/ Begin \/ Select \/ Observe \/ (\E c \in Check : StartCheck(c))
  \/ CheckPasses \/ CheckFails \/ Fail
  \/ WritePassed \/ WriteFailed \/ NoResult
  \/ (\E p \in Path : Edit(p)) \/ (\E p \in Tracked : Stage(p) \/ Discard(p))

Spec == Init /\ [][Next]_vars
-----------------------------------------------------------------------------
(* Properties                                                              *)

Known == [version : 0 .. MaxVersion, breaks : Check \cup {None}]

TypeOK ==
  /\ tree \in [Path -> Known] /\ index \in [Tracked -> Known] /\ known \in BOOLEAN
  /\ runs \in 0 .. MaxRuns /\ edits \in 0 .. MaxVersion
  /\ result = None \/
       /\ result.status \in {"passed", "failed"} /\ result.checks \in [Check -> Status]
       /\ \A c \in Check : /\ result.inputs[c].staged \in [Sources[c] -> Content]
                           /\ result.inputs[c].read \in [DeclaredReads(c) -> Content]
  /\ run.pc \in {"idle", "select", "observe", "run", "trap"}
  /\ {run.reuse, run.done, run.failed} \subseteq SUBSET Check /\ run.mixed \subseteq run.done
  /\ run.current \in Check \cup {None}
  /\ run.done \cap (run.reuse \cup run.failed) = {}
  /\ log \in [Check -> SUBSET Line]

(* When a result says passed, every check the plan selects passes on the   *)
(* staged files whose contents it records, whether it ran or was reused,   *)
(* over any chain of earlier results and whatever was edited, staged or    *)
(* restored in between; except a check that ran, in this run or in the one *)
(* whose pass is reused, on a file of which another content was staged.    *)
PassedMeansPasses ==
  [][result' # result /\ result'.status = "passed" =>
       \A c \in Check \ result'.mixed : Passes(c, Staged)]_vars

(* What any result, a failed one too, records as the pass of a check was   *)
(* executed by that very run and holds for the inputs recorded with it:    *)
(* the next run may reuse it; with the same exception.                     *)
RecordedPassesHold ==
  [][result' # result =>
       \A c \in Check : result'.checks[c] = "passed" =>
         c \in run.done /\ (c \in result'.mixed \/ Passes(c, Staged))]_vars

(* summarize_timing_logs: a span with both ends has the status of its end. *)
Completed(lines) == "start" \in lines /\ lines \cap {"passed", "failed"} # {}

(* Whatever lines were lost, a completed span is a check that this run     *)
(* executed with that outcome, and nothing else: a reuse is no span.       *)
TimingTruthful ==
  \A c \in Check :
    /\ \A kept \in SUBSET log[c] :
         Completed(kept) => c \in (IF "passed" \in kept THEN run.done ELSE run.failed)
    /\ "reused" \in log[c] => log[c] = {"reused"} /\ c \notin run.done \cup run.failed
=============================================================================
