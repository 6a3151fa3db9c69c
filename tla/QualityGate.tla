---------------------------- MODULE QualityGate ----------------------------
(***************************************************************************)
(* The quality gate of the repository: scripts/build_check.sh with a       *)
(* stored plan, or with --document-distribution and none, around the       *)
(* commands of scripts/document_governance_portable.py, while files are    *)
(* edited, staged and committed.                                           *)
(*                                                                         *)
(* The content of a file is a version; 0 is the one of the merge base with *)
(* origin/main, which stays where it is, and an edit makes a version never *)
(* seen before. One command of the portable checker is one step. A gate    *)
(* with a plan is also given a result path, which the script does not ask  *)
(* for: without one it says OK once its checks have passed, of the profile *)
(* document-distribution as --document-distribution does, of the other     *)
(* profile without a last look at the plan.                                *)
(* Operators named X_Fault are faulty versions of X; nothing uses them.    *)
(***************************************************************************)
EXTENDS Naturals, FiniteSets

CONSTANTS
  Checker, Contract,  \* the distributed files: the checker, and what names its bytes
  Build, Code,        \* the adapter build_check.sh, and a file of the repository
  Gate,               \* runs of the gate
  None,
  MaxVersion

Distribution == {Checker, Contract}
Tool         == Distribution \cup {Build}
Path         == Tool \cup {Code}
Layer        == {"head", "index", "work"}

ASSUME GateAssumption ==
  /\ Cardinality(Path) = 4 /\ MaxVersion \in Nat

Base    == 0
Version == Base .. MaxVersion

Tree    == [Layer -> [Path -> Version]]
Profile == {"document-distribution", "repository-canonical"}
Plan    == [paths : SUBSET Path, profile : Profile, tools : [Tool -> Version]]
Outcome == [status : {"passed", "failed", "torn"}, gate : Gate, index : [Path -> Version],
            saw : [Tool -> Version \cup {None}]]

ASSUME NoneAssumption == None \notin Version \cup Tree \cup Plan \cup Outcome

VARIABLES
  tree,    \* version of each file in HEAD, in the index and in the work tree
  names,   \* the version of the checker that a version of the contract names
  edits,   \* the newest version
  plan,    \* the stored plan
  result,  \* the result file, which all gates with the plan write
  direct,  \* the gates without a plan: --document-distribution
  pc,      \* what each gate is doing
  saw,     \* the versions of the tools its checks have read
  chosen   \* its first selection

repository == <<tree, names, edits>>
local      == <<direct, saw, chosen>>
vars       == <<repository, plan, result, pc, local>>

-----------------------------------------------------------------------------
(* What the portable checker computes                                      *)

(* _distribution_changed_paths: different in any layer. *)
Changed == {p \in Path : \E l \in Layer : tree[l][p] # Base}

(* What is committed or staged is the old asset or the one in the work     *)
(* tree, which is what the tests read.                                     *)
LayersKnown ==
  \A p \in Changed : {tree["head"][p], tree["index"][p]} \subseteq {Base, tree["work"][p]}

(* Faulty: any file may belong to the distribution. *)
Selection_AnyPaths == IF Changed # {} /\ LayersKnown THEN tree ELSE None

(* distribution_selection: a fingerprint of everything that is changed. *)
Selection ==
  IF Changed # {} /\ Changed \subseteq Distribution /\ LayersKnown THEN tree ELSE None

DocumentOnly ==
  Selection # None /\ names[tree["work"][Contract]] = tree["work"][Checker]

(* distribution_quality_plan of a repository with a legacy adapter. *)
CurrentPlan ==
  [paths   |-> Changed,
   profile |-> IF DocumentOnly THEN "document-distribution" ELSE "repository-canonical",
   tools   |-> [p \in Tool |-> tree["work"][p]]]

Valid == plan = CurrentPlan

-----------------------------------------------------------------------------
Unread == [p \in Tool |-> None]

Init ==
  /\ tree = [l \in Layer |-> [p \in Path |-> Base]]
  /\ names = [v \in Version |-> Base] /\ edits = 0
  /\ plan = None /\ result = None
  /\ direct = {} /\ pc = [g \in Gate |-> "idle"]
  /\ saw = [g \in Gate |-> Unread] /\ chosen = [g \in Gate |-> None]

At(g, step)   == pc[g] = step
Goto(g, step) == pc' = [pc EXCEPT ![g] = step]

(* The gate ends; what its processes knew is gone. *)
End(g, how) ==
  /\ Goto(g, how)
  /\ saw' = [saw EXCEPT ![g] = Unread] /\ chosen' = [chosen EXCEPT ![g] = None]

MakePlan ==
  /\ plan = None /\ Changed # {}
  /\ plan' = CurrentPlan
  /\ UNCHANGED <<repository, result, pc, local>>

(* Called with the plan: --build-check-plan-profile. *)
ReadProfile(g) ==
  /\ At(g, "idle") /\ plan # None /\ Valid
  /\ Goto(g, IF plan.profile = "document-distribution" THEN "select" ELSE "execute")
  /\ UNCHANGED <<repository, plan, result, local>>

Refused(g) ==
  /\ At(g, "idle") /\ plan # None
  /\ Goto(g, "trap")
  /\ UNCHANGED <<repository, plan, result, local>>

-----------------------------------------------------------------------------
(* --document-distribution                                                 *)

StartDirect(g) ==
  /\ At(g, "idle") /\ Goto(g, "select")
  /\ direct' = direct \cup {g}
  /\ UNCHANGED <<repository, plan, result, saw, chosen>>

(* The guard has found nothing wrong. *)
Select(g) ==
  /\ At(g, "select") /\ Selection # None
  /\ chosen' = [chosen EXCEPT ![g] = Selection]
  /\ Goto(g, "tests")
  /\ UNCHANGED <<repository, plan, result, direct, saw>>

(* No property is about what they make of the other files. *)
ToRead(g) == IF At(g, "tests") THEN Distribution ELSE Tool

AllRead(g) == \A p \in ToRead(g) : saw[g][p] # None

Read(g, p) ==
  /\ At(g, "tests") \/ At(g, "checks")
  /\ p \in ToRead(g) /\ saw[g][p] = None
  /\ saw' = [saw EXCEPT ![g][p] = tree["work"][p]]
  /\ UNCHANGED <<repository, plan, result, pc, direct, chosen>>

(* Faulty: whether the inputs changed during the tests is not asked. *)
Reselect_Skipped(g) ==
  /\ At(g, "tests") /\ AllRead(g)
  /\ IF g \in direct THEN End(g, "ok") ELSE Goto(g, "write") /\ UNCHANGED <<saw, chosen>>
  /\ UNCHANGED <<repository, plan, result, direct>>

Reselect(g) ==
  /\ At(g, "tests") /\ AllRead(g) /\ Selection = chosen[g]
  /\ IF g \in direct THEN End(g, "ok") ELSE Goto(g, "write") /\ UNCHANGED <<saw, chosen>>
  /\ UNCHANGED <<repository, plan, result, direct>>

-----------------------------------------------------------------------------
(* repository-canonical                                                    *)

Execute(g) ==
  /\ At(g, "execute") /\ Valid
  /\ Goto(g, "checks")
  /\ UNCHANGED <<repository, plan, result, local>>

ChecksPass(g) ==
  /\ At(g, "checks") /\ AllRead(g)
  /\ Goto(g, "write")
  /\ UNCHANGED <<repository, plan, result, local>>

-----------------------------------------------------------------------------
(* The result                                                              *)

Result(g, status) ==
  [status |-> status, gate |-> g, index |-> tree["index"], saw |-> saw[g]]

(* Faulty: the plan is not validated once more. *)
WritePassed_Unvalidated(g) ==
  /\ At(g, "write") /\ result = None
  /\ result' = Result(g, "passed")
  /\ End(g, "ok")
  /\ UNCHANGED <<repository, plan, direct>>

(* Faulty: a result that is there already is good enough. *)
WritePassed_Exists(g) ==
  /\ At(g, "write") /\ Valid
  /\ result' = IF result = None THEN Result(g, "passed") ELSE result
  /\ End(g, "ok")
  /\ UNCHANGED <<repository, plan, direct>>

(* O_EXCL: written once. *)
WritePassed(g) ==
  /\ At(g, "write") /\ Valid /\ result = None
  /\ result' = Result(g, "passed")
  /\ End(g, "ok")
  /\ UNCHANGED <<repository, plan, direct>>

(* The file was created and not written. *)
WriteTorn(g) ==
  /\ At(g, "write") /\ Valid /\ result = None
  /\ result' = Result(g, "torn")
  /\ End(g, "trap")
  /\ UNCHANGED <<repository, plan, direct>>

(* A command fails, or what a step asks for does not hold. *)
Fail(g) ==
  /\ pc[g] \in {"select", "tests", "execute", "checks", "write"}
  /\ End(g, IF g \in direct THEN "failed" ELSE "trap")
  /\ direct' = direct \ {g}
  /\ UNCHANGED <<repository, plan, result>>

(* The EXIT trap writes a failed result if it can; its errors are ignored. *)
Trap(g) ==
  /\ At(g, "trap")
  /\ result' \in {result} \cup
       (IF Valid /\ result = None THEN {Result(g, "failed"), Result(g, "torn")} ELSE {})
  /\ End(g, "failed")
  /\ UNCHANGED <<repository, plan, direct>>

Kill(g) ==
  /\ pc[g] \notin {"idle", "ok", "failed"}
  /\ End(g, "failed")
  /\ direct' = direct \ {g}
  /\ UNCHANGED <<repository, plan, result>>

-----------------------------------------------------------------------------
(* The people and programs that change the repository                      *)

(* A file is edited, or a new distribution copied. A new contract names    *)
(* the checker that lies beside it.                                        *)
Edit(changed) ==
  /\ edits < MaxVersion /\ edits' = edits + 1
  /\ tree' = [tree EXCEPT !["work"] = [p \in Path |-> IF p \in changed THEN edits' ELSE @[p]]]
  /\ names' = IF Contract \in changed THEN [names EXCEPT ![edits'] = tree'["work"][Checker]]
              ELSE names
  /\ UNCHANGED <<plan, result, pc, local>>

Stage(p) ==
  /\ tree["index"][p] # tree["work"][p]
  /\ tree' = [tree EXCEPT !["index"][p] = tree["work"][p]]
  /\ UNCHANGED <<names, edits, plan, result, pc, local>>

Commit ==
  /\ tree["head"] # tree["index"]
  /\ tree' = [tree EXCEPT !["head"] = tree["index"]]
  /\ UNCHANGED <<names, edits, plan, result, pc, local>>

GateStep(g) ==
  \/ ReadProfile(g) \/ Refused(g) \/ StartDirect(g) \/ Select(g) \/ Reselect(g)
  \/ \E p \in Tool : Read(g, p)
  \/ Execute(g) \/ ChecksPass(g)
  \/ WritePassed(g) \/ WriteTorn(g) \/ Fail(g) \/ Trap(g) \/ Kill(g)

Next ==
  \/ \E g \in Gate : GateStep(g)
  \/ MakePlan
  \/ (\E p \in Path : Edit({p}) \/ Stage(p)) \/ Edit(Distribution) \/ Commit

Spec == Init /\ [][Next]_vars

-----------------------------------------------------------------------------
(* Properties                                                              *)

TypeOK ==
  /\ tree \in Tree /\ names \in [Version -> Version] /\ edits \in Version
  /\ plan = None \/
       /\ plan \in Plan /\ plan.paths # {}
       /\ plan.profile = "document-distribution" => plan.paths \subseteq Distribution
  /\ result = None \/ (result \in Outcome /\ result.gate \notin direct)
  /\ direct \subseteq Gate
  /\ pc \in [Gate -> {"idle", "select", "tests", "execute", "checks",
                      "write", "trap", "ok", "failed"}]
  /\ saw \in [Gate -> [Tool -> Version \cup {None}]]
  /\ chosen \in [Gate -> Tree \cup {None}]

(* When a gate of the distribution profile says OK, every file of HEAD, of *)
(* the index and of the work tree is the one of the merge base or the very *)
(* one its tests have read, whatever was edited, staged and committed      *)
(* since it began.                                                         *)
VerifiedLayers ==
  [][\A g \in Gate :
       /\ pc[g] # "ok" /\ pc'[g] = "ok"
       /\ g \in direct \/ plan.profile = "document-distribution"
       => \A l \in Layer, p \in Path : tree[l][p] = Base \/ (p \in Tool /\ tree[l][p] = saw[g][p])]_vars

(* A passed result was produced by the adapter, the checker and the        *)
(* contract that its plan names, from the first check to the last.         *)
ToolsUnchanged ==
  result # None /\ result.status = "passed" =>
    \A p \in Tool : result.saw[p] \in {plan.tools[p], None}

(* A gate with a plan and a result path says OK only if the result there   *)
(* is its own and says passed.                                             *)
OkMeansPassed ==
  \A g \in Gate \ direct :
    pc[g] = "ok" => result # None /\ result.status = "passed" /\ result.gate = g
=============================================================================
