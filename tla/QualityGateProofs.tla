------------------------- MODULE QualityGateProofs -------------------------
(***************************************************************************)
(* Theorems about QualityGate, for any number of gates and of edits. The   *)
(* argument is about versions: an edit makes a version newer than all      *)
(* others, so that a file which is at the end what it was at the beginning *)
(* was so whenever a check has read it. IInv says what each gate knows of  *)
(* the plan, of its selection and of what its checks have read.            *)
(***************************************************************************)
EXTENDS QualityGate, TLAPS

Working == {"select", "tests", "execute", "checks", "write"}

(* No file is newer than the last edit, or older than in the plan.         *)
RepositoryInv ==
  /\ \A p \in Path : tree["work"][p] <= edits
  /\ plan # None => \A p \in Tool : plan.tools[p] <= tree["work"][p]

(* A gate without a plan ends with its tests; one with a plan knows it.    *)
PlanOf(g) ==
  /\ g \in direct => pc[g] \in {"select", "tests", "ok"}
  /\ pc[g] \in Working /\ g \notin direct => plan # None
  /\ pc[g] \in {"execute", "checks"} => plan.profile = "repository-canonical"

(* What its checks have read is not newer than the file is, and not older  *)
(* than the plan has it.                                                   *)
SawOf(g) ==
  /\ pc[g] \notin {"tests", "checks", "write"} => saw[g] = Unread
  /\ \A p \in Tool : saw[g][p] # None =>
       /\ saw[g][p] <= tree["work"][p]
       /\ g \notin direct => plan # None /\ plan.tools[p] <= saw[g][p]

(* Nor is it older than the file was when the gate selected.               *)
ChosenOf(g) ==
  pc[g] = "tests" =>
    /\ chosen[g] \in Tree
    /\ \A p \in Tool : /\ chosen[g]["work"][p] <= tree["work"][p]
                       /\ saw[g][p] # None => chosen[g]["work"][p] <= saw[g][p]

(* A plan of the distribution profile is written off by its tests.         *)
WriteOf(g) ==
  pc[g] = "write" /\ plan.profile = "document-distribution" =>
    \A p \in Distribution : saw[g][p] # None

GateOf(g) == PlanOf(g) /\ SawOf(g) /\ ChosenOf(g) /\ WriteOf(g)

(* The result belongs to a gate that has come to its end.                  *)
ResultInv ==
  result # None => plan # None /\ pc[result.gate] \in {"ok", "trap", "failed"}

IInv ==
  /\ TypeOK /\ RepositoryInv /\ (\A g \in Gate : GateOf(g)) /\ ResultInv
  /\ ToolsUnchanged /\ OkMeansPassed

-----------------------------------------------------------------------------
LEMMA Sets ==
  /\ Tool \subseteq Path /\ Distribution \subseteq Tool
  /\ "head" \in Layer /\ "index" \in Layer /\ "work" \in Layer
  /\ Base \in Version /\ Version \subseteq Nat /\ None \notin Version
  BY GateAssumption, NoneAssumption DEF Tool, Path, Distribution, Layer, Version, Base

LEMMA Plans ==
  ASSUME TypeOK
  PROVE  /\ CurrentPlan \in Plan /\ CurrentPlan # None
         /\ CurrentPlan.paths = Changed
         /\ \A p \in Tool : CurrentPlan.tools[p] = tree["work"][p]
         /\ CurrentPlan.profile = "document-distribution" <=> DocumentOnly
<1>1. tree \in [Layer -> [Path -> Version]]
  BY DEF TypeOK, Tree
<1>2. [p \in Tool |-> tree["work"][p]] \in [Tool -> Version]
  BY <1>1, Sets
<1>3. Changed \in SUBSET Path
  BY DEF Changed
<1>4. CurrentPlan \in Plan
  BY <1>2, <1>3 DEF CurrentPlan, Plan, Profile
<1> QED
  BY <1>4, NoneAssumption DEF CurrentPlan

(* What a selection has found out about the repository.                    *)
LEMMA Selected ==
  ASSUME TypeOK, Selection # None
  PROVE  /\ Selection = tree /\ Changed \subseteq Distribution
         /\ \A l \in Layer, p \in Path \ Distribution : tree[l][p] = Base
         /\ \A l \in Layer, p \in Path : tree[l][p] \in {Base, tree["work"][p]}
<1>1. Selection = tree /\ Changed \subseteq Distribution /\ LayersKnown
  BY DEF Selection
<1>2. \A l \in Layer, p \in Path : p \notin Changed => tree[l][p] = Base
  BY DEF Changed
<1>3. \A l \in Layer, p \in Changed : tree[l][p] \in {Base, tree["work"][p]}
  BY <1>1 DEF LayersKnown, Layer
<1> QED
  BY <1>1, <1>2, <1>3

(* What a plan of the distribution profile that is still valid says.       *)
LEMMA ValidPlan ==
  ASSUME TypeOK, Valid
  PROVE  /\ plan # None /\ plan \in Plan
         /\ \A p \in Tool : plan.tools[p] = tree["work"][p]
         /\ plan.profile = "document-distribution" => Selection # None
  BY Plans DEF Valid, DocumentOnly

LEMMA Results ==
  ASSUME TypeOK, NEW g \in Gate, NEW status \in {"passed", "failed", "torn"}
  PROVE  /\ Result(g, status) \in Outcome /\ Result(g, status) # None
         /\ Result(g, status).gate = g /\ Result(g, status).status = status
         /\ Result(g, status).saw = saw[g]
<1>1. tree["index"] \in [Path -> Version] /\ saw[g] \in [Tool -> Version \cup {None}]
  BY Sets DEF TypeOK, Tree
<1>2. Result(g, status) \in Outcome
  BY <1>1 DEF Result, Outcome
<1> QED
  BY <1>2, NoneAssumption DEF Result

(* What a step of a gate leaves alone.                                     *)
LEMMA GateFrame ==
  ASSUME TypeOK, NEW g \in Gate, GateStep(g)
  PROVE  /\ UNCHANGED <<repository, plan>>
         /\ \A h \in Gate \ {g} :
              /\ pc'[h] = pc[h] /\ saw'[h] = saw[h] /\ chosen'[h] = chosen[h]
              /\ h \in direct' <=> h \in direct
<1> USE DEF At, Goto, End, repository, local, TypeOK
<1>1. CASE ReadProfile(g) \/ Refused(g)
  BY <1>1 DEF ReadProfile, Refused
<1>2. CASE StartDirect(g) \/ Select(g)
  BY <1>2 DEF StartDirect, Select
<1>3. CASE Reselect(g)
  BY <1>3 DEF Reselect
<1>4. ASSUME NEW p \in Tool, Read(g, p)
      PROVE  UNCHANGED <<repository, plan, pc, direct, chosen>> /\ \A h \in Gate \ {g} : saw'[h] = saw[h]
  BY <1>4 DEF Read
<1>5. CASE Execute(g) \/ ChecksPass(g)
  BY <1>5 DEF Execute, ChecksPass
<1>6. CASE WritePassed(g) \/ WriteTorn(g)
  BY <1>6 DEF WritePassed, WriteTorn
<1>7. CASE Fail(g) \/ Kill(g)
  BY <1>7 DEF Fail, Kill
<1>8. CASE Trap(g)
  BY <1>8 DEF Trap
<1> QED
  BY <1>1, <1>2, <1>3, <1>4, <1>5, <1>6, <1>7, <1>8 DEF GateStep

-----------------------------------------------------------------------------
(* The people and programs that change the repository                      *)

LEMMA Edits ==
  ASSUME TypeOK, RepositoryInv, NEW changed \in SUBSET Path, Edit(changed)
  PROVE  /\ tree' \in Tree /\ names' \in [Version -> Version] /\ edits' \in Version
         /\ \A p \in Path : tree["work"][p] <= tree'["work"][p] /\ tree'["work"][p] <= edits'
<1>1. tree \in [Layer -> [Path -> Version]] /\ edits \in Version /\ edits + 1 \in Version
      /\ edits' = edits + 1
  BY GateAssumption DEF Edit, TypeOK, Tree, Version, Base
<1> DEFINE work == [p \in Path |-> IF p \in changed THEN edits + 1 ELSE tree["work"][p]]
<1>2. work \in [Path -> Version]
  BY <1>1, Sets
<1>3. tree' = [tree EXCEPT !["work"] = work]
  BY <1>1 DEF Edit
<1>4. tree' \in Tree /\ tree'["work"] = work
  BY <1>1, <1>2, <1>3, Sets DEF Tree
<1>5. names' \in [Version -> Version]
  BY <1>1, <1>2, <1>4, Sets DEF Edit, TypeOK, Tool, Distribution, Path
<1>6. ASSUME NEW p \in Path
      PROVE  tree["work"][p] <= tree'["work"][p] /\ tree'["work"][p] <= edits'
  <2>1. tree["work"][p] \in Nat /\ tree["work"][p] <= edits /\ edits \in Nat
    BY <1>1, Sets DEF RepositoryInv
  <2> QED
    BY <1>1, <1>4, <2>1
<1> QED
  BY <1>1, <1>4, <1>5, <1>6

LEMMA Stagings ==
  ASSUME TypeOK, Commit \/ \E p \in Path : Stage(p)
  PROVE  tree' \in Tree /\ tree'["work"] = tree["work"]
<1>1. tree \in [Layer -> [Path -> Version]] /\ "head" # "work" /\ "index" # "work"
  BY DEF TypeOK, Tree
<1>2. tree["index"] \in [Path -> Version]
  BY <1>1, Sets
<1>3. CASE Commit
  BY <1>1, <1>2, <1>3, Sets DEF Commit, Tree
<1>4. ASSUME NEW p \in Path, Stage(p)
      PROVE  tree' \in Tree /\ tree'["work"] = tree["work"]
  <2>1. [tree["index"] EXCEPT ![p] = tree["work"][p]] \in [Path -> Version]
    BY <1>1, <1>2, Sets
  <2> QED
    BY <1>1, <1>4, <2>1, Sets DEF Stage, Tree
<1> QED
  BY <1>3, <1>4

(* The repository only grows newer, and the plan is stored once.           *)
LEMMA Around ==
  ASSUME IInv, MakePlan \/ (\E p \in Path : Edit({p}) \/ Stage(p)) \/ Edit(Distribution) \/ Commit
  PROVE  /\ TypeOK' /\ RepositoryInv' /\ UNCHANGED <<result, pc, local>>
         /\ plan # None => plan' = plan
         /\ \A p \in Path : tree["work"][p] <= tree'["work"][p]
<1>1. /\ TypeOK /\ RepositoryInv /\ edits \in Nat
      /\ \A p \in Path : tree["work"][p] \in Nat
  <2>1. TypeOK /\ RepositoryInv /\ edits \in Nat /\ tree \in [Layer -> [Path -> Version]]
    BY Sets DEF IInv, TypeOK, Tree
  <2>2. tree["work"] \in [Path -> Version]
    BY <2>1, Sets
  <2> QED
    BY <2>1, <2>2, Sets
<1>2. CASE MakePlan
  <2>1. plan' \in Plan /\ plan'.paths # {} /\ \A p \in Tool : plan'.tools[p] = tree["work"][p]
    BY <1>1, <1>2, Plans DEF MakePlan
  <2>2. plan'.profile = "document-distribution" => plan'.paths \subseteq Distribution
    BY <1>1, <1>2, Plans, Selected DEF MakePlan, DocumentOnly
  <2>3. TypeOK'
    BY <1>1, <1>2, <2>1, <2>2 DEF MakePlan, TypeOK, repository, local
  <2>4. RepositoryInv'
    BY <1>1, <1>2, <2>1, Sets DEF MakePlan, RepositoryInv, repository
  <2> QED
    BY <1>1, <1>2, <2>3, <2>4 DEF MakePlan, repository
<1>3. ASSUME tree' \in Tree, names' \in [Version -> Version], edits' \in Version,
             UNCHANGED <<plan, result, pc, local>>,
             \A p \in Path : tree["work"][p] <= tree'["work"][p] /\ tree'["work"][p] <= edits'
      PROVE  TypeOK' /\ RepositoryInv'
  <2>1. TypeOK'
    BY <1>1, <1>3 DEF TypeOK, local
  <2>2. ASSUME plan # None, NEW p \in Tool PROVE plan.tools[p] <= tree'["work"][p]
    <3>1. plan.tools \in [Tool -> Version] /\ tree'["work"] \in [Path -> Version] /\ p \in Path
      BY <1>1, <1>3, <2>2, Sets DEF TypeOK, Plan, Tree
    <3>2. plan.tools[p] \in Nat /\ tree'["work"][p] \in Nat
      BY <3>1, Sets
    <3>3. plan.tools[p] <= tree["work"][p] /\ tree["work"][p] <= tree'["work"][p]
      BY <1>1, <1>3, <2>2, <3>1 DEF RepositoryInv
    <3> QED
      BY <1>1, <3>1, <3>2, <3>3
  <2> QED
    BY <1>3, <2>1, <2>2 DEF RepositoryInv
<1>4. ASSUME NEW changed \in SUBSET Path, Edit(changed) PROVE TypeOK' /\ RepositoryInv'
      /\ UNCHANGED <<plan, result, pc, local>> /\ \A p \in Path : tree["work"][p] <= tree'["work"][p]
  BY <1>1, <1>3, <1>4, Edits DEF Edit
<1>5. CASE Commit \/ \E p \in Path : Stage(p)
  <2>1. UNCHANGED <<names, edits, plan, result, pc, local>>
    BY <1>5 DEF Commit, Stage
  <2>2. \A p \in Path : tree["work"][p] <= tree'["work"][p] /\ tree'["work"][p] <= edits'
    BY <1>1, <1>5, <2>1, Stagings DEF RepositoryInv
  <2> QED
    BY <1>1, <1>3, <1>5, <2>1, <2>2, Stagings DEF TypeOK
<1>6. {Distribution} \cup {{p} : p \in Path} \subseteq SUBSET Path
  BY Sets
<1> QED
  BY <1>2, <1>4, <1>5, <1>6

LEMMA AroundInv ==
  ASSUME IInv, MakePlan \/ (\E p \in Path : Edit({p}) \/ Stage(p)) \/ Edit(Distribution) \/ Commit
  PROVE  IInv'
<1>1. /\ TypeOK /\ TypeOK' /\ RepositoryInv' /\ UNCHANGED <<result, pc, direct, saw, chosen>>
      /\ plan # None => plan' = plan
      /\ \A p \in Tool : tree["work"][p] <= tree'["work"][p]
  BY Around, Sets DEF IInv, local
<1>2. ASSUME NEW g \in Gate PROVE GateOf(g)'
  <2>1. PlanOf(g) /\ SawOf(g) /\ ChosenOf(g) /\ WriteOf(g)
    BY DEF IInv, GateOf
  <2>2. PlanOf(g)'
    BY <1>1, <2>1 DEF PlanOf, Working
  <2>3. WriteOf(g)'
    BY <1>1, <2>1 DEF PlanOf, WriteOf, Working
  <2>4. tree["work"] \in [Path -> Version] /\ tree'["work"] \in [Path -> Version]
    BY <1>1, Sets DEF TypeOK, Tree
  <2>5. \A p \in Tool : tree["work"][p] \in Nat /\ tree'["work"][p] \in Nat
    BY <2>4, Sets
  <2>6. SawOf(g)'
    <3>1. saw[g] \in [Tool -> Version \cup {None}]
      BY <1>1 DEF TypeOK
    <3>2. \A p \in Tool : saw[g][p] # None => saw[g][p] \in Nat
      BY <3>1, Sets
    <3> QED
      BY <1>1, <2>1, <2>5, <3>2 DEF SawOf
  <2>7. ChosenOf(g)'
    <3> SUFFICES ASSUME pc[g] = "tests"
                 PROVE  \A p \in Tool : chosen[g]["work"][p] <= tree'["work"][p]
      BY <1>1, <2>1 DEF ChosenOf
    <3>1. chosen[g]["work"] \in [Path -> Version]
      BY <2>1, Sets DEF ChosenOf, Tree
    <3>2. \A p \in Tool : chosen[g]["work"][p] \in Nat
      BY <3>1, Sets
    <3> QED
      BY <1>1, <2>1, <2>5, <3>2 DEF ChosenOf
  <2> QED
    BY <2>2, <2>3, <2>6, <2>7 DEF GateOf
<1>3. ResultInv' /\ ToolsUnchanged' /\ OkMeansPassed'
  BY <1>1 DEF IInv, ResultInv, ToolsUnchanged, OkMeansPassed
<1> QED
  BY <1>1, <1>2, <1>3 DEF IInv

-----------------------------------------------------------------------------
(* The gates                                                               *)

LEMMA TypeGate ==
  ASSUME IInv, NEW g \in Gate, GateStep(g)
  PROVE  TypeOK'
<1>1. TypeOK /\ PlanOf(g) /\ ResultInv /\ Unread \in [Tool -> Version \cup {None}]
  BY DEF IInv, GateOf, Unread
<1>2. /\ tree' \in Tree /\ names' \in [Version -> Version] /\ edits' \in Version
      /\ plan' = None \/
           /\ plan' \in Plan /\ plan'.paths # {}
           /\ plan'.profile = "document-distribution" => plan'.paths \subseteq Distribution
  BY <1>1, GateFrame DEF TypeOK, repository
<1>3. /\ direct' \subseteq Gate
      /\ pc' \in [Gate -> {"idle", "select", "tests", "execute", "checks",
                           "write", "trap", "ok", "failed"}]
      /\ saw' \in [Gate -> [Tool -> Version \cup {None}]]
      /\ chosen' \in [Gate -> Tree \cup {None}]
  <2> USE <1>1 DEF TypeOK, At, Goto, End, repository, local
  <2>1. CASE ReadProfile(g) \/ Refused(g)
    BY <2>1 DEF ReadProfile, Refused
  <2>2. CASE StartDirect(g)
    BY <2>2 DEF StartDirect
  <2>3. CASE Select(g)
    <3>1. Selection \in Tree
      BY <2>3, Selected DEF Select
    <3> QED
      BY <2>3, <3>1 DEF Select
  <2>4. CASE Reselect(g)
    BY <2>4 DEF Reselect
  <2>5. ASSUME NEW p \in Tool, Read(g, p)
        PROVE  UNCHANGED <<direct, pc, chosen>> /\ saw' \in [Gate -> [Tool -> Version \cup {None}]]
    <3>1. tree["work"] \in [Path -> Version]
      BY Sets DEF Tree
    <3>2. [saw[g] EXCEPT ![p] = tree["work"][p]] \in [Tool -> Version \cup {None}]
      BY <3>1, Sets
    <3> QED
      BY <2>5, <3>2 DEF Read
  <2>6. CASE Execute(g) \/ ChecksPass(g)
    BY <2>6 DEF Execute, ChecksPass
  <2>7. CASE WritePassed(g) \/ WriteTorn(g)
    BY <2>7 DEF WritePassed, WriteTorn
  <2>8. CASE Fail(g) \/ Kill(g)
    <3>1. PICK how \in {"failed", "trap"} : End(g, how)
      BY <2>8 DEF Fail, Kill
    <3>2. direct' \subseteq direct
      BY <2>8 DEF Fail, Kill
    <3> QED
      BY <3>1, <3>2
  <2>9. CASE Trap(g)
    BY <2>9 DEF Trap
  <2> QED
    BY <2>1, <2>2, <2>3, <2>4, <2>5, <2>6, <2>7, <2>8, <2>9 DEF GateStep
<1>4. result' = None \/ (result' \in Outcome /\ result'.gate \notin direct')
  <2> USE <1>1 DEF TypeOK, ResultInv, PlanOf, At, Goto, End, repository, local
  <2>1. CASE StartDirect(g)
    <3>1. UNCHANGED result /\ direct' = direct \cup {g} /\ pc[g] = "idle"
      BY <2>1 DEF StartDirect
    <3>2. CASE result # None
      <4>1. result \in Outcome /\ result.gate \notin direct /\ result.gate # g
        BY <3>1, <3>2
      <4> QED
        BY <3>1, <4>1
    <3> QED
      BY <3>1, <3>2
  <2>2. CASE WritePassed(g) \/ WriteTorn(g)
    BY <2>2, Results DEF WritePassed, WriteTorn
  <2>3. CASE Trap(g)
    BY <2>3, Results DEF Trap
  <2>4. CASE UNCHANGED result /\ direct' \subseteq direct
    BY <2>4
  <2>5. CASE ReadProfile(g) \/ Refused(g) \/ Select(g) \/ Reselect(g) \/ Execute(g) \/ ChecksPass(g)
    BY <2>4, <2>5 DEF ReadProfile, Refused, Select, Reselect, Execute, ChecksPass
  <2>6. ASSUME NEW p \in Tool, Read(g, p) PROVE UNCHANGED result /\ direct' \subseteq direct
    BY <2>6 DEF Read
  <2>7. CASE Fail(g) \/ Kill(g)
    BY <2>4, <2>7 DEF Fail, Kill
  <2> QED
    BY <2>1, <2>2, <2>3, <2>4, <2>5, <2>6, <2>7 DEF GateStep
<1> QED
  BY <1>2, <1>3, <1>4 DEF TypeOK

(* The gate that takes the step.                                           *)
LEMMA OwnStep ==
  ASSUME IInv, NEW g \in Gate, GateStep(g)
  PROVE  GateOf(g)'
<1>1. /\ TypeOK /\ RepositoryInv /\ PlanOf(g) /\ SawOf(g) /\ ChosenOf(g) /\ WriteOf(g)
      /\ UNCHANGED <<repository, plan>> /\ tree' = tree
  BY GateFrame DEF IInv, GateOf, repository
<1>2. /\ saw[g] \in [Tool -> Version \cup {None}] /\ pc \in [Gate -> {pc[h] : h \in Gate}]
      /\ DOMAIN pc = Gate /\ DOMAIN saw = Gate /\ DOMAIN chosen = Gate
  BY <1>1 DEF TypeOK
<1> DEFINE Blank == \A p \in Tool : Unread[p] = None
<1>3. Blank
  BY DEF Unread
<1> USE <1>1, <1>2 DEF At, Goto, repository, local
(* It ends, or is started with nothing read.                               *)
<1>4. ASSUME pc'[g] \in {"idle", "select", "execute", "trap", "ok", "failed"}, saw'[g] = Unread, PlanOf(g)'
      PROVE  GateOf(g)'
  BY <1>3, <1>4 DEF GateOf, SawOf, ChosenOf, WriteOf
<1>5. CASE ReadProfile(g) \/ Refused(g)
  <2>1. PlanOf(g)'
    BY <1>5 DEF ReadProfile, Refused, PlanOf, Working, TypeOK, Plan, Profile
  <2>2. saw'[g] = Unread /\ pc'[g] \in {"select", "execute", "trap"}
    BY <1>5 DEF ReadProfile, Refused, SawOf
  <2> QED
    BY <1>4, <2>1, <2>2
<1>6. CASE StartDirect(g)
  <2>1. PlanOf(g)' /\ saw'[g] = Unread /\ pc'[g] = "select"
    BY <1>6 DEF StartDirect, PlanOf, Working, SawOf
  <2> QED
    BY <1>4, <2>1
<1>7. CASE Select(g)
  <2>1. /\ pc'[g] = "tests" /\ chosen'[g] = tree /\ saw'[g] = Unread
        /\ UNCHANGED direct /\ pc[g] = "select"
    BY <1>7, Selected DEF Select, SawOf
  <2>2. tree["work"] \in [Path -> Version]
    BY Sets DEF TypeOK, Tree
  <2>3. \A p \in Tool : tree["work"][p] <= tree["work"][p]
    BY <2>2, Sets
  <2>4. PlanOf(g)'
    BY <2>1 DEF PlanOf, Working
  <2> QED
    BY <1>3, <2>1, <2>3, <2>4 DEF GateOf, SawOf, ChosenOf, WriteOf, TypeOK
<1>8. ASSUME NEW p \in Tool, Read(g, p) PROVE GateOf(g)'
  <2>1. /\ pc' = pc /\ direct' = direct /\ chosen' = chosen /\ pc[g] \in {"tests", "checks"}
        /\ saw'[g] = [saw[g] EXCEPT ![p] = tree["work"][p]]
    BY <1>8 DEF Read
  <2>2. /\ saw'[g][p] = tree["work"][p]
        /\ \A q \in Tool \ {p} : saw'[g][q] = saw[g][q]
    BY <2>1
  <2>3. tree["work"] \in [Path -> Version]
    BY Sets DEF TypeOK, Tree
  <2>4. tree["work"][p] <= tree["work"][p] /\ tree["work"][p] # None
    BY <2>3, Sets
  <2>5. PlanOf(g)' /\ WriteOf(g)'
    BY <2>1 DEF PlanOf, WriteOf, Working
  <2>6. SawOf(g)'
    BY <2>1, <2>2, <2>4 DEF SawOf, PlanOf, Working, RepositoryInv
  <2>7. ChosenOf(g)'
    BY <2>1, <2>2, <2>4 DEF ChosenOf
  <2> QED
    BY <2>5, <2>6, <2>7 DEF GateOf
<1>9. ASSUME NEW how \in {"ok", "trap", "failed"}, End(g, how), how = "ok" \/ g \notin direct'
      PROVE  GateOf(g)'
  <2>1. pc'[g] = how /\ saw'[g] = Unread
    BY <1>9 DEF End
  <2>2. PlanOf(g)'
    BY <1>9, <2>1 DEF PlanOf, Working
  <2> QED
    BY <1>4, <2>1, <2>2
<1>10. CASE Reselect(g)
  <2>1. CASE g \in direct
    BY <1>9, <1>10, <2>1 DEF Reselect
  <2>2. CASE g \notin direct
    <3>1. pc[g] = "tests" /\ pc'[g] = "write" /\ UNCHANGED <<saw, chosen, direct>> /\ AllRead(g)
      BY <1>10, <2>2 DEF Reselect
    <3>2. \A p \in Distribution : saw[g][p] # None
      BY <3>1 DEF AllRead, ToRead
    <3>3. PlanOf(g)'
      BY <2>2, <3>1 DEF PlanOf, Working
    <3> QED
      BY <3>1, <3>2, <3>3 DEF GateOf, SawOf, ChosenOf, WriteOf
  <2> QED
    BY <2>1, <2>2
<1>11. CASE Execute(g)
  <2>1. pc[g] = "execute" /\ pc'[g] = "checks" /\ UNCHANGED <<saw, chosen, direct>>
    BY <1>11 DEF Execute
  <2> QED
    BY <2>1 DEF GateOf, PlanOf, SawOf, ChosenOf, WriteOf, Working
<1>12. CASE ChecksPass(g)
  <2>1. pc[g] = "checks" /\ pc'[g] = "write" /\ UNCHANGED <<saw, chosen, direct>>
    BY <1>12 DEF ChecksPass
  <2> QED
    BY <2>1 DEF GateOf, PlanOf, SawOf, ChosenOf, WriteOf, Working
<1>13. CASE WritePassed(g) \/ WriteTorn(g)
  <2>1. g \notin direct' /\ (End(g, "ok") \/ End(g, "trap"))
    BY <1>13 DEF WritePassed, WriteTorn, PlanOf
  <2> QED
    BY <1>9, <2>1
<1>14. CASE Fail(g) \/ Kill(g)
  <2>1. g \notin direct' /\ (End(g, "failed") \/ End(g, "trap"))
    BY <1>14 DEF Fail, Kill
  <2> QED
    BY <1>9, <2>1
<1>15. CASE Trap(g)
  <2>1. g \notin direct' /\ End(g, "failed")
    BY <1>15 DEF Trap, PlanOf
  <2> QED
    BY <1>9, <2>1
<1> QED
  BY <1>5, <1>6, <1>7, <1>8, <1>10, <1>11, <1>12, <1>13, <1>14, <1>15 DEF GateStep

LEMMA GateInv ==
  ASSUME IInv, NEW g \in Gate, GateStep(g), NEW h \in Gate
  PROVE  GateOf(h)'
<1>1. CASE h = g
  BY <1>1, OwnStep
<1>2. CASE h # g
  <2>1. /\ UNCHANGED <<repository, plan>> /\ pc'[h] = pc[h] /\ saw'[h] = saw[h]
        /\ chosen'[h] = chosen[h] /\ (h \in direct' <=> h \in direct) /\ tree' = tree
    BY <1>2, GateFrame DEF IInv, repository
  <2>2. GateOf(h)
    BY DEF IInv
  <2> QED
    BY <2>1, <2>2 DEF GateOf, PlanOf, SawOf, ChosenOf, WriteOf
<1> QED
  BY <1>1, <1>2

(* The result is written once, by a gate that has read what it reports.    *)
LEMMA ResultStep ==
  ASSUME IInv, NEW g \in Gate, GateStep(g)
  PROVE  ResultInv' /\ ToolsUnchanged' /\ OkMeansPassed'
<1>1. /\ TypeOK /\ PlanOf(g) /\ SawOf(g) /\ ResultInv /\ ToolsUnchanged /\ OkMeansPassed
      /\ plan' = plan
  BY GateFrame DEF IInv, GateOf
<1> USE <1>1 DEF TypeOK, At, Goto, End, repository, local
<1>2. ASSUME UNCHANGED result, direct' \subseteq direct \cup {g},
             \A h \in Gate \ {g} : pc'[h] = pc[h],
             pc[g] \notin {"ok", "trap", "failed"} \/ pc'[g] \in {"trap", "failed"},
             pc'[g] = "ok" => g \in direct', pc[g] # "ok",
             \A h \in Gate \ {g} : h \in direct' <=> h \in direct
      PROVE  ResultInv' /\ ToolsUnchanged' /\ OkMeansPassed'
  <2>1. ResultInv'
    BY <1>2 DEF ResultInv, Outcome
  <2>2. ToolsUnchanged'
    BY <1>2 DEF ToolsUnchanged
  <2>3. OkMeansPassed'
    BY <1>2 DEF OkMeansPassed
  <2> QED
    BY <2>1, <2>2, <2>3
<1>3. CASE ReadProfile(g) \/ Refused(g) \/ StartDirect(g) \/ Select(g) \/ Execute(g) \/ ChecksPass(g)
  BY <1>2, <1>3 DEF ReadProfile, Refused, StartDirect, Select, Execute, ChecksPass
<1>4. CASE Reselect(g)
  BY <1>2, <1>4 DEF Reselect
<1>5. ASSUME NEW p \in Tool, Read(g, p) PROVE ResultInv' /\ ToolsUnchanged' /\ OkMeansPassed'
  BY <1>5 DEF Read, ResultInv, ToolsUnchanged, OkMeansPassed
<1>6. CASE Fail(g) \/ Kill(g)
  <2>1. /\ UNCHANGED result /\ direct' = direct \ {g} /\ pc[g] # "ok"
        /\ End(g, "failed") \/ End(g, "trap")
    BY <1>6 DEF Fail, Kill
  <2> QED
    BY <1>2, <2>1
<1>7. ASSUME result = None, UNCHANGED direct, Valid, g \notin direct,
             NEW status \in {"passed", "failed", "torn"}, result' = Result(g, status),
             NEW how \in {"ok", "trap", "failed"}, End(g, how), pc[g] # "ok",
             how = "ok" <=> status = "passed"
      PROVE  ResultInv' /\ ToolsUnchanged' /\ OkMeansPassed'
  <2>1. /\ plan # None /\ plan \in Plan
        /\ \A p \in Tool : plan.tools[p] = tree["work"][p]
    BY <1>7, ValidPlan
  <2>2. /\ result'.gate = g /\ result'.status = status /\ result'.saw = saw[g] /\ result' # None
    BY <1>7, Results
  <2>3. ResultInv'
    BY <1>7, <2>1, <2>2 DEF ResultInv
  <2>4. OkMeansPassed'
    BY <1>7, <2>2 DEF OkMeansPassed
  <2>5. ToolsUnchanged'
    <3> SUFFICES ASSUME NEW p \in Tool, saw[g][p] # None
                 PROVE  saw[g][p] = plan.tools[p]
      BY <2>2 DEF ToolsUnchanged
    <3>1. saw[g] \in [Tool -> Version \cup {None}] /\ plan.tools \in [Tool -> Version]
      BY <2>1 DEF Plan
    <3>2. saw[g][p] \in Nat /\ plan.tools[p] \in Nat
      BY <3>1, Sets
    <3>3. saw[g][p] <= tree["work"][p] /\ plan.tools[p] <= saw[g][p]
      BY <1>7 DEF SawOf
    <3>4. saw[g][p] <= plan.tools[p]
      BY <2>1, <3>3
    <3> HIDE <1>1 DEF TypeOK
    <3> QED
      BY <3>2, <3>3, <3>4
  <2> QED
    BY <2>3, <2>4, <2>5
<1>8. CASE WritePassed(g)
  BY <1>7, <1>8 DEF WritePassed, PlanOf
<1>9. CASE WriteTorn(g)
  BY <1>7, <1>9 DEF WriteTorn, PlanOf
<1>10. CASE Trap(g)
  <2>1. g \notin direct /\ UNCHANGED direct /\ End(g, "failed") /\ pc[g] = "trap"
    BY <1>10 DEF Trap, PlanOf
  <2>2. CASE UNCHANGED result
    BY <1>2, <2>1, <2>2
  <2>3. CASE Valid /\ result = None /\ result' \in {Result(g, "failed"), Result(g, "torn")}
    BY <1>7, <2>1, <2>3
  <2> QED
    BY <1>10, <2>2, <2>3 DEF Trap
<1> QED
  BY <1>3, <1>4, <1>5, <1>6, <1>8, <1>9, <1>10 DEF GateStep

-----------------------------------------------------------------------------
LEMMA InvInit == Init => IInv
<1> SUFFICES ASSUME Init PROVE IInv
  OBVIOUS
<1>1. tree \in Tree /\ names \in [Version -> Version] /\ edits \in Version
  BY Sets DEF Init, Tree, Base
<1>2. saw \in [Gate -> [Tool -> Version \cup {None}]] /\ chosen \in [Gate -> Tree \cup {None}]
  BY DEF Init, Unread
<1>3. TypeOK
  BY <1>1, <1>2 DEF Init, TypeOK
<1>4. RepositoryInv
  BY Sets DEF Init, RepositoryInv, Base
<1>5. \A g \in Gate : GateOf(g)
  BY DEF Init, GateOf, PlanOf, SawOf, ChosenOf, WriteOf, Working, Unread
<1> QED
  BY <1>3, <1>4, <1>5 DEF Init, IInv, ResultInv, ToolsUnchanged, OkMeansPassed

LEMMA InvStep == IInv /\ [Next]_vars => IInv'
<1> SUFFICES ASSUME IInv, [Next]_vars PROVE IInv'
  OBVIOUS
<1>1. ASSUME NEW g \in Gate, GateStep(g) PROVE IInv'
  <2>1. RepositoryInv'
    BY <1>1, GateFrame DEF IInv, RepositoryInv, repository
  <2> QED
    BY <1>1, <2>1, TypeGate, GateInv, ResultStep DEF IInv
<1>2. CASE UNCHANGED vars
  BY <1>2 DEF vars, repository, local, IInv, TypeOK, RepositoryInv, GateOf, PlanOf, SawOf, ChosenOf,
              WriteOf, ResultInv, ToolsUnchanged, OkMeansPassed
<1> QED
  BY <1>1, <1>2, AroundInv DEF Next

THEOREM Invariance == Spec => []IInv
  BY InvInit, InvStep, PTL DEF Spec

(* TypeOK: gates without a plan write no result, and a plan of the         *)
(* distribution profile names only files of the distribution.              *)
THEOREM Typed == Spec => []TypeOK
<1>1. IInv => TypeOK
  BY DEF IInv
<1> QED
  BY <1>1, Invariance, PTL

(* ToolsUnchanged: what write_distribution_check_result records as passed  *)
(* was checked by the tools of the stored plan, however often those files  *)
(* were edited, staged and committed while the gate ran.                   *)
THEOREM SameTools == Spec => []ToolsUnchanged
<1>1. IInv => ToolsUnchanged
  BY DEF IInv
<1> QED
  BY <1>1, Invariance, PTL

(* OkMeansPassed: of any number of gates with one plan, only the one whose *)
(* passed result is in place ends with OK.                                 *)
THEOREM OkIsOwn == Spec => []OkMeansPassed
<1>1. IInv => OkMeansPassed
  BY DEF IInv
<1> QED
  BY <1>1, Invariance, PTL

(* VerifiedLayers: an OK of the distribution profile covers what is in     *)
(* HEAD, in the index and in the work tree at that moment.                 *)
THEOREM LayersVerified == Spec => VerifiedLayers
<1> DEFINE Verified(g) == \A l \in Layer, p \in Path :
             tree[l][p] = Base \/ (p \in Tool /\ tree[l][p] = saw[g][p])
<1>1. ASSUME IInv, [Next]_vars, NEW g \in Gate, pc[g] # "ok", pc'[g] = "ok",
             g \in direct \/ plan.profile = "document-distribution"
      PROVE  Verified(g)
  <2>1. TypeOK /\ PlanOf(g) /\ SawOf(g) /\ ChosenOf(g) /\ WriteOf(g)
    BY <1>1 DEF IInv, GateOf
  <2>2. tree["work"] \in [Path -> Version] /\ saw[g] \in [Tool -> Version \cup {None}]
    BY <2>1, Sets DEF TypeOK, Tree
  <2>3. GateStep(g)
    <3>1. ~(MakePlan \/ (\E p \in Path : Edit({p}) \/ Stage(p)) \/ Edit(Distribution) \/ Commit)
      BY <1>1, Around
    <3>2. \A h \in Gate \ {g} : ~GateStep(h)
      BY <1>1, <2>1, GateFrame
    <3>3. ~UNCHANGED vars
      BY <1>1 DEF vars
    <3> QED
      BY <1>1, <3>1, <3>2, <3>3 DEF Next
  <2>4. (Reselect(g) /\ g \in direct) \/ WritePassed(g)
    BY <1>1, <2>1, <2>3 DEF GateStep, ReadProfile, Refused, StartDirect, Select, Reselect, Read, Execute,
            ChecksPass, WritePassed, WriteTorn, Fail, Trap, Kill, Goto, End, TypeOK
  <2>5. ASSUME Selection # None, NEW first \in [Path -> Version],
               \A p \in Tool : first[p] = tree["work"][p],
               \A p \in Distribution : saw[g][p] # None /\ first[p] <= saw[g][p]
        PROVE  Verified(g)
    <3>1. \A p \in Distribution : tree["work"][p] = saw[g][p]
      <4> SUFFICES ASSUME NEW p \in Distribution PROVE tree["work"][p] = saw[g][p]
        OBVIOUS
      <4>1. p \in Tool /\ saw[g][p] \in Nat /\ tree["work"][p] \in Nat
        BY <2>2, <2>5, Sets
      <4>2. saw[g][p] <= tree["work"][p] /\ tree["work"][p] <= saw[g][p]
        BY <2>1, <2>5, <4>1 DEF SawOf
      <4> QED
        BY <4>1, <4>2
    <3>2. \A l \in Layer, p \in Path \ Distribution : tree[l][p] = Base
      BY <2>1, <2>5, Selected
    <3>3. \A l \in Layer, p \in Path : tree[l][p] \in {Base, tree["work"][p]}
      BY <2>1, <2>5, Selected
    <3> QED
      BY <3>1, <3>2, <3>3, Sets
  <2>6. CASE Reselect(g) /\ g \in direct
    <3>1. At(g, "tests") /\ AllRead(g) /\ Selection = chosen[g]
      BY <2>6 DEF Reselect
    <3>2. chosen[g] \in Tree /\ chosen[g] # None
      BY <2>1, <3>1, NoneAssumption DEF ChosenOf, At
    <3>3. chosen[g] = tree /\ chosen[g]["work"] = tree["work"]
      BY <2>1, <3>1, <3>2, Selected
    <3>4. \A p \in Distribution : saw[g][p] # None
      BY <3>1 DEF AllRead, ToRead
    <3>5. \A p \in Distribution : tree["work"][p] <= saw[g][p]
      BY <2>1, <3>1, <3>3, <3>4, Sets DEF ChosenOf, At
    <3> QED
      BY <2>2, <2>5, <3>1, <3>2, <3>4, <3>5
  <2>7. CASE WritePassed(g)
    <3>1. At(g, "write") /\ Valid /\ g \notin direct
      BY <2>1, <2>7 DEF WritePassed, At, PlanOf
    <3>2. /\ plan \in Plan /\ Selection # None
          /\ \A p \in Tool : plan.tools[p] = tree["work"][p]
      BY <1>1, <2>1, <3>1, ValidPlan
    <3>3. \A p \in Distribution : saw[g][p] # None
      BY <1>1, <2>1, <3>1 DEF WriteOf, At
    <3>4. \A p \in Distribution : tree["work"][p] <= saw[g][p]
      BY <2>1, <3>1, <3>2, <3>3, Sets DEF SawOf
    <3> QED
      BY <2>2, <2>5, <3>2, <3>3, <3>4
  <2> QED
    BY <2>4, <2>6, <2>7
<1>2. IInv /\ [Next]_vars =>
        [\A g \in Gate :
           /\ pc[g] # "ok" /\ pc'[g] = "ok"
           /\ g \in direct \/ plan.profile = "document-distribution"
           => \A l \in Layer, p \in Path :
                tree[l][p] = Base \/ (p \in Tool /\ tree[l][p] = saw[g][p])]_vars
  BY <1>1
<1> QED
  BY <1>2, Invariance, PTL DEF Spec, VerifiedLayers
=============================================================================
