-------------------------- MODULE CheckReuseProofs --------------------------
(***************************************************************************)
(* Theorems about CheckReuse, for any files, checks, imports and any       *)
(* number of runs and edits. Everything a check reads is among its sources *)
(* (Covered); what is staged is only replaced by something newer, so that  *)
(* a look at the inputs that still holds has held ever since (SeenStays,   *)
(* Same). DoneInv says so of what a run has executed, also when files are  *)
(* edited between its two looks; KnowInv carries results from run to run.  *)
(***************************************************************************)
EXTENDS CheckReuse, TLAPS

-----------------------------------------------------------------------------
(* What a check reads                                                      *)

LEMMA Constants ==
  /\ Tools \in Path /\ Tracked \subseteq Path /\ Tools \notin Tracked /\ Common \subseteq Tracked
  /\ \A c \in Check : Module[c] \subseteq Tracked /\ DeclaredReads(c) \subseteq Path \ {Tools}
  /\ \A p \in Path : Imports[p] \subseteq Tracked /\ Loads[p] \subseteq Tracked
  /\ \A p \in Path \ Dynamic : Loads[p] = {}
  BY ReuseAssumption DEF DeclaredReads

(* A set that contains where one starts and is never left contains all     *)
(* that is reached.                                                        *)
LEMMA Reached ==
  ASSUME NEW from, NEW next, NEW s \in SUBSET Path,
         from \subseteq s, \A q \in s : next[q] \subseteq s
  PROVE  Closure(from, next) \subseteq s
  BY DEF Closure

(* Imports that are followed are tracked, and are never left.              *)
LEMMA Imported ==
  ASSUME NEW roots \in SUBSET Tracked
  PROVE  /\ roots \subseteq Closure(roots, Imports) /\ Closure(roots, Imports) \subseteq Tracked
         /\ \A q \in Closure(roots, Imports) : Imports[q] \subseteq Closure(roots, Imports)
<1>1. Closure(roots, Imports) \subseteq Tracked
  <2>1. Tracked \in SUBSET Path /\ \A q \in Tracked : Imports[q] \subseteq Tracked
    BY Constants
  <2> QED
    BY <2>1, Reached
<1>2. roots \subseteq Closure(roots, Imports)
  BY Constants DEF Closure
<1>3. ASSUME NEW q \in Closure(roots, Imports), NEW r \in Imports[q]
      PROVE  r \in Closure(roots, Imports)
  <2>1. r \in Path
    BY <1>1, Constants
  <2>2. ASSUME NEW s \in SUBSET Path, roots \subseteq s, \A x \in s : Imports[x] \subseteq s
        PROVE  r \in s
    <3>1. q \in s
      BY <2>2 DEF Closure
    <3> QED
      BY <2>2, <3>1
  <2> QED
    BY <2>1, <2>2 DEF Closure
<1> QED
  BY <1>1, <1>2, <1>3

(* What is loaded while a check runs is among its imports, or a loader has *)
(* made it depend on the whole tree.                                       *)
LEMMA Loaded ==
  ASSUME NEW roots \in SUBSET Tracked
  PROVE  Closure(roots, [p \in Path |-> Imports[p] \cup Loads[p]]) \subseteq ImportedSources(roots)
<1> DEFINE all   == [p \in Path |-> Imports[p] \cup Loads[p]]
           found == Closure(roots, Imports)
<1>1. found \subseteq Tracked /\ roots \subseteq found /\ \A q \in found : Imports[q] \subseteq found
  BY Imported
<1>2. Tracked \in SUBSET Path /\ \A q \in Tracked : all[q] \subseteq Tracked
  BY Constants
<1>3. CASE found \cap Dynamic # {}
  <2>1. ImportedSources(roots) = Tracked
    BY <1>1, <1>3 DEF ImportedSources
  <2>2. Closure(roots, all) \subseteq Tracked
    <3> HIDE DEF all
    <3> QED
      BY <1>2, Reached
  <2> QED
    BY <2>1, <2>2
<1>4. CASE found \cap Dynamic = {}
  <2>1. ImportedSources(roots) = found
    BY <1>1, <1>4 DEF ImportedSources
  <2>2. found \in SUBSET Path /\ \A q \in found : all[q] \subseteq found
    BY <1>1, <1>2, <1>4, Constants
  <2>3. Closure(roots, all) \subseteq found
    <3> HIDE DEF all, found
    <3> QED
      BY <1>1, <2>2, Reached
  <2> QED
    BY <2>1, <2>3
<1> QED
  BY <1>3, <1>4

LEMMA Covered ==
  ASSUME NEW c \in Check
  PROVE  /\ Sources[c] \subseteq Path /\ Tools \in Sources[c]
         /\ Reads[c] \subseteq Sources[c]
<1>1. CASE Module[c] = {}
  BY <1>1, Constants DEF Sources, Reads
<1>2. CASE Module[c] # {}
  <2>1. ImportedSources(Module[c]) \subseteq Tracked
    BY Constants DEF ImportedSources
  <2>2. Closure(Module[c], [p \in Path |-> Imports[p] \cup Loads[p]]) \subseteq ImportedSources(Module[c])
    BY Constants, Loaded
  <2>3. /\ Sources[c] = Common \cup {Tools} \cup DeclaredReads(c) \cup ImportedSources(Module[c])
        /\ Reads[c] = Common \cup {Tools} \cup DeclaredReads(c)
             \cup Closure(Module[c], [p \in Path |-> Imports[p] \cup Loads[p]])
    BY <1>2 DEF Sources, Reads
  <2> QED
    BY <2>1, <2>2, <2>3, Constants
<1> QED
  BY <1>1, <1>2

-----------------------------------------------------------------------------
(* Types and control                                                       *)

Step == {"idle", "select", "observe", "run", "trap"}
Runs == [pc : Step, prior : Recorded \cup {None}, reuse : SUBSET Check,
         snapshot : Snapshot \cup {None}, current : Check \cup {None},
         done : SUBSET Check, failed : SUBSET Check, mixed : SUBSET Check]

Fits(x) ==
  \A c \in Check : x[c].staged \in [Sources[c] -> Content] /\ x[c].read \in [DeclaredReads(c) -> Content]

(* A file of the work tree that is not what is staged is newer.            *)
FilesInv ==
  /\ tree \in [Path -> Content] /\ index \in [Tracked -> Content]
  /\ edits \in 0 .. MaxVersion /\ known \in BOOLEAN
  /\ \A p \in Path : tree[p].version <= edits
  /\ \A p \in Tracked : tree[p] = index[p] \/ index[p].version < tree[p].version

RunsInv ==
  /\ runs \in 0 .. MaxRuns /\ log \in [Check -> SUBSET Line]
  /\ result \in Recorded \cup {None}
  /\ result # None => Fits(result.inputs)
  /\ run \in Runs

(* What a run has begun with, and what it has not yet.                     *)
StepInv ==
  /\ run.pc \in {"idle", "select"} => run.reuse = {} /\ log = NoLog
  /\ run.pc \in {"idle", "select", "observe"} => run.done = {} /\ run.snapshot = None
  /\ run.pc # "trap" => run.failed = {}
  /\ run.pc # "run" => run.current = None
  /\ run.pc = "run" \/ run.done # {} => run.snapshot # None
  /\ run.current \notin run.reuse \cup run.done
  /\ run.reuse \cap (run.done \cup run.failed) = {} /\ run.done \cap run.failed = {}
  /\ run.mixed \subseteq run.done

(* A line of the log is about a check that has come so far in this run.    *)
LogOf(c) ==
  /\ "reused" \in log[c] => c \in run.reuse /\ log[c] = {"reused"}
  /\ "start" \in log[c] => c \in run.done \cup run.failed \cup {run.current}
  /\ "passed" \in log[c] => c \in run.done
  /\ "failed" \in log[c] => c \in run.failed

BaseInv == FilesInv /\ RunsInv /\ StepInv /\ \A c \in Check : LogOf(c)

LEMMA StagedType ==
  ASSUME FilesInv
  PROVE  /\ \A p \in Path : Staged[p] \in Content /\ Staged[p].version <= edits
         /\ \A p \in Path : Staged[p] = IF p \in Tracked THEN index[p] ELSE tree[p]
         /\ \A p \in Path : Staged[p].version \in Nat
<1>1. \A p \in Path : Staged[p] = IF p \in Tracked THEN index[p] ELSE tree[p]
  BY DEF Staged
<1>2. ASSUME NEW p \in Path
      PROVE  Staged[p] \in Content /\ Staged[p].version \in Nat /\ Staged[p].version <= edits
  <2>1. tree[p] \in Content /\ tree[p].version \in Nat /\ tree[p].version <= edits /\ edits \in Nat
    BY DEF FilesInv, Content
  <2>2. CASE p \in Tracked
    <3>1. index[p] \in Content /\ index[p].version \in Nat
      BY <2>2 DEF FilesInv, Content
    <3>2. index[p].version <= edits
      <4>1. CASE tree[p] = index[p]
        BY <2>1, <4>1
      <4>2. CASE index[p].version < tree[p].version
        BY <2>1, <3>1, <4>2
      <4> QED
        BY <2>2, <4>1, <4>2 DEF FilesInv
    <3> QED
      BY <1>1, <2>2, <3>1, <3>2
  <2> QED
    BY <1>1, <2>1, <2>2
<1> QED
  BY <1>1, <1>2

LEMMA Looks ==
  ASSUME FilesInv
  PROVE  /\ Inputs \in Snapshot /\ Inputs # None /\ Fits(Inputs)
         /\ \A c \in Check : \A p \in Sources[c] : Inputs[c].staged[p] = Staged[p]
<1>1. ASSUME NEW c \in Check
      PROVE  /\ Inputs[c] = [staged |-> [p \in Sources[c] |-> Staged[p]],
                             read |-> [p \in DeclaredReads(c) |-> tree[p]]]
             /\ Inputs[c].staged \in [Sources[c] -> Content]
             /\ Inputs[c].read \in [DeclaredReads(c) -> Content]
             /\ Inputs[c] \in [staged : Some, read : Some]
  <2>1. Sources[c] \in SUBSET Path /\ DeclaredReads(c) \in SUBSET Path
    BY Covered, Constants
  <2>2. Inputs[c] = [staged |-> [p \in Sources[c] |-> Staged[p]],
                     read |-> [p \in DeclaredReads(c) |-> tree[p]]]
    BY DEF Inputs
  <2>3. /\ [p \in Sources[c] |-> Staged[p]] \in [Sources[c] -> Content]
        /\ [p \in DeclaredReads(c) |-> tree[p]] \in [DeclaredReads(c) -> Content]
    BY <2>1, StagedType DEF FilesInv
  <2>4. [Sources[c] -> Content] \subseteq Some /\ [DeclaredReads(c) -> Content] \subseteq Some
    BY <2>1 DEF Some
  <2> QED
    BY <2>2, <2>3, <2>4
<1>2. Inputs \in [Check -> [staged : Some, read : Some]]
  <2>1. Inputs = [c \in Check |-> Inputs[c]]
    BY DEF Inputs
  <2> QED
    BY <1>1, <2>1
<1> QED
  BY <1>1, <1>2, NoneAssumption DEF Snapshot, Fits

LEMMA Written ==
  ASSUME BaseInv, NEW status \in {"passed", "failed"}, NEW checks \in [Check -> Status]
  PROVE  /\ Result(status, checks) \in Recorded /\ Result(status, checks) # None
         /\ Result(status, checks).status = status /\ Result(status, checks).checks = checks
         /\ Result(status, checks).inputs = Inputs
         /\ Result(status, checks).mixed = MixedPasses(run.prior)
<1>1. MixedPasses(run.prior) \subseteq Check
  BY DEF MixedPasses, Reuse, BaseInv, RunsInv, Runs
<1>2. Inputs \in Snapshot
  BY Looks DEF BaseInv
<1> QED
  BY <1>1, <1>2, NoneAssumption DEF Result, Recorded

LEMMA IdleRun ==
  /\ Idle \in Runs /\ Idle.pc = "idle" /\ Idle.prior = None /\ Idle.reuse = {} /\ Idle.snapshot = None
  /\ Idle.current = None /\ Idle.done = {} /\ Idle.failed = {} /\ Idle.mixed = {}
  BY DEF Idle, Runs, Step

LEMMA EmptyLog == NoLog \in [Check -> SUBSET Line] /\ \A c \in Check : NoLog[c] = {}
  BY DEF NoLog

LEMMA Emits ==
  ASSUME RunsInv, NEW checks \in SUBSET Check, NEW line \in Line, Emit(checks, line)
  PROVE  /\ log' \in [Check -> SUBSET Line]
         /\ \A c \in Check : log'[c] = log[c] \/ (c \in checks /\ log'[c] = log[c] \cup {line})
  BY DEF Emit, RunsInv

LEMMA Ended ==
  ASSUME BaseInv, Finish
  PROVE  /\ run' = Idle /\ run' \in Runs /\ log' \in [Check -> SUBSET Line]
         /\ StepInv' /\ \A c \in Check : LogOf(c)'
<1>1. run' = Idle /\ log' = NoLog
  BY DEF Finish
<1>2. None \notin Check
  BY NoneAssumption
<1>3. StepInv'
  BY <1>1, <1>2, IdleRun DEF StepInv
<1>4. \A c \in Check : LogOf(c)'
  BY <1>1, EmptyLog DEF LogOf
<1> QED
  BY <1>1, <1>2, <1>3, <1>4, IdleRun, EmptyLog

LEMMA BaseStep ==
  ASSUME BaseInv, [Next]_vars
  PROVE  BaseInv'
<1>1. /\ FilesInv /\ RunsInv /\ StepInv /\ (\A c \in Check : LogOf(c)) /\ run \in Runs
      /\ None \notin Check
  BY NoneAssumption DEF BaseInv, RunsInv
<1> USE <1>1 DEF At, files
<1>2. CASE Begin
  <2>1. /\ run' \in Runs /\ run'.pc = "select" /\ run'.reuse = {} /\ run'.snapshot = None
        /\ run'.current = None /\ run'.done = {} /\ run'.failed = {} /\ run'.mixed = {}
    <3>1. PICK prior \in Recorded \cup {None} : run' = [Idle EXCEPT !.pc = "select", !.prior = prior]
      <4>1. PICK prior \in {None, result} : run' = [Idle EXCEPT !.pc = "select", !.prior = prior]
        BY <1>2 DEF Begin
      <4>2. prior \in Recorded \cup {None}
        BY <4>1 DEF RunsInv
      <4> QED
        BY <4>1, <4>2
    <3> HIDE <1>1
    <3>2. run' \in Runs
      BY <3>1, IdleRun DEF Runs, Step
    <3> QED
      BY <3>1, <3>2, IdleRun DEF Runs
  <2>2. runs' \in 0 .. MaxRuns /\ UNCHANGED <<tree, index, known, edits, result, log>> /\ log = NoLog
    <3>1. runs \in 0 .. MaxRuns /\ runs < MaxRuns /\ runs' = runs + 1 /\ MaxRuns \in Nat
      <4>1. runs \in 0 .. MaxRuns
        BY DEF RunsInv
      <4> QED
        BY <1>2, <4>1, ReuseAssumption DEF Begin
    <3>2. log = NoLog /\ UNCHANGED <<tree, index, known, edits, result, log>>
      BY <1>2 DEF Begin, StepInv
    <3> QED
      BY <3>1, <3>2
  <2>3. \A c \in Check : LogOf(c)'
    BY <2>2, EmptyLog DEF LogOf
  <2>4. StepInv'
    BY <2>1, <2>2 DEF StepInv
  <2>5. FilesInv' /\ RunsInv'
    BY <2>1, <2>2 DEF FilesInv, RunsInv, Fits
  <2> QED
    BY <2>3, <2>4, <2>5 DEF BaseInv
(* A step of the run that goes on.                                         *)
<1>3. ASSUME UNCHANGED <<files, result, runs>>, run' \in Runs, log' \in [Check -> SUBSET Line],
             StepInv', \A c \in Check : LogOf(c)'
      PROVE  BaseInv'
  BY <1>3 DEF BaseInv, FilesInv, RunsInv, Fits
<1>4. CASE Select
  <2>1. /\ run' \in Runs /\ run'.pc = "observe" /\ run'.reuse = Reuse(run.prior) /\ run'.snapshot = None
        /\ run'.current = None /\ run'.done = {} /\ run'.failed = {} /\ run'.mixed = {} /\ log = NoLog
    BY <1>4 DEF Select, Runs, Step, StepInv, Reuse
  <2>2. /\ log' \in [Check -> SUBSET Line]
        /\ \A c \in Check : log'[c] = log[c] \/ (c \in run'.reuse /\ log'[c] = log[c] \cup {"reused"})
    <3>1. Reuse(run.prior) \in SUBSET Check /\ "reused" \in Line /\ Emit(Reuse(run.prior), "reused")
      BY <1>4 DEF Select, Reuse, Line
    <3> DEFINE reuse == Reuse(run.prior)
    <3>2. reuse \in SUBSET Check /\ Emit(reuse, "reused") /\ run'.reuse = reuse
      BY <2>1, <3>1
    <3> HIDE DEF reuse
    <3> QED
      BY <3>1, <3>2, Emits
  <2>3. \A c \in Check : LogOf(c)'
    BY <2>1, <2>2, EmptyLog DEF LogOf
  <2>4. StepInv'
    <3>1. None \notin run'.reuse
      BY <2>1 DEF Runs
    <3> QED
      BY <2>1, <3>1 DEF StepInv
  <2> QED
    BY <1>3, <1>4, <2>1, <2>2, <2>3, <2>4 DEF Select
<1>5. CASE Observe
  <2>1. /\ run' \in Runs /\ run'.pc = "run" /\ run'.reuse = run.reuse /\ run'.snapshot # None
        /\ run'.current = None /\ run'.done = {} /\ run'.failed = {} /\ run.done = {} /\ run.failed = {}
        /\ run'.mixed = {}
        /\ run.current = None
    BY <1>5, Looks DEF Observe, Runs, Step, StepInv
  <2>2. \A c \in Check : LogOf(c)'
    BY <1>5, <2>1 DEF Observe, LogOf
  <2>3. StepInv'
    BY <2>1 DEF StepInv
  <2> QED
    BY <1>3, <1>5, <2>1, <2>2, <2>3 DEF Observe, RunsInv
<1>6. ASSUME NEW c \in Check, StartCheck(c) PROVE BaseInv'
  <2>1. /\ run' \in Runs /\ run.pc = "run" /\ run'.pc = "run" /\ run'.reuse = run.reuse
        /\ run'.snapshot = run.snapshot /\ run'.current = c /\ run'.done = run.done /\ run'.failed = {}
        /\ c \notin run.reuse \cup run.done /\ run.current = None /\ run.failed = {}
        /\ run'.mixed = run.mixed /\ run.mixed \subseteq run.done
    BY <1>6 DEF StartCheck, Runs, StepInv
  <2>2. /\ log' \in [Check -> SUBSET Line]
        /\ \A d \in Check : log'[d] = log[d] \/ (d = c /\ log'[d] = log[d] \cup {"start"})
    <3>1. {c} \in SUBSET Check /\ "start" \in Line /\ Emit({c}, "start")
      BY <1>6 DEF StartCheck, Line
    <3>2. \A d \in Check : log'[d] = log[d] \/ (d \in {c} /\ log'[d] = log[d] \cup {"start"})
      BY <3>1, Emits
    <3> QED
      BY <3>1, <3>2, Emits
  <2>3. ASSUME NEW d \in Check PROVE LogOf(d)'
    BY <2>1, <2>2 DEF LogOf
  <2>4. StepInv'
    <3>1. run.reuse \cap run.done = {} /\ run.snapshot # None
      BY <2>1 DEF StepInv
    <3> QED
      BY <2>1, <3>1 DEF StepInv
  <2> QED
    BY <1>3, <1>6, <2>1, <2>2, <2>3, <2>4 DEF StartCheck
<1>7. CASE CheckPasses \/ CheckFails
  <2>1. PICK c \in Check : c = run.current
    BY <1>7 DEF CheckPasses, CheckFails, Runs
  <2>2. /\ run.pc = "run" /\ run.failed = {} /\ run.snapshot # None /\ c \notin run.reuse \cup run.done
    BY <2>1 DEF StepInv
  <2>3. CASE CheckPasses
    <3>1. /\ run' \in Runs /\ run'.pc = "run" /\ run'.reuse = run.reuse /\ run'.snapshot = run.snapshot
          /\ run'.current = None /\ run'.done = run.done \cup {c} /\ run'.failed = {}
          /\ run'.mixed \subseteq run.mixed \cup {c} /\ run.mixed \subseteq run.done
      <4>1. run' = [run EXCEPT !.current = None, !.done = run.done \cup {c},
                               !.mixed = IF Mixed(c) THEN run.mixed \cup {c} ELSE run.mixed]
        BY <2>1, <2>3 DEF CheckPasses
      <4> HIDE <1>1
      <4>2. run \in Runs /\ run.pc = "run" /\ run.failed = {} /\ run.mixed \subseteq run.done
        BY <1>1, <2>2 DEF StepInv
      <4>3. run'.mixed \subseteq run.mixed \cup {c} /\ run'.mixed \subseteq Check
        BY <4>1, <4>2 DEF Runs
      <4>4. /\ run'.pc = "run" /\ run'.reuse = run.reuse /\ run'.snapshot = run.snapshot
            /\ run'.current = None /\ run'.done = run.done \cup {c} /\ run'.failed = {}
        BY <4>1, <4>2 DEF Runs
      <4>5. run.done \cup {c} \in SUBSET Check
        BY <4>2 DEF Runs
      <4>6. run' \in Runs
        <5> DEFINE done  == run.done \cup {c}
                   mixed == IF Mixed(c) THEN run.mixed \cup {c} ELSE run.mixed
        <5>1. done \in SUBSET Check /\ mixed \in SUBSET Check /\ None \in Check \cup {None}
          BY <4>2, <4>5 DEF Runs
        <5>2. run' = [run EXCEPT !.current = None, !.done = done, !.mixed = mixed]
          BY <4>1
        <5> HIDE DEF done, mixed
        <5> QED
          BY <4>2, <5>1, <5>2 DEF Runs
      <4> QED
        BY <4>2, <4>3, <4>4, <4>6
    <3>2. /\ log' \in [Check -> SUBSET Line]
          /\ \A d \in Check : log'[d] = log[d] \/ (d = c /\ log'[d] = log[d] \cup {"passed"})
      <4>1. {c} \in SUBSET Check /\ "passed" \in Line /\ Emit({c}, "passed")
        BY <2>1, <2>3 DEF CheckPasses, Line
      <4>2. \A d \in Check : log'[d] = log[d] \/ (d \in {c} /\ log'[d] = log[d] \cup {"passed"})
        BY <4>1, Emits
      <4> QED
        BY <4>1, <4>2, Emits
    <3>3. ASSUME NEW d \in Check PROVE LogOf(d)'
      BY <2>1, <2>2, <3>1, <3>2 DEF LogOf
    <3>4. StepInv'
      <4>1. run.reuse \cap run.done = {} /\ None \notin run.reuse \cup run.done \cup {c}
        BY <2>2 DEF StepInv, Runs
      <4>2. run'.mixed \subseteq run'.done
        BY <3>1
      <4>3. /\ run'.reuse \cap (run'.done \cup run'.failed) = {} /\ run'.done \cap run'.failed = {}
            /\ run'.current \notin run'.reuse \cup run'.done /\ run'.snapshot # None
        BY <2>2, <3>1, <4>1
      <4> HIDE <1>1
      <4> QED
        BY <3>1, <4>2, <4>3 DEF StepInv
    <3> QED
      BY <1>3, <2>3, <3>1, <3>2, <3>3, <3>4 DEF CheckPasses
  <2>4. CASE CheckFails
    <3>1. /\ run' \in Runs /\ run'.pc = "trap" /\ run'.reuse = run.reuse /\ run'.snapshot = run.snapshot
          /\ run'.current = None /\ run'.done = run.done /\ run'.failed = {c}
          /\ run'.mixed = run.mixed /\ run.mixed \subseteq run.done
      <4>1. run.mixed \subseteq run.done
        BY DEF StepInv
      <4> QED
        BY <2>1, <2>2, <2>4, <4>1 DEF CheckFails, Runs, Step
    <3>2. /\ log' \in [Check -> SUBSET Line]
          /\ \A d \in Check : log'[d] = log[d] \/ (d = c /\ log'[d] = log[d] \cup {"failed"})
      <4>1. {c} \in SUBSET Check /\ "failed" \in Line /\ Emit({c}, "failed")
        BY <2>1, <2>4 DEF CheckFails, Line
      <4>2. \A d \in Check : log'[d] = log[d] \/ (d \in {c} /\ log'[d] = log[d] \cup {"failed"})
        BY <4>1, Emits
      <4> QED
        BY <4>1, <4>2, Emits
    <3>3. ASSUME NEW d \in Check PROVE LogOf(d)'
      BY <2>1, <2>2, <3>1, <3>2 DEF LogOf
    <3>4. StepInv'
      <4>1. run.reuse \cap run.done = {} /\ None \notin run.reuse \cup run.done \cup {c}
        BY <2>2 DEF StepInv, Runs
      <4>2. /\ run'.reuse \cap (run'.done \cup run'.failed) = {} /\ run'.done \cap run'.failed = {}
            /\ run'.current \notin run'.reuse \cup run'.done /\ run'.snapshot # None
        BY <2>2, <3>1, <4>1
      <4> HIDE <1>1
      <4> QED
        BY <3>1, <4>2 DEF StepInv
    <3> QED
      BY <1>3, <2>4, <3>1, <3>2, <3>3, <3>4 DEF CheckFails
  <2> QED
    BY <1>7, <2>3, <2>4
<1>8. CASE Fail
  <2>1. /\ run' \in Runs /\ run'.pc = "trap" /\ run'.reuse = run.reuse /\ run'.snapshot = run.snapshot
        /\ run'.current = None /\ run'.done = run.done /\ run'.failed = {} /\ run.current = None
        /\ run.failed = {} /\ run'.mixed = run.mixed /\ run.mixed \subseteq run.done
    BY <1>8 DEF Fail, Runs, Step, StepInv
  <2>2. \A c \in Check : LogOf(c)'
    BY <1>8, <2>1 DEF Fail, LogOf
  <2>3. StepInv'
    BY <2>1 DEF StepInv
  <2> QED
    BY <1>3, <1>8, <2>1, <2>2, <2>3 DEF Fail, RunsInv
<1>9. ASSUME Finish, UNCHANGED <<files, runs>>,
             result' = result \/ (result' \in Recorded /\ Fits(result'.inputs))
      PROVE  BaseInv'
  BY <1>9, Ended DEF BaseInv, FilesInv, RunsInv, Fits
<1>10. CASE WritePassed
  <2> DEFINE checks == [c \in Check |-> IF c \in Reuse(run.prior) THEN "not_run" ELSE "passed"]
  <2>1. checks \in [Check -> Status]
    BY DEF Status
  <2>2. result' = Result("passed", checks)
    BY <1>10 DEF WritePassed
  <2> HIDE DEF checks
  <2> QED
    BY <1>9, <1>10, <2>1, <2>2, Written, Looks DEF WritePassed
<1>11. CASE WriteFailed
  <2> DEFINE checks == [c \in Check |-> FailedStatus(c, Check \ Reuse(run.prior))]
  <2>1. checks \in [Check -> Status]
    BY DEF Status, FailedStatus
  <2>2. result' = Result("failed", checks)
    BY <1>11 DEF WriteFailed
  <2> HIDE DEF checks
  <2> QED
    BY <1>9, <1>11, <2>1, <2>2, Written, Looks DEF WriteFailed
<1>12. CASE NoResult
  BY <1>9, <1>12 DEF NoResult
(* Somebody changes a file, or stages it. *)
<1>13. ASSUME FilesInv', UNCHANGED <<result, run, log, runs>> PROVE BaseInv'
  BY <1>13 DEF BaseInv, RunsInv, StepInv, LogOf, Fits
<1>14. ASSUME NEW p \in Path, Edit(p) PROVE BaseInv'
  <2>1. PICK c \in Check \cup {None} : tree' = [tree EXCEPT ![p] = [version |-> edits + 1, breaks |-> c]]
    BY <1>14 DEF Edit
  <2>2. /\ edits \in Nat /\ edits' = edits + 1 /\ edits' \in 0 .. MaxVersion /\ edits < edits'
        /\ index' = index /\ known' \in BOOLEAN /\ UNCHANGED <<result, run, log, runs>>
    BY <1>14, ReuseAssumption DEF Edit, FilesInv
  <2>3. \A q \in Path : tree[q].version \in Nat /\ tree[q].version <= edits
    BY DEF FilesInv, Content
  <2>4. [version |-> edits', breaks |-> c] \in Content
    BY <2>2 DEF Content
  <2>5. tree' \in [Path -> Content] /\ \A q \in Path : tree'[q] = tree[q] \/ tree'[q].version = edits'
    BY <2>1, <2>2, <2>4 DEF FilesInv
  <2>6. \A q \in Path : tree'[q].version <= edits'
    <3> SUFFICES ASSUME NEW q \in Path PROVE tree'[q].version <= edits'
      OBVIOUS
    <3> QED
      BY <2>2, <2>3, <2>5
  <2>7. ASSUME NEW q \in Tracked PROVE tree'[q] = index[q] \/ index[q].version < tree'[q].version
    <3>1. q \in Path /\ Staged[q] = index[q]
      BY Constants, StagedType
    <3>2. index[q].version \in Nat /\ index[q].version <= edits
      BY <3>1, StagedType
    <3> QED
      BY <2>2, <2>5, <3>1, <3>2 DEF FilesInv
  <2>8. FilesInv'
    BY <2>2, <2>5, <2>6, <2>7 DEF FilesInv
  <2> QED
    BY <1>13, <2>2, <2>8
<1>15. ASSUME NEW p \in Tracked, Stage(p) \/ Discard(p) PROVE BaseInv'
  <2>1. p \in Path /\ tree[p] \in Content /\ index[p] \in Content
    BY Constants DEF FilesInv
  <2>2. UNCHANGED <<edits, known, result, run, log, runs>>
    BY <1>15 DEF Stage, Discard
  <2>3. CASE Stage(p)
    <3>1. tree' = tree /\ index' = [index EXCEPT ![p] = tree[p]]
      BY <2>3 DEF Stage
    <3> QED
      BY <1>13, <2>1, <2>2, <3>1 DEF FilesInv
  <2>4. CASE Discard(p)
    <3>1. index' = index /\ tree' = [tree EXCEPT ![p] = index[p]]
      BY <2>4 DEF Discard
    <3>2. \A q \in Path : tree'[q] = tree[q] \/ (q = p /\ tree'[q] = index[q])
      BY <3>1 DEF FilesInv
    <3>3. index[p].version <= edits
      BY <2>1, StagedType
    <3> QED
      BY <1>13, <2>1, <2>2, <3>1, <3>2, <3>3 DEF FilesInv
  <2> QED
    BY <1>15, <2>3, <2>4
<1>16. CASE UNCHANGED vars
  BY <1>16 DEF vars, BaseInv, FilesInv, RunsInv, StepInv, LogOf, Fits
<1> QED
  BY <1>2, <1>4, <1>5, <1>6, <1>7, <1>8, <1>10, <1>11, <1>12, <1>14, <1>15, <1>16 DEF Next

THEOREM Invariance == Spec => []BaseInv
<1>1. Init => BaseInv
  <2> SUFFICES ASSUME Init PROVE BaseInv
    OBVIOUS
  <2>1. None \notin Check
    BY NoneAssumption
  <2>2. FilesInv
    BY ReuseAssumption DEF Init, FilesInv, First, Content
  <2>3. RunsInv
    BY IdleRun, EmptyLog, ReuseAssumption DEF Init, RunsInv
  <2>4. StepInv
    BY <2>1, IdleRun DEF Init, StepInv
  <2>5. \A c \in Check : LogOf(c)
    BY EmptyLog DEF Init, LogOf
  <2> QED
    BY <2>2, <2>3, <2>4, <2>5 DEF BaseInv
<1>2. BaseInv /\ [Next]_vars => BaseInv'
  BY BaseStep
<1> QED
  BY <1>1, <1>2, PTL DEF Spec

(* Every variable keeps its type, over any number of runs and edits.       *)
THEOREM Typed == Spec => []TypeOK
<1>1. BaseInv => TypeOK
  <2> SUFFICES ASSUME BaseInv PROVE TypeOK
    OBVIOUS
  <2>1. FilesInv /\ RunsInv /\ StepInv /\ run \in Runs
    BY DEF BaseInv, RunsInv
  <2>2. /\ tree \in [Path -> Known] /\ index \in [Tracked -> Known]
        /\ known \in BOOLEAN /\ edits \in 0 .. MaxVersion
    <3>1. edits \in 0 .. MaxVersion /\ edits \in Nat /\ MaxVersion \in Nat
      BY <2>1, ReuseAssumption DEF FilesInv
    <3>2. ASSUME NEW x \in Content, x.version <= edits PROVE x \in Known
      <4>1. x.version \in 0 .. MaxVersion
        BY <3>1, <3>2 DEF Content
      <4> QED
        BY <4>1 DEF Content, Known
    <3>3. \A p \in Path : tree[p] \in Known
      BY <2>1, <3>2 DEF FilesInv
    <3>4. \A p \in Tracked : index[p] \in Known
      <4> SUFFICES ASSUME NEW p \in Tracked PROVE index[p] \in Known
        OBVIOUS
      <4>1. p \in Path /\ Staged[p] = index[p] /\ Staged[p] \in Content /\ Staged[p].version <= edits
        BY <2>1, Constants, StagedType
      <4> QED
        BY <3>2, <4>1
    <3> QED
      BY <2>1, <3>3, <3>4 DEF FilesInv
  <2>3. /\ runs \in 0 .. MaxRuns /\ log \in [Check -> SUBSET Line]
        /\ result = None \/
             /\ result.status \in {"passed", "failed"} /\ result.checks \in [Check -> Status]
             /\ \A c \in Check : /\ result.inputs[c].staged \in [Sources[c] -> Content]
                                 /\ result.inputs[c].read \in [DeclaredReads(c) -> Content]
    <3>1. CASE result = None
      BY <2>1, <3>1 DEF RunsInv
    <3>2. CASE result \in Recorded /\ result # None
      <4>1. Fits(result.inputs)
        BY <2>1, <3>2 DEF RunsInv
      <4>2. result.status \in {"passed", "failed"} /\ result.checks \in [Check -> Status]
        BY <3>2 DEF Recorded
      <4> QED
        BY <2>1, <4>1, <4>2 DEF RunsInv, Fits
    <3> QED
      BY <2>1, <3>1, <3>2 DEF RunsInv
  <2>4. /\ run.pc \in {"idle", "select", "observe", "run", "trap"}
        /\ {run.reuse, run.done, run.failed} \subseteq SUBSET Check
        /\ run.current \in Check \cup {None}
    BY <2>1 DEF Runs, Step
  <2>5. run.done \cap (run.reuse \cup run.failed) = {} /\ run.mixed \subseteq run.done
    BY <2>1 DEF StepInv
  <2> QED
    BY <2>2, <2>3, <2>4, <2>5 DEF TypeOK
<1> QED
  BY <1>1, Invariance, PTL

(* Whatever lines of the timing log are lost, a completed span is a check  *)
(* this run executed with that outcome, and a reuse is never a span.       *)
THEOREM SpansTruthful == Spec => []TimingTruthful
<1>1. BaseInv => TimingTruthful
  <2> SUFFICES ASSUME BaseInv, NEW c \in Check
               PROVE  /\ \A kept \in SUBSET log[c] :
                           Completed(kept) => c \in (IF "passed" \in kept THEN run.done ELSE run.failed)
                      /\ "reused" \in log[c] => log[c] = {"reused"} /\ c \notin run.done \cup run.failed
    BY DEF TimingTruthful
  <2>1. LogOf(c) /\ StepInv
    BY DEF BaseInv
  <2> QED
    BY <2>1 DEF LogOf, StepInv, Completed
<1> QED
  BY <1>1, Invariance, PTL

-----------------------------------------------------------------------------
(* What a run has executed                                                 *)

(* Only the end of a run writes a result.                                  *)
LEMMA Writers ==
  ASSUME [Next]_vars, result' # result
  PROVE  WritePassed \/ WriteFailed
  BY DEF Next, vars, files, Begin, Select, Observe, StartCheck, CheckPasses, CheckFails, Fail,
         NoResult, Edit, Stage, Discard

(* What is staged, and what git does not track, is only replaced by what   *)
(* is newer, and so are the tools when it is no more known what they are.  *)
LEMMA Newer ==
  ASSUME FilesInv, [Next]_vars
  PROVE  /\ \A p \in Path : Staged'[p] = Staged[p] \/ Staged[p].version < Staged'[p].version
         /\ known' = known \/ Staged[Tools].version < Staged'[Tools].version
<1>1. /\ \A p \in Path : Staged[p] = IF p \in Tracked THEN index[p] ELSE tree[p]
      /\ \A p \in Path : Staged'[p] = IF p \in Tracked THEN index'[p] ELSE tree'[p]
  BY DEF Staged
<1>2. CASE UNCHANGED <<tree, index, known>>
  BY <1>1, <1>2
<1>3. ASSUME NEW p \in Path, Edit(p) 
      PROVE  /\ \A q \in Path : Staged'[q] = Staged[q] \/ Staged[q].version < Staged'[q].version
             /\ known' = known \/ Staged[Tools].version < Staged'[Tools].version
  <2>1. PICK c : tree' = [tree EXCEPT ![p] = [version |-> edits + 1, breaks |-> c]]
    BY <1>3 DEF Edit
  <2>2. index' = index /\ (known' = known \/ p = Tools)
    BY <1>3 DEF Edit
  <2>3. \A q \in Path : tree'[q] = IF q = p THEN [version |-> edits + 1, breaks |-> c] ELSE tree[q]
    BY <2>1 DEF FilesInv
  <2>4. tree[p].version \in Nat /\ tree[p].version <= edits /\ edits \in Nat
    BY DEF FilesInv, Content
  <2>5. tree[p].version < tree'[p].version
    BY <2>3, <2>4
  <2>6. Tools \in Path /\ Tools \notin Tracked
    BY Constants
  <2> QED
    BY <1>1, <2>2, <2>3, <2>5, <2>6
<1>4. ASSUME NEW p \in Tracked, Stage(p)
      PROVE  \A q \in Path : Staged'[q] = Staged[q] \/ Staged[q].version < Staged'[q].version
  <2>1. index' = [index EXCEPT ![p] = tree[p]] /\ tree' = tree
    BY <1>4 DEF Stage
  <2>2. \A q \in Tracked : index'[q] = IF q = p THEN tree[p] ELSE index[q]
    BY <2>1 DEF FilesInv
  <2>3. index[p] = tree[p] \/ index[p].version < tree[p].version
    BY DEF FilesInv
  <2> QED
    BY <1>1, <2>1, <2>2, <2>3
<1>5. ASSUME NEW p \in Tracked, Discard(p)
      PROVE  \A q \in Path : Staged'[q] = Staged[q]
  <2>1. tree' = [tree EXCEPT ![p] = index[p]] /\ index' = index
    BY <1>5 DEF Discard
  <2>2. \A q \in Path \ Tracked : tree'[q] = tree[q]
    BY <2>1 DEF FilesInv
  <2> QED
    BY <1>1, <2>1, <2>2
<1>6. ASSUME NEW p \in Tracked, Stage(p) \/ Discard(p) PROVE known' = known
  BY <1>6 DEF Stage, Discard
<1>7. CASE UNCHANGED vars
  BY <1>2, <1>7 DEF vars, files
<1>8. CASE (\E p \in Path : Edit(p)) \/ (\E p \in Tracked : Stage(p) \/ Discard(p))
  BY <1>3, <1>4, <1>5, <1>6, <1>8
<1>9. CASE ~((\E p \in Path : Edit(p)) \/ (\E p \in Tracked : Stage(p) \/ Discard(p)) \/ UNCHANGED vars)
  <2>1. UNCHANGED files
    BY <1>9 DEF Next, Begin, Select, Observe, StartCheck, CheckPasses, CheckFails, Fail,
                WritePassed, WriteFailed, NoResult
  <2> QED
    BY <1>2, <2>1 DEF files
<1> QED
  BY <1>7, <1>8, <1>9

(* A look at the inputs that was taken by now; a source that is newer than *)
(* in it; and that what it saw of a check's files does not make it fail.   *)
Seen(x) ==
  \A c \in Check : \A p \in Sources[c] :
    x[c].staged[p] \in Content /\ (x[c].staged[p] = Staged[p] \/ x[c].staged[p].version < Staged[p].version)
Left(x, c)  == \E p \in Sources[c] : x[c].staged[p].version < Staged[p].version
Holds(x, c) == \A p \in Reads[c] : x[c].staged[p].breaks # c

LEMMA SeenNow ==
  ASSUME FilesInv
  PROVE  Seen(Inputs)
  BY Looks, StagedType, Covered DEF Seen

(* A look stays behind, for good.                                          *)
LEMMA SeenStays ==
  ASSUME FilesInv, FilesInv', [Next]_vars, NEW x, Seen(x)
  PROVE  /\ Seen(x)'
         /\ \A c \in Check : Left(x, c) => Left(x, c)'
         /\ \A c \in Check : known' = known \/ Left(x, c)'
<1>1. ASSUME NEW c \in Check, NEW p \in Sources[c]
      PROVE  /\ x[c].staged[p] \in Content
             /\ x[c].staged[p] = Staged'[p] \/ x[c].staged[p].version < Staged'[p].version
             /\ x[c].staged[p].version < Staged[p].version => x[c].staged[p].version < Staged'[p].version
             /\ p = Tools => known' = known \/ x[c].staged[p].version < Staged'[p].version
  <2>1. p \in Path
    BY Covered
  <2> DEFINE y == x[c].staged[p]
  <2>2. y \in Content /\ (y = Staged[p] \/ y.version < Staged[p].version)
    BY DEF Seen
  <2>3. Staged[p].version \in Nat
    BY <2>1, StagedType
  <2>4. Staged'[p].version \in Nat
    <3>1. Staged'[p] = IF p \in Tracked THEN index'[p] ELSE tree'[p]
      BY <2>1 DEF Staged
    <3> QED
      BY <2>1, <3>1 DEF FilesInv, Content
  <2>5. /\ Staged'[p] = Staged[p] \/ Staged[p].version < Staged'[p].version
        /\ p = Tools => known' = known \/ Staged[p].version < Staged'[p].version
    BY <2>1, Newer
  <2>6. y.version \in Nat
    BY <2>2 DEF Content
  <2> HIDE DEF y
  <2>7. /\ y = Staged'[p] \/ y.version < Staged'[p].version
        /\ y.version < Staged[p].version => y.version < Staged'[p].version
        /\ p = Tools => known' = known \/ y.version < Staged'[p].version
    BY <2>2, <2>3, <2>4, <2>5, <2>6
  <2> QED
    BY <2>2, <2>7 DEF y
<1>2. Seen(x)'
  BY <1>1 DEF Seen
<1>3. ASSUME NEW c \in Check PROVE (Left(x, c) => Left(x, c)') /\ (known' = known \/ Left(x, c)')
  <2>1. Tools \in Sources[c]
    BY Covered
  <2> QED
    BY <1>1, <2>1 DEF Left
<1> QED
  BY <1>2, <1>3

(* A check that passed on a work tree as it was staged passes on what the  *)
(* look saw, or one of its sources is newer by now.                        *)
LEMMA Ran ==
  ASSUME FilesInv, NEW x, Seen(x), NEW c \in Check, Passes(c, tree), ~Mixed(c)
  PROVE  Holds(x, c) \/ Left(x, c)
<1> SUFFICES ASSUME ~Left(x, c), NEW p \in Reads[c] PROVE x[c].staged[p].breaks # c
  BY DEF Holds
<1>1. p \in Sources[c]
  BY Covered
<1>2. x[c].staged[p] = Staged[p]
  BY <1>1 DEF Seen, Left
<1>3. tree[p] = Staged[p] /\ tree[p].breaks # c
  BY DEF Mixed, Passes
<1> QED
  BY <1>2, <1>3

(* When the inputs of a check are those of a look, nothing is newer.       *)
LEMMA Same ==
  ASSUME FilesInv, NEW x, NEW c \in Check, x[c] = Inputs[c]
  PROVE  ~Left(x, c) /\ (Holds(x, c) => Passes(c, Staged))
<1>1. \A p \in Sources[c] : x[c].staged[p] = Staged[p] /\ Staged[p].version \in Nat
  BY Looks, StagedType, Covered
<1>2. ~Left(x, c)
  <2> SUFFICES ASSUME NEW p \in Sources[c], x[c].staged[p].version < Staged[p].version PROVE FALSE
    BY DEF Left
  <2>1. Staged[p].version < Staged[p].version /\ Staged[p].version \in Nat
    BY <1>1
  <2> QED
    BY <2>1
<1>3. Holds(x, c) => Passes(c, Staged)
  BY <1>1, Covered DEF Holds, Passes
<1> QED
  BY <1>2, <1>3

(* Whatever is edited and staged, what a run has executed passes on what   *)
(* it saw at its second look, or that has changed since; a run that was    *)
(* given no earlier result reuses nothing.                                 *)
DoneInv ==
  /\ run.snapshot # None =>
       /\ Seen(run.snapshot)
       /\ \A c \in run.done \ run.mixed : Holds(run.snapshot, c) \/ Left(run.snapshot, c)
  /\ run.prior = None => run.reuse = {}

LEMMA DoneStep ==
  ASSUME BaseInv, BaseInv', DoneInv, [Next]_vars
  PROVE  DoneInv'
<1>1. FilesInv /\ FilesInv' /\ StepInv /\ run \in Runs /\ run.done \subseteq Check
  BY DEF BaseInv, RunsInv, Runs
(* The run goes on, or files change, and nothing is executed. *)
<1>2. ASSUME run'.snapshot = run.snapshot, run'.done = run.done, run'.mixed = run.mixed,
             run'.prior = run.prior, run'.reuse = run.reuse
      PROVE  DoneInv'
  <2> SUFFICES ASSUME run.snapshot # None
               PROVE  /\ Seen(run.snapshot)'
                      /\ \A c \in run.done \ run.mixed : Holds(run'.snapshot, c) \/ Left(run.snapshot, c)'
    BY <1>2 DEF DoneInv
  <2>1. PICK x : x = run.snapshot
    OBVIOUS
  <2>2. Seen(x) /\ \A c \in run.done \ run.mixed : Holds(x, c) \/ Left(x, c)
    BY <2>1 DEF DoneInv
  <2>3. Seen(x)' /\ \A c \in Check : Left(x, c) => Left(x, c)'
    BY <1>1, <2>2, SeenStays
  <2>4. run'.snapshot = x
    BY <1>2, <2>1
  <2>5. \A c \in Check : Left(run.snapshot, c)' <=> Left(x, c)'
    BY <2>4 DEF Left
  <2>6. Seen(run.snapshot)'
    BY <2>3, <2>4 DEF Seen
  <2> QED
    BY <1>1, <2>2, <2>3, <2>4, <2>5, <2>6
<1>3. CASE Begin
  <2>1. PICK prior \in {None, result} : run' = [Idle EXCEPT !.pc = "select", !.prior = prior]
    BY <1>3 DEF Begin
  <2>2. run'.reuse = {} /\ run'.snapshot = None
    BY <2>1, IdleRun DEF Runs, Idle
  <2> QED
    BY <2>2 DEF DoneInv
<1>4. CASE Select
  <2>1. run'.reuse = Reuse(run.prior) /\ run'.prior = run.prior /\ run'.snapshot = None
    BY <1>1, <1>4 DEF Select, Runs, StepInv, At
  <2> QED
    BY <2>1 DEF DoneInv, Reuse
<1>5. CASE Observe
  <2>1. /\ UNCHANGED files /\ run'.prior = run.prior /\ run'.reuse = run.reuse
        /\ run'.snapshot = Inputs /\ run'.done = {}
    BY <1>1, <1>5 DEF Observe, Runs, StepInv, At
  <2>2. Seen(Inputs)
    BY <1>1, SeenNow
  <2>3. PICK x : x = Inputs
    OBVIOUS
  <2>4. Seen(x)'
    BY <1>1, <2>2, <2>3, SeenStays DEF Seen
  <2>5. Seen(run.snapshot)'
    BY <2>1, <2>3, <2>4 DEF Seen
  <2> QED
    BY <2>1, <2>5 DEF DoneInv
<1>6. ASSUME NEW c \in Check, StartCheck(c) PROVE DoneInv'
  <2>1. /\ run'.snapshot = run.snapshot /\ run'.done = run.done /\ run'.mixed = run.mixed
        /\ run'.prior = run.prior /\ run'.reuse = run.reuse
    BY <1>1, <1>6 DEF StartCheck, Runs
  <2> QED
    BY <1>2, <2>1
<1>7. CASE CheckFails \/ Fail
  <2>1. /\ run'.snapshot = run.snapshot /\ run'.done = run.done /\ run'.mixed = run.mixed
        /\ run'.prior = run.prior /\ run'.reuse = run.reuse
    BY <1>1, <1>7 DEF CheckFails, Fail, Runs
  <2> QED
    BY <1>2, <2>1
<1>8. CASE CheckPasses
  <2>1. PICK c \in Check : c = run.current
    BY <1>1, <1>8 DEF CheckPasses, Runs
  <2>2. PICK x : x = run.snapshot
    OBVIOUS
  <2>3. run' = [run EXCEPT !.current = None, !.done = run.done \cup {c},
                           !.mixed = IF Mixed(c) THEN run.mixed \cup {c} ELSE run.mixed]
    BY <1>8, <2>1 DEF CheckPasses
  <2>4. /\ run'.snapshot = x /\ run'.done = run.done \cup {c} /\ run'.prior = run.prior
        /\ run'.reuse = run.reuse /\ run'.mixed = IF Mixed(c) THEN run.mixed \cup {c} ELSE run.mixed
    BY <1>1, <2>2, <2>3 DEF Runs
  <2>5. UNCHANGED <<tree, index>> /\ Passes(c, tree)
    BY <1>8, <2>1 DEF CheckPasses, files
  <2>6. x # None
    BY <1>1, <2>1, <2>2, NoneAssumption DEF StepInv
  <2>7. Seen(x) /\ \A d \in run.done \ run.mixed : Holds(x, d) \/ Left(x, d)
    BY <2>2, <2>6 DEF DoneInv
  <2>8. Seen(x)' /\ \A d \in Check : Left(x, d) => Left(x, d)'
    BY <1>1, <2>7, SeenStays
  <2>9. ~Mixed(c) => Holds(x, c) \/ Left(x, c)
    BY <1>1, <2>5, <2>7, Ran
  <2>10. \A d \in run'.done \ run'.mixed : d \in Check /\ (Holds(x, d) \/ Left(x, d))
    <3> SUFFICES ASSUME NEW d \in run'.done \ run'.mixed PROVE d \in Check /\ (Holds(x, d) \/ Left(x, d))
      OBVIOUS
    <3>1. CASE d \in run.done \ run.mixed
      BY <1>1, <2>7, <3>1
    <3>2. CASE d = c /\ ~Mixed(c)
      BY <2>9, <3>2
    <3> QED
      BY <2>4, <3>1, <3>2
  <2>11. Seen(run.snapshot)'
    BY <2>4, <2>8 DEF Seen
  <2>12. \A d \in Check : Left(run.snapshot, d)' <=> Left(x, d)'
    BY <2>4 DEF Left
  <2>13. \A d \in run'.done \ run'.mixed : Holds(run'.snapshot, d) \/ Left(run.snapshot, d)'
    BY <2>4, <2>8, <2>10, <2>12
  <2>14. run'.prior = None => run'.reuse = {}
    BY <2>4 DEF DoneInv
  <2> QED
    BY <2>11, <2>13, <2>14 DEF DoneInv
<1>9. CASE WritePassed \/ WriteFailed \/ NoResult
  <2>1. run'.snapshot = None /\ run'.reuse = {}
    BY <1>9, IdleRun DEF WritePassed, WriteFailed, NoResult, Finish, Idle
  <2> QED
    BY <2>1 DEF DoneInv
<1>10. CASE UNCHANGED run
  BY <1>2, <1>10
<1>11. ASSUME NEW p, Edit(p) \/ Stage(p) \/ Discard(p) PROVE UNCHANGED run
  BY <1>11 DEF Edit, Stage, Discard
<1> QED
  BY <1>3, <1>4, <1>5, <1>6, <1>7, <1>8, <1>9, <1>10, <1>11 DEF Next, vars

THEOREM DoneInvariance == Spec => [](BaseInv /\ DoneInv)
<1>1. Init => DoneInv
  BY IdleRun DEF Init, DoneInv, Idle
<1>2. BaseInv /\ BaseInv' /\ DoneInv /\ [Next]_vars => DoneInv'
  BY DoneStep
<1> QED
  BY <1>1, <1>2, Invariance, PTL DEF Spec

(* What a run has executed when its result can be written.                 *)
LEMMA Executed ==
  ASSUME BaseInv, DoneInv, WritePassed \/ WriteFailed
  PROVE  /\ run.done # {} => run.snapshot = Inputs
         /\ \A c \in run.done \ run.mixed : c \in Check /\ Holds(Inputs, c) /\ Passes(c, Staged)
<1>1. run.done # {} => run.snapshot # None /\ run.snapshot = Inputs
  BY DEF WritePassed, WriteFailed, SameInputs, BaseInv, StepInv
<1>2. ASSUME NEW c \in run.done \ run.mixed
      PROVE  c \in Check /\ Holds(Inputs, c) /\ Passes(c, Staged)
  <2>1. PICK x : x = run.snapshot
    OBVIOUS
  <2>2. c \in Check /\ x = Inputs /\ FilesInv /\ (Holds(x, c) \/ Left(x, c))
    BY <1>1, <2>1 DEF DoneInv, BaseInv, RunsInv, Runs
  <2>3. ~Left(x, c) /\ (Holds(x, c) => Passes(c, Staged))
    BY <2>2, Same
  <2>4. Holds(x, c)
    BY <2>2, <2>3
  <2>5. Holds(Inputs, c)
    BY <2>2, <2>4 DEF Holds
  <2> QED
    BY <2>2, <2>3, <2>4, <2>5
<1> QED
  BY <1>1, <1>2

(* Whatever is edited, staged and restored while a run looks, chooses and  *)
(* executes: every check it has executed passes on the staged files as     *)
(* they are when its result, of either status, is written, unless it ran   *)
(* on a file of which another content was staged.                          *)
THEOREM ExecutedStand ==
  Spec => [][result' # result => \A c \in run.done \ run.mixed : Passes(c, Staged)]_vars
<1>1. BaseInv /\ DoneInv /\ [Next]_vars
        => (result' # result => \A c \in run.done \ run.mixed : Passes(c, Staged))
  BY Writers, Executed
<1> QED
  BY <1>1, DoneInvariance, PTL DEF Spec

(* And a run that is given no earlier result says passed only when every   *)
(* check passes, with that one exception: what an edit between the two     *)
(* looks can make wrong is what is reused.                                 *)
THEOREM FreshPassedStands ==
  Spec => [][result' # result /\ result'.status = "passed" /\ run.prior = None
               => \A c \in Check \ run.mixed : Passes(c, Staged)]_vars
<1>1. BaseInv /\ DoneInv /\ [Next]_vars
        => (result' # result /\ result'.status = "passed" /\ run.prior = None
              => \A c \in Check \ run.mixed : Passes(c, Staged))
  <2> SUFFICES ASSUME BaseInv, DoneInv, [Next]_vars, result' # result,
                      result'.status = "passed", run.prior = None
               PROVE  \A c \in Check \ run.mixed : Passes(c, Staged)
    OBVIOUS
  <2>1. WritePassed
    BY Writers DEF WriteFailed, Result
  <2>2. run.done = Check
    BY <2>1 DEF WritePassed, DoneInv
  <2> QED
    BY <2>1, <2>2, Executed
<1> QED
  BY <1>1, DoneInvariance, PTL DEF Spec

-----------------------------------------------------------------------------
(* What is reused, when nothing changes between the two looks of a run     *)

(* What it records as passed does not fail for the inputs recorded with    *)
(* it, or ran on a file of which another content was staged.               *)
RecordOf(x) == \A c \in Check : x.checks[c] = "passed" => c \in x.mixed \/ Holds(x.inputs, c)

(* The earlier result, and what was chosen from it, are of the same look.  *)
ReuseOf(c) ==
  /\ run.prior # None /\ run.prior.checks[c] = "passed" /\ Declared[c] # None
  /\ run.prior.inputs[c] = run.snapshot[c]
  /\ known \/ Left(run.snapshot, c)

KnowInv ==
  /\ result # None => RecordOf(result)
  /\ run.prior # None => RecordOf(run.prior)
  /\ run.pc = "observe" => run.reuse \subseteq Reuse(run.prior)
  /\ run.snapshot # None => \A c \in run.reuse : ReuseOf(c)

(* When a result can be written, what the run reuses would be chosen now,  *)
(* and passes.                                                             *)
LEMMA Reused ==
  ASSUME BaseInv, KnowInv, run.snapshot = Inputs
  PROVE  /\ run.reuse \subseteq Reuse(run.prior)
         /\ \A c \in Reuse(run.prior) :
              run.prior # None /\ (c \in run.prior.mixed \/ Passes(c, Staged))
<1>1. FilesInv /\ run.reuse \subseteq Check /\ run.snapshot # None /\ Inputs # None
  BY Looks DEF BaseInv, RunsInv, Runs
<1>2. ASSUME NEW c \in run.reuse PROVE c \in Reuse(run.prior)
  <2>1. ReuseOf(c) /\ c \in Check
    BY <1>1 DEF KnowInv
  <2>2. PICK x : x = run.snapshot
    OBVIOUS
  <2>3. ~Left(x, c)
    BY <1>1, <2>1, <2>2, Same
  <2> QED
    BY <2>1, <2>2, <2>3 DEF ReuseOf, Reuse, Reusable
<1>3. ASSUME NEW c \in Reuse(run.prior)
      PROVE  run.prior # None /\ (c \in run.prior.mixed \/ Passes(c, Staged))
  <2>1. /\ c \in Check /\ run.prior # None /\ run.prior.checks[c] = "passed"
        /\ run.prior.inputs[c] = Inputs[c]
    BY DEF Reuse
  <2>2. PICK x : x = run.prior.inputs
    OBVIOUS
  <2>3. c \in run.prior.mixed \/ Holds(x, c)
    BY <2>1, <2>2 DEF KnowInv, RecordOf
  <2>4. Holds(x, c) => Passes(c, Staged)
    BY <1>1, <2>1, <2>2, Same
  <2> QED
    BY <2>1, <2>3, <2>4
<1> QED
  BY <1>2, <1>3

(* What a result records as passed was executed by its run.                *)
LEMMA Recording ==
  ASSUME BaseInv, DoneInv, KnowInv, WritePassed \/ WriteFailed,
         NEW c \in Check, result'.checks[c] = "passed"
  PROVE  /\ c \in run.done /\ (c \in result'.mixed \/ Passes(c, Staged))
         /\ c \in result'.mixed \/ Holds(result'.inputs, c)
<1>1. run.mixed \subseteq result'.mixed /\ result'.inputs = Inputs
  BY DEF WritePassed, WriteFailed, Result, MixedPasses
<1>2. c \in run.done
  <2>1. CASE WritePassed
    <3>1. run.snapshot = Inputs /\ run.done \cup run.reuse = Check
      BY <2>1 DEF WritePassed, SameInputs, BaseInv, StepInv, At
    <3>2. c \notin Reuse(run.prior)
      BY <2>1 DEF WritePassed, Result
    <3> QED
      BY <3>1, <3>2, Reused
  <2>2. CASE WriteFailed
    BY <2>2 DEF WriteFailed, Result, FailedStatus
  <2> QED
    BY <2>1, <2>2
<1>3. c \notin run.mixed => Holds(Inputs, c) /\ Passes(c, Staged)
  BY <1>2, Executed
<1> QED
  BY <1>1, <1>2, <1>3 DEF Holds

LEMMA KnowStep ==
  ASSUME ObservedOnce, BaseInv, BaseInv', DoneInv, KnowInv, [Next]_vars
  PROVE  KnowInv'
<1>1. FilesInv /\ FilesInv' /\ StepInv /\ run \in Runs
  BY DEF BaseInv, RunsInv
(* The results are those there were. *)
<1>2. ASSUME result' = result, run'.prior = run.prior
      PROVE  (result' # None => RecordOf(result')) /\ (run'.prior # None => RecordOf(run'.prior))
  BY <1>2 DEF KnowInv
(* What is reused stays what was chosen. *)
<1>3. ASSUME result' = result, run'.prior = run.prior, run'.reuse = run.reuse,
             run'.snapshot = run.snapshot, run'.pc # "observe" \/ UNCHANGED <<files, run>>
      PROVE  KnowInv'
  <2>1. ASSUME run'.snapshot # None, NEW c \in run.reuse PROVE ReuseOf(c)'
    <3>1. PICK x : x = run.snapshot
      OBVIOUS
    <3>2. Seen(x) /\ ReuseOf(c) /\ c \in Check
      BY <1>1, <1>3, <2>1, <3>1 DEF KnowInv, DoneInv, Runs
    <3>3. (Left(x, c) => Left(x, c)') /\ (known' = known \/ Left(x, c)')
      BY <1>1, <3>2, SeenStays
    <3>4. known' \/ Left(x, c)'
      BY <3>1, <3>2, <3>3 DEF ReuseOf
    <3>5. run'.snapshot = x
      BY <1>3, <3>1
    <3>6. Left(run.snapshot, c)' <=> Left(x, c)'
      BY <3>5 DEF Left
    <3> QED
      BY <1>3, <3>1, <3>2, <3>4, <3>6 DEF ReuseOf
  <2>2. run'.pc = "observe" => run'.reuse \subseteq Reuse(run.prior)'
    <3> SUFFICES ASSUME run'.pc = "observe" PROVE run'.reuse \subseteq Reuse(run.prior)'
      OBVIOUS
    <3>1. UNCHANGED <<files, run>>
      BY <1>3
    <3>2. Reuse(run.prior)' = Reuse(run.prior)
      BY <3>1 DEF files, Reuse, Reusable, Inputs, Staged
    <3> QED
      BY <3>1, <3>2 DEF KnowInv
  <2> QED
    BY <1>2, <1>3, <2>1, <2>2 DEF KnowInv, RecordOf
<1>4. CASE Begin
  <2>1. PICK prior \in {None, result} : run' = [Idle EXCEPT !.pc = "select", !.prior = prior]
    BY <1>4 DEF Begin
  <2>2. run'.pc = "select" /\ run'.prior = prior /\ run'.snapshot = None
    BY <2>1, IdleRun DEF Runs
  <2>3. result' = result
    BY <1>4 DEF Begin
  <2>4. run'.prior # None => RecordOf(run'.prior)
    BY <2>1, <2>2 DEF KnowInv
  <2> QED
    BY <2>2, <2>3, <2>4 DEF KnowInv, RecordOf
<1>5. CASE Select
  <2>1. /\ UNCHANGED files /\ result' = result /\ run'.reuse = Reuse(run.prior) /\ run'.prior = run.prior
        /\ run'.pc = "observe" /\ run'.snapshot = None
    BY <1>1, <1>5 DEF Select, Runs, StepInv, At
  <2>2. Reuse(run.prior)' = Reuse(run.prior)
    BY <2>1 DEF files, Reuse, Reusable, Inputs, Staged
  <2> QED
    BY <1>2, <2>1, <2>2 DEF KnowInv, RecordOf
<1>6. CASE Observe
  <2>1. /\ UNCHANGED files /\ result' = result /\ run'.prior = run.prior /\ run'.pc = "run"
        /\ run'.snapshot = Inputs /\ run'.reuse = run.reuse /\ run.pc = "observe"
    BY <1>1, <1>6 DEF Observe, Runs, At
  <2>2. \A c \in run.reuse : c \in Reuse(run.prior)
    BY <2>1 DEF KnowInv
  <2>3. \A c \in run'.reuse : ReuseOf(c)'
    BY <2>1, <2>2 DEF ReuseOf, Reuse, Reusable, files
  <2> QED
    BY <1>2, <2>1, <2>3 DEF KnowInv, RecordOf
<1>7. ASSUME NEW c \in Check, StartCheck(c) PROVE KnowInv'
  <2>1. /\ result' = result /\ run'.prior = run.prior /\ run'.reuse = run.reuse
        /\ run'.snapshot = run.snapshot /\ run'.pc # "observe"
    BY <1>1, <1>7 DEF StartCheck, Runs, At
  <2> QED
    BY <1>3, <2>1
<1>8. CASE CheckPasses \/ CheckFails \/ Fail
  <2>1. /\ result' = result /\ run'.prior = run.prior /\ run'.reuse = run.reuse
        /\ run'.snapshot = run.snapshot /\ run'.pc # "observe"
    BY <1>1, <1>8 DEF CheckPasses, CheckFails, Fail, Runs, StepInv
  <2> QED
    BY <1>3, <2>1
(* The run is over; what it has written is a record.                       *)
<1>9. ASSUME Finish, result' # None => RecordOf(result') PROVE KnowInv'
  <2>1. run'.pc = "idle" /\ run'.prior = None /\ run'.snapshot = None
    BY <1>9, IdleRun DEF Finish
  <2> QED
    BY <1>9, <2>1 DEF KnowInv, RecordOf
<1>10. CASE WritePassed \/ WriteFailed
  <2>1. RecordOf(result')
    BY <1>10, Recording DEF RecordOf
  <2>2. Finish
    BY <1>10 DEF WritePassed, WriteFailed
  <2> QED
    BY <1>9, <2>1, <2>2
<1>11. CASE NoResult
  <2>1. Finish /\ (result' # None => RecordOf(result'))
    BY <1>11 DEF NoResult, KnowInv
  <2> QED
    BY <1>9, <2>1
<1>12. ASSUME NEW p, Edit(p) \/ Stage(p) \/ Discard(p) PROVE KnowInv'
  <2>1. run' = run /\ result' = result /\ run.pc # "observe"
    BY <1>12 DEF Edit, Stage, Discard, Open, At
  <2> QED
    BY <1>3, <2>1
<1>13. CASE UNCHANGED vars
  <2>1. run' = run /\ result' = result /\ UNCHANGED <<files, run>>
    BY <1>13 DEF vars
  <2> QED
    BY <1>3, <2>1
<1> QED
  BY <1>4, <1>5, <1>6, <1>7, <1>8, <1>10, <1>11, <1>12, <1>13 DEF Next

THEOREM Knowledge ==
  ASSUME ObservedOnce
  PROVE  Spec => [](BaseInv /\ DoneInv /\ KnowInv)
<1>1. Init => KnowInv
  BY IdleRun DEF Init, KnowInv
<1>2. BaseInv /\ BaseInv' /\ DoneInv /\ KnowInv /\ [Next]_vars => KnowInv'
  BY KnowStep
<1> QED
  BY <1>1, <1>2, DoneInvariance, PTL DEF Spec

(* When nothing changes between the two looks of a run at the inputs, a    *)
(* result that says passed means that every check passes on the staged     *)
(* files, over any chain of earlier results and edits, unless it ran on a  *)
(* file of which another content was staged.                               *)
THEOREM PassedStands ==
  ASSUME ObservedOnce
  PROVE  Spec => PassedMeansPasses
<1>1. BaseInv /\ DoneInv /\ KnowInv /\ [Next]_vars
        => (result' # result /\ result'.status = "passed"
              => \A c \in Check \ result'.mixed : Passes(c, Staged))
  <2> SUFFICES ASSUME BaseInv, DoneInv, KnowInv, [Next]_vars, result' # result,
                      result'.status = "passed", NEW c \in Check \ result'.mixed
               PROVE  Passes(c, Staged)
    OBVIOUS
  <2>1. WritePassed
    BY Writers DEF WriteFailed, Result
  <2>2. run.snapshot = Inputs /\ run.done \cup run.reuse = Check
    BY <2>1 DEF WritePassed, SameInputs, BaseInv, StepInv, At
  <2>3. result'.mixed = MixedPasses(run.prior)
    BY <2>1 DEF WritePassed, Result
  <2>4. CASE c \in run.done
    BY <2>1, <2>3, <2>4, Executed DEF MixedPasses
  <2>5. CASE c \in run.reuse
    BY <2>2, <2>3, <2>5, Reused DEF MixedPasses
  <2> QED
    BY <2>2, <2>4, <2>5
<1>2. Spec => [][result' # result /\ result'.status = "passed"
                   => \A c \in Check \ result'.mixed : Passes(c, Staged)]_vars
  BY <1>1, Knowledge, PTL DEF Spec
<1> QED
  BY <1>2 DEF PassedMeansPasses

(* Then any result records as passed what its run has executed and what    *)
(* holds for the staged contents recorded with it, so that the next run    *)
(* may reuse it; with the same exception.                                  *)
THEOREM RecordsStand ==
  ASSUME ObservedOnce
  PROVE  Spec => RecordedPassesHold
<1>1. BaseInv /\ DoneInv /\ KnowInv /\ [Next]_vars
        => (result' # result =>
              \A c \in Check : result'.checks[c] = "passed" =>
                c \in run.done /\ (c \in result'.mixed \/ Passes(c, Staged)))
  BY Writers, Recording
<1>2. Spec => [][result' # result =>
                   \A c \in Check : result'.checks[c] = "passed" =>
                     c \in run.done /\ (c \in result'.mixed \/ Passes(c, Staged))]_vars
  BY <1>1, Knowledge, PTL DEF Spec
<1> QED
  BY <1>2 DEF RecordedPassesHold
=============================================================================
