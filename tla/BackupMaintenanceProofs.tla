---------------------- MODULE BackupMaintenanceProofs ----------------------
(***************************************************************************)
(* Theorems about BackupMaintenance, for any number of versions and        *)
(* backups. IInv is the inductive invariant; its parts say, in this order, *)
(* who holds the guest lock, what an update knows while it runs, what it   *)
(* has made of the files, that nothing can run while files are replaced,   *)
(* and where the private inputs and the receipts stand.                    *)
(***************************************************************************)
EXTENDS BackupMaintenance, TLAPS

(* The steps of an update that has its preimages, and those after it has   *)
(* stopped the services.                                                   *)
Updating == {"disable", "stop", "lock", "recheck", "replace", "schedule", "revert"}
Stopped  == {"lock", "recheck", "replace", "revert"}

Service == [step : {"idle", "started", "work", "release"}, code : Content]

Kinds ==
  /\ disk \in [Part -> Content] /\ loaded \in Content
  /\ timers \in [Timer -> TimerState] /\ service \in [Producer -> Service]
  /\ lock \in {None, Operator} \cup Producer
  /\ latest \in 0 .. MaxBackups
  /\ receipt \in [0 .. MaxBackups -> {"none", "failed", "success"}]
  /\ drill \in [gen : 0 .. MaxBackups, reader : {"none", "runs", "ok", "failed"}]
  /\ inputs \in BOOLEAN /\ work \in BOOLEAN /\ told \in BOOLEAN
  /\ job \in Job

(* Only the holder of the guest lock works. *)
LockInv ==
  /\ \A w \in Producer : lock = w <=> service[w].step \in {"work", "release"}
  /\ lock = Operator <=> job.pc \in Locked

(* Nothing runs after a report, and between operations nothing is known.   *)
JobInv ==
  /\ told => job.pc = "idle"
  /\ job.pc = "idle" => job = NoJob

Uniform(d) == d \in [Part -> Content] /\ d[Unit] \in Version /\ d[Leaf] = d[Unit]

(* An update begins on one whole version and knows it.                     *)
UpdateInv ==
  /\ job.pc \in Updating \cup {"precheck"} =>
       job.new \in Version /\ job.expected \in Installation /\ Uniform(job.expected.disk)
  /\ job.pc = "precheck" => ~job.undo /\ job.changed = {}
  /\ job.pc \in Updating => job.before = job.expected.disk
  /\ job.pc \notin Updating => job.before = None
  /\ job.pc \in {"recheck", "replace"} => ~job.undo
  /\ job.pc = "revert" => job.undo

Target(p) == IF job.undo THEN job.before[p] ELSE job.new

(* A part is what it was or what the update wrote, or somebody edited it;  *)
(* what it wrote lies only where it counts the part as changed.            *)
FilesInv ==
  /\ job.pc \in Updating =>
       \A p \in Part : /\ disk[p] \in {job.before[p], job.new, Unknown}
                       /\ p \notin job.changed => disk[p] \in {job.before[p], Unknown}
  /\ job.pc = "schedule" => /\ \A p \in Part : disk[p] \in {Target(p), Unknown}
                            /\ loaded \in {Target(Unit), Unknown}
  /\ (\E p \in Part : disk[p] = Absent) =>
       loaded = Absent /\ \A p \in Part : disk[p] \in {Absent, 1, Unknown}

Quiet == timers = AllOff /\ \A t \in Timer : service[t] = NoService

Settled == disk[Unit] \in Version /\ disk[Leaf] \in Version => disk[Unit] = disk[Leaf]

(* While files are replaced, and after an update was given up with files   *)
(* of two versions in place, nothing of the timers runs or can be started. *)
QuietInv ==
  /\ job.pc \in Stopped => Quiet
  /\ job.pc = "stop" => timers = AllOff
  /\ \/ Settled
     \/ /\ Quiet
        /\ \/ told \/ At("replace")
           \/ job.undo /\ job.pc \in {"disable", "stop", "lock", "revert"}
  /\ \A t \in Timer : service[t].step # "idle" =>
       /\ loaded # Absent
       /\ {service[t].code, disk[Leaf]} \subseteq Version => service[t].code = disk[Leaf]

ScheduleInv ==
  job.pc = "schedule" =>
    /\ job.left \subseteq Timer
    /\ \A t \in Timer \ job.left : timers[t] = job.expected.timers[t]

(* The inputs of a restore are there before its drill is and go after it.  *)
DrillInv ==
  /\ drill # NoDrill => inputs /\ drill.gen # 0 /\ receipt[drill.gen] = "none"
  /\ job.pc = "restore" => drill = NoDrill /\ inputs
  /\ job.pc = "enable" => receipt[latest] = "success"

IInv == /\ Kinds /\ LockInv /\ JobInv /\ UpdateInv /\ FilesInv /\ QuietInv
        /\ ScheduleInv /\ DrillInv /\ PrivateInputsAccounted

-----------------------------------------------------------------------------
LEMMA Numbers ==
  /\ Version \subseteq Content /\ 1 \in Version
  /\ Absent \in Content /\ Unknown \in Content /\ Absent # Unknown
  /\ Absent \notin Version /\ Unknown \notin Version
  /\ 0 \in 0 .. MaxBackups
  BY MaintenanceAssumption DEF MaintenanceAssumption, Version, Content, Absent, Unknown

LEMMA Values ==
  /\ NoJob \in Job /\ NoJob.pc = "idle" /\ NoJob.before = None
  /\ NoService \in Service
  /\ NoDrill \in [gen : 0 .. MaxBackups, reader : {"none", "runs", "ok", "failed"}]
  /\ AllOff \in [Timer -> TimerState]
  BY Numbers DEF NoJob, Job, Step, NoService, Service, NoDrill, AllOff, Off, TimerState, Absent

LEMMA TowardsType ==
  ASSUME timers \in [Timer -> TimerState], NEW w \in [Timer -> TimerState]
  PROVE  Towards(w) \subseteq [Timer -> TimerState]
  BY DEF Towards, TimerState

(* What a step that fails leaves behind is well formed.                    *)
LEMMA PartOfStepType ==
  ASSUME IInv, PartOfStep
  PROVE  /\ disk' \in [Part -> Content] /\ loaded' \in Content
         /\ timers' \in [Timer -> TimerState]
<1> USE DEF IInv, Kinds
<1>1. job.pc = "revert" => job.before \in [Part -> Content]
  BY DEF UpdateInv, Updating, Uniform
<1>2. CASE At("replace") /\ loaded' \in {loaded, disk[Unit]} /\ UNCHANGED <<disk, timers>>
  BY <1>2 DEF Part
<1>3. ASSUME At("revert"), NEW some \in SUBSET {p \in job.changed : disk[p] = job.new},
             disk' = [p \in Part |-> IF p \in some THEN job.before[p] ELSE disk[p]],
             loaded' \in {loaded, disk'[Unit]}, UNCHANGED timers
      PROVE  disk' \in [Part -> Content] /\ loaded' \in Content
  <2>1. disk' \in [Part -> Content]
    BY <1>1, <1>3 DEF At
  <2> QED
    BY <1>3, <2>1 DEF Part
<1>4. CASE At("schedule") /\ UNCHANGED <<disk, loaded>>
           /\ timers' \in Towards([t \in Timer |-> IF t \in job.left THEN job.expected.timers[t]
                                                     ELSE timers[t]])
  <2>1. job.expected.timers \in [Timer -> TimerState]
    BY <1>4 DEF At, UpdateInv, Updating, Installation
  <2>2. [t \in Timer |-> IF t \in job.left THEN job.expected.timers[t] ELSE timers[t]]
          \in [Timer -> TimerState]
    BY <2>1
  <2> QED
    BY <1>4, <2>2, TowardsType
<1>5. CASE At("recheck") /\ UNCHANGED <<disk, loaded, timers>>
  BY <1>5
<1> QED
  BY <1>2, <1>3, <1>4, <1>5 DEF PartOfStep

(* One lemma for each part of IInv: every step keeps it. First the types.  *)
LEMMA TypeStep ==
  ASSUME IInv, [Next]_vars
  PROVE  Kinds'
<1> USE MaintenanceAssumption, NoneAssumption DEF IInv, Kinds, schedule,
            restoring
<1>1. CASE Install
  BY <1>1, Numbers, Values DEF Install, Begin, At, Goto, TakeLock, Job, Step
<1>2. CASE InstallFails
  BY <1>2, Numbers, Values DEF InstallFails, At, Finish, LetGo, Job, Step
<1>3. CASE Installed
  BY <1>3, Numbers, Values DEF Installed, At, Finish, LetGo, Whole, Part, Job, Step
<1>4. CASE BeginUpdate
  <2>1. InstallationState \in Installation
    BY DEF InstallationState, Installation
  <2>2. PICK v \in Version : job' = [NoJob EXCEPT !.pc = "precheck", !.new = v,
                                                  !.expected = InstallationState]
    BY <1>4 DEF BeginUpdate
  <2>3. job' \in Job
    BY <2>1, <2>2, Numbers, Values DEF Job, Step
  <2> QED
    BY <1>4, <2>3 DEF BeginUpdate
<1>5. CASE Prepare
  BY <1>5, Numbers, Values DEF Prepare, At, InstallationState, Job, Step
<1>6. CASE NotPrepared
  BY <1>6, Numbers, Values DEF NotPrepared, At, Finish, LetGo, Job, Step
<1>7. CASE Disable
  BY <1>7, Numbers, Values DEF Disable, At, Goto, AllOff, Job, Step
<1>8. CASE StopServices
  BY <1>8, Numbers, Values DEF StopServices, At, Goto, Job, Step
<1>9. CASE LockForUpdate
  BY <1>9, Numbers, Values DEF LockForUpdate, At, TakeLock, Job, Step
<1>10. CASE Recheck
  BY <1>10, Numbers, Values DEF Recheck, At, Goto, Job, Step
<1>11. CASE Reload
  BY <1>11, Numbers, Values DEF Reload, At, Whole, Part, Job, Step
<1>12. CASE EndUpdate
  BY <1>12, Numbers, Values DEF EndUpdate, At, Finish, LetGo, Job, Step
<1>13. CASE Undo
  <2>1. job' \in Job
    BY <1>13, PartOfStepType DEF Undo, Compensate, LetGo, Job, Step
  <2>2. Kinds'
    BY <1>13, <2>1, PartOfStepType DEF Undo, Compensate, LetGo
  <2> QED
    BY <2>2
<1>14. CASE Revert
  <2>1. job.before \in [Part -> Content]
    BY <1>14 DEF Revert, At, UpdateInv, Updating, Uniform
  <2>2. disk' \in [Part -> Content] /\ loaded' \in Content
    BY <1>14, <2>1 DEF Revert, Part
  <2> QED
    BY <1>14, <2>2 DEF Revert, Job, Step
<1>15. CASE GiveUp
  <2>1. /\ disk' \in [Part -> Content] /\ loaded' \in Content
        /\ timers' \in [Timer -> TimerState]
    BY <1>15, PartOfStepType, TowardsType, Values DEF GiveUp
  <2> QED
    BY <1>15, <2>1, Values DEF GiveUp, Finish, LetGo
<1>16. CASE BeginRestore
  BY <1>16, Numbers, Values DEF BeginRestore, Begin, At, Goto, Job, Step
<1>17. CASE StartDrill
  BY <1>17, Numbers, Values DEF StartDrill, At, Job, Step
<1>18. CASE NotStarted
  BY <1>18, Numbers, Values DEF NotStarted, At, Finish, LetGo, Job, Step
<1>19. CASE Restored
  BY <1>19, Numbers, Values DEF Restored, At, Finish, LetGo, Job, Step
<1>20. CASE RestoreFails
  BY <1>20, Numbers, Values DEF RestoreFails, At, Finish, LetGo, Job, Step
<1>21. CASE RestoreUnconfirmed
  BY <1>21, Numbers, Values DEF RestoreUnconfirmed, At, Finish, LetGo, Job, Step
<1>22. CASE Activate
  BY <1>22, Numbers, Values DEF Activate, Begin, At, Goto, TakeLock, Job, Step
<1>23. CASE Enable
  <2>1. timers' \in [Timer -> TimerState]
    BY <1>23 DEF Enable, TimerState
  <2> QED
    BY <1>23, <2>1 DEF Enable, Goto, Job, Step
<1>24. CASE EnableFails
  <2>1. [t \in Timer |-> [timers[t] EXCEPT !.enabled = TRUE]] \in [Timer -> TimerState]
    BY DEF TimerState
  <2> QED
    BY <1>24, <2>1, TowardsType, Values DEF EnableFails, Finish, LetGo
<1>25. CASE Start
  <2>1. timers' \in [Timer -> TimerState]
    BY <1>25 DEF Start, TimerState
  <2> QED
    BY <1>25, <2>1, Values DEF Start, Finish, LetGo
<1>26. CASE StartFails
  BY <1>26, Numbers, Values DEF StartFails, At, Finish, LetGo, AllOff, Job, Step
<1>27. CASE ReaderStarts
  BY <1>27, Numbers, Values DEF ReaderStarts, Job, Step
<1>28. CASE ReaderEnds
  BY <1>28, Numbers, Values DEF ReaderEnds, Job, Step
<1>29. CASE DrillEnds
  BY <1>29, Numbers, Values DEF DrillEnds, Job, Step
<1>30. CASE DeployBacksUp
  BY <1>30, Numbers, Values DEF DeployBacksUp, Begins, Service, Part
<1>31. CASE Releases
  BY <1>31, Numbers, Values DEF Releases, Begins, TakeLock, Service, Part, Producer
<1>32. CASE Killed
  BY <1>32, Numbers, Values DEF Killed, At, Finish, LetGo, Job, Step
<1>33. ASSUME NEW p \in Part, Replace(p) PROVE Kinds'
  <2>1. job' = [job EXCEPT !.left = @ \ {p}, !.changed = @ \cup {p}]
    BY <1>33 DEF Replace
  <2>3. job' \in Job
    <3>1. job.left \ {p} \in SUBSET (Part \cup Timer)
      BY DEF Job
    <3>2. job.changed \cup {p} \in SUBSET Part
      BY <1>33 DEF Job
    <3> QED
      BY <2>1, <3>1, <3>2 DEF Job
  <2>2. disk' \in [Part -> Content]
    BY <1>33 DEF Replace, Job
  <2> QED
    BY <1>33, <2>2, <2>3 DEF Replace
<1>34. ASSUME NEW p \in Part, ReplaceFails(p) PROVE Kinds'
  <2>1. job' \in Job
    BY <1>34 DEF ReplaceFails, Compensate, Job, Step
  <2>2. disk' \in [Part -> Content]
    BY <1>34 DEF ReplaceFails, Job
  <2>3. lock' \in {None, Operator} \cup Producer
    BY <1>34 DEF ReplaceFails, Compensate, LetGo
  <2> QED
    BY <1>34, <2>1, <2>2, <2>3 DEF ReplaceFails
<1>35. ASSUME NEW p \in Part, InstallPart(p) PROVE Kinds'
  BY <1>35, Numbers, Values DEF InstallPart, At, Job, Step
<1>36. ASSUME NEW p \in Part, Edit(p) PROVE Kinds'
  BY <1>36, Numbers, Values DEF Edit, Job, Step
<1>37. ASSUME NEW t \in Timer, RestoreTimer(t) PROVE Kinds'
  <2>1. job.expected.timers[t] \in TimerState
    BY <1>37 DEF RestoreTimer, At, UpdateInv, Updating, Installation
  <2> QED
    BY <1>37, <2>1 DEF RestoreTimer, Job, Step
<1>38. ASSUME NEW t \in Timer, Fire(t) PROVE Kinds'
  BY <1>38 DEF Fire, Begins, Service, Part
<1>39. ASSUME NEW w \in Producer, Works(w) PROVE Kinds'
  <2>1. [service[w] EXCEPT !.step = "work"] \in Service
    BY DEF Service
  <2> QED
    BY <1>39, <2>1 DEF Works, TakeLock
<1>40. ASSUME NEW w \in Producer, Ends(w) PROVE Kinds'
  BY <1>40, Numbers, Values DEF Ends, LetGo, Job, Step
<1>41. CASE UNCHANGED vars
  BY <1>41 DEF vars
<1> QED
  BY <1>1, <1>2, <1>3, <1>4, <1>5, <1>6, <1>7, <1>8, <1>9, <1>10, <1>11, <1>12,
     <1>13, <1>14, <1>15, <1>16, <1>17, <1>18, <1>19, <1>20, <1>21, <1>22, <1>23,
     <1>24, <1>25, <1>26, <1>27, <1>28, <1>29, <1>30, <1>31, <1>32, <1>33, <1>34,
     <1>35, <1>36, <1>37, <1>38, <1>39, <1>40, <1>41
     DEF Next, UpdateStep, OtherStep

(* Who takes and lets go of the guest lock.                                *)
LEMMA LockStep ==
  ASSUME IInv, [Next]_vars
  PROVE  LockInv'
<1> USE MaintenanceAssumption, NoneAssumption DEF IInv, Kinds, schedule,
            restoring, LockInv, Locked, NoJob, NoService, Timer, Producer, Service, Job
<1>1. CASE Install
  BY <1>1 DEF Install, Begin, At, Goto, TakeLock
<1>2. CASE InstallFails
  BY <1>2 DEF InstallFails, At, Finish, LetGo
<1>3. CASE Installed
  BY <1>3 DEF Installed, At, Finish, LetGo, Whole, Part
<1>4. CASE BeginUpdate
  BY <1>4 DEF BeginUpdate, At, InstallationState, Whole, Part
<1>5. CASE Prepare
  BY <1>5 DEF Prepare, At, InstallationState
<1>6. CASE NotPrepared
  BY <1>6 DEF NotPrepared, At, Finish, LetGo
<1>7. CASE Disable
  BY <1>7 DEF Disable, At, Goto
<1>35. CASE StopServices
  <2>1. job'.pc = "lock" /\ job.pc = "stop"
    BY <1>35 DEF StopServices, At, Goto
  <2>2. lock' # Operator
    BY <1>35, <2>1 DEF StopServices
  <2>3. ASSUME NEW w \in Timer
        PROVE  lock' = w <=> service'[w].step \in {"work", "release"}
    BY <1>35 DEF StopServices
  <2>4. lock' = Deploy <=> service'[Deploy].step \in {"work", "release"}
    BY <1>35 DEF StopServices
  <2> QED
    BY <2>1, <2>2, <2>3, <2>4
<1>8. CASE LockForUpdate
  BY <1>8 DEF LockForUpdate, At, TakeLock
<1>9. CASE Recheck
  BY <1>9 DEF Recheck, At, Goto
<1>10. CASE Reload
  BY <1>10 DEF Reload, At, Whole, Part
<1>11. CASE EndUpdate
  BY <1>11 DEF EndUpdate, At, Finish, LetGo
<1>12. CASE Undo
  BY <1>12 DEF Undo, At, PartOfStep, Towards, Compensate, LetGo
<1>13. CASE Revert
  BY <1>13 DEF Revert, At, Part
<1>14. CASE GiveUp
  BY <1>14 DEF GiveUp, At, PartOfStep, Towards, Finish, LetGo
<1>15. CASE BeginRestore
  BY <1>15 DEF BeginRestore, Begin, At, Goto
<1>16. CASE StartDrill
  BY <1>16 DEF StartDrill, At
<1>17. CASE NotStarted \/ Restored \/ RestoreFails \/ RestoreUnconfirmed
  BY <1>17 DEF NotStarted, At, Finish, LetGo, Restored, RestoreFails,
         RestoreUnconfirmed
<1>18. CASE Activate
  BY <1>18 DEF Activate, Begin, At, Goto, TakeLock
<1>19. CASE Enable
  BY <1>19 DEF Enable, At, Goto
<1>20. CASE EnableFails
  BY <1>20 DEF EnableFails, At, Towards, Finish, LetGo
<1>21. CASE Start \/ StartFails
  BY <1>21 DEF Start, At, Finish, LetGo, StartFails, AllOff
<1>22. CASE ReaderStarts \/ ReaderEnds \/ DrillEnds
  BY <1>22 DEF ReaderStarts, ReaderEnds, DrillEnds
<1>23. CASE DeployBacksUp
  BY <1>23 DEF DeployBacksUp, Begins, Producer
<1>24. CASE Releases
  BY <1>24 DEF Releases, Begins, TakeLock, Producer
<1>25. CASE Killed
  BY <1>25 DEF Killed, At, Finish, LetGo
<1>26. ASSUME NEW p \in Part, Replace(p) PROVE LockInv'
  BY <1>26 DEF Replace, At
<1>27. ASSUME NEW p \in Part, ReplaceFails(p) PROVE LockInv'
  BY <1>27 DEF ReplaceFails, At, Compensate, LetGo
<1>28. ASSUME NEW p \in Part, InstallPart(p) PROVE LockInv'
  BY <1>28 DEF InstallPart, At
<1>29. ASSUME NEW p \in Part, Edit(p) PROVE LockInv'
  BY <1>29 DEF Edit
<1>30. ASSUME NEW t \in Timer, RestoreTimer(t) PROVE LockInv'
  BY <1>30 DEF RestoreTimer, At
<1>31. ASSUME NEW t \in Timer, Fire(t) PROVE LockInv'
  BY <1>31 DEF Fire, Begins, At
<1>32. ASSUME NEW w \in Producer, Works(w) PROVE LockInv'
  <2>1. lock = None /\ lock' = w /\ UNCHANGED job
    BY <1>32 DEF Works, TakeLock
  <2>2. service' = [service EXCEPT ![w].step = "work"]
    BY <1>32 DEF Works
  <2>3. service'[w].step = "work" /\ \A v \in Producer \ {w} : service'[v] = service[v]
    BY <2>2
  <2>4. None \notin Producer /\ Operator \notin Producer
    OBVIOUS
  <2>5. \A v \in Producer : lock' = v <=> service'[v].step \in {"work", "release"}
    BY <2>1, <2>3, <2>4
  <2>6. lock' = Operator <=> job'.pc \in Locked
    BY <2>1, <2>4
  <2> QED
    BY <2>5, <2>6
<1>33. ASSUME NEW w \in Producer, Ends(w) PROVE LockInv'
  BY <1>33 DEF Ends, LetGo
<1>34. CASE UNCHANGED vars
  BY <1>34 DEF vars
<1> QED
  BY <1>1, <1>2, <1>3, <1>4, <1>5, <1>6, <1>7, <1>8, <1>9, <1>10, <1>11, <1>12,
     <1>13, <1>14, <1>15, <1>16, <1>17, <1>18, <1>19, <1>20, <1>21, <1>22, <1>23,
     <1>24, <1>25, <1>26, <1>27, <1>28, <1>29, <1>30, <1>31, <1>32, <1>33, <1>34, <1>35
     DEF Next, UpdateStep, OtherStep

(* No operation begins after a report.                                     *)
LEMMA JobStep ==
  ASSUME IInv, [Next]_vars
  PROVE  JobInv'
<1> USE MaintenanceAssumption, NoneAssumption DEF IInv, schedule, restoring,
            JobInv, NoJob, Kinds, Job
<1>1. CASE Install
  BY <1>1 DEF Install, Begin, At, Goto, TakeLock
<1>2. CASE InstallFails
  BY <1>2 DEF InstallFails, At, Finish, LetGo
<1>3. CASE Installed
  BY <1>3 DEF Installed, At, Finish, LetGo, Whole, Part
<1>4. CASE BeginUpdate
  BY <1>4 DEF BeginUpdate, At, InstallationState, Whole, Part
<1>5. CASE Prepare
  BY <1>5 DEF Prepare, At, InstallationState
<1>6. CASE NotPrepared
  BY <1>6 DEF NotPrepared, At, Finish, LetGo
<1>7. CASE Disable \/ StopServices
  BY <1>7 DEF Disable, At, Goto, AllOff, StopServices
<1>8. CASE LockForUpdate
  BY <1>8 DEF LockForUpdate, At, TakeLock
<1>9. CASE Recheck
  BY <1>9 DEF Recheck, At, Goto
<1>10. CASE Reload
  BY <1>10 DEF Reload, At, Whole, Part
<1>11. CASE EndUpdate
  BY <1>11 DEF EndUpdate, At, Finish, LetGo
<1>12. CASE Undo
  BY <1>12 DEF Undo, At, PartOfStep, Towards, Compensate, LetGo
<1>13. CASE Revert
  BY <1>13 DEF Revert, At, Part
<1>14. CASE GiveUp
  BY <1>14 DEF GiveUp, At, PartOfStep, Towards, Finish, LetGo
<1>15. CASE BeginRestore
  BY <1>15 DEF BeginRestore, Begin, At, Goto
<1>16. CASE StartDrill
  BY <1>16 DEF StartDrill, At
<1>17. CASE NotStarted \/ Restored \/ RestoreFails \/ RestoreUnconfirmed
  BY <1>17 DEF NotStarted, At, Finish, LetGo, Restored, RestoreFails,
         RestoreUnconfirmed
<1>18. CASE Activate \/ Enable \/ EnableFails
  BY <1>18 DEF Activate, Begin, At, Goto, TakeLock, Enable, EnableFails, Towards,
         Finish, LetGo
<1>19. CASE Start \/ StartFails
  BY <1>19 DEF Start, At, Finish, LetGo, StartFails, AllOff
<1>20. CASE ReaderStarts \/ ReaderEnds \/ DrillEnds
  BY <1>20 DEF ReaderStarts, ReaderEnds, DrillEnds
<1>21. CASE DeployBacksUp \/ Releases \/ Killed
  BY <1>21 DEF DeployBacksUp, Begins, TakeLock, Releases, Killed, At, Finish, LetGo
<1>22. ASSUME NEW p \in Part, Replace(p) PROVE JobInv'
  BY <1>22 DEF Replace, At
<1>23. ASSUME NEW p \in Part, ReplaceFails(p) PROVE JobInv'
  BY <1>23 DEF ReplaceFails, At, Compensate, LetGo
<1>24. ASSUME NEW p \in Part, InstallPart(p) PROVE JobInv'
  BY <1>24 DEF InstallPart, At
<1>25. ASSUME NEW p \in Part, Edit(p) PROVE JobInv'
  BY <1>25 DEF Edit
<1>26. ASSUME NEW t \in Timer, RestoreTimer(t) PROVE JobInv'
  BY <1>26 DEF RestoreTimer, At
<1>27. ASSUME NEW t \in Timer, Fire(t) PROVE JobInv'
  BY <1>27 DEF Fire, Begins, At
<1>28. ASSUME NEW w \in Producer, Works(w) PROVE JobInv'
  BY <1>28 DEF Works, TakeLock
<1>29. ASSUME NEW w \in Producer, Ends(w) PROVE JobInv'
  BY <1>29 DEF Ends, LetGo
<1>30. CASE UNCHANGED vars
  BY <1>30 DEF vars
<1> QED
  BY <1>1, <1>2, <1>3, <1>4, <1>5, <1>6, <1>7, <1>8, <1>9, <1>10, <1>11, <1>12,
     <1>13, <1>14, <1>15, <1>16, <1>17, <1>18, <1>19, <1>20, <1>21, <1>22, <1>23,
     <1>24, <1>25, <1>26, <1>27, <1>28, <1>29, <1>30
     DEF Next, UpdateStep, OtherStep

(* What an update knows is fixed when it begins.                           *)
LEMMA KnownStep ==
  ASSUME IInv, [Next]_vars
  PROVE  UpdateInv'
<1> USE MaintenanceAssumption, NoneAssumption DEF IInv, Kinds, schedule,
            restoring, JobInv, UpdateInv, Updating, Uniform, NoJob, Job
<1>1. CASE Install
  BY <1>1 DEF Install, Begin, At, Goto, TakeLock
<1>2. CASE InstallFails
  BY <1>2 DEF InstallFails, At, Finish, LetGo
<1>3. CASE Installed
  BY <1>3 DEF Installed, At, Finish, LetGo, Whole, Part
<1>4. CASE BeginUpdate
  <2>1. PICK now, v \in Version :
          /\ disk = Whole(now) /\ v > now
          /\ job' = [NoJob EXCEPT !.pc = "precheck", !.new = v,
                                                     !.expected = InstallationState]
    BY <1>4 DEF BeginUpdate
  <2>2. InstallationState \in Installation /\ Uniform(InstallationState.disk)
    BY <2>1, Numbers DEF InstallationState, Installation, Whole, Part
  <2> QED
    BY <2>1, <2>2, Values DEF At
<1>5. CASE Prepare
  BY <1>5 DEF Prepare, At, InstallationState
<1>6. CASE NotPrepared
  BY <1>6 DEF NotPrepared, At, Finish, LetGo
<1>7. CASE Disable \/ StopServices
  BY <1>7 DEF Disable, At, Goto, AllOff, StopServices
<1>8. CASE LockForUpdate
  BY <1>8 DEF LockForUpdate, At, TakeLock
<1>9. CASE Recheck
  BY <1>9 DEF Recheck, At, Goto
<1>10. CASE Reload
  BY <1>10 DEF Reload, At, Whole, Part
<1>11. CASE EndUpdate
  BY <1>11 DEF EndUpdate, At, Finish, LetGo
<1>12. CASE Undo
  BY <1>12 DEF Undo, At, PartOfStep, Towards, Compensate, LetGo
<1>13. CASE Revert
  BY <1>13 DEF Revert, At, Part
<1>14. CASE GiveUp
  BY <1>14 DEF GiveUp, At, PartOfStep, Towards, Finish, LetGo
<1>15. CASE BeginRestore
  BY <1>15 DEF BeginRestore, Begin, At, Goto
<1>16. CASE StartDrill
  BY <1>16 DEF StartDrill, At
<1>17. CASE NotStarted \/ Restored \/ RestoreFails \/ RestoreUnconfirmed
  BY <1>17 DEF NotStarted, At, Finish, LetGo, Restored, RestoreFails,
         RestoreUnconfirmed
<1>18. CASE Activate \/ Enable \/ EnableFails
  BY <1>18 DEF Activate, Begin, At, Goto, TakeLock, Enable, EnableFails, Towards,
         Finish, LetGo
<1>19. CASE Start \/ StartFails
  BY <1>19 DEF Start, At, Finish, LetGo, StartFails, AllOff
<1>20. CASE ReaderStarts \/ ReaderEnds \/ DrillEnds
  BY <1>20 DEF ReaderStarts, ReaderEnds, DrillEnds
<1>21. CASE DeployBacksUp \/ Releases \/ Killed
  BY <1>21 DEF DeployBacksUp, Begins, TakeLock, Releases, Killed, At, Finish, LetGo
<1>22. ASSUME NEW p \in Part, Replace(p) PROVE UpdateInv'
  BY <1>22 DEF Replace, At
<1>23. ASSUME NEW p \in Part, ReplaceFails(p) PROVE UpdateInv'
  BY <1>23 DEF ReplaceFails, At, Compensate, LetGo
<1>24. ASSUME NEW p \in Part, InstallPart(p) PROVE UpdateInv'
  BY <1>24 DEF InstallPart, At
<1>25. ASSUME NEW p \in Part, Edit(p) PROVE UpdateInv'
  BY <1>25 DEF Edit
<1>26. ASSUME NEW t \in Timer, RestoreTimer(t) PROVE UpdateInv'
  BY <1>26 DEF RestoreTimer, At
<1>27. ASSUME NEW t \in Timer, Fire(t) PROVE UpdateInv'
  BY <1>27 DEF Fire, Begins, At
<1>28. ASSUME NEW w \in Producer, Works(w) PROVE UpdateInv'
  BY <1>28 DEF Works, TakeLock
<1>29. ASSUME NEW w \in Producer, Ends(w) PROVE UpdateInv'
  BY <1>29 DEF Ends, LetGo
<1>30. CASE UNCHANGED vars
  BY <1>30 DEF vars
<1> QED
  BY <1>1, <1>2, <1>3, <1>4, <1>5, <1>6, <1>7, <1>8, <1>9, <1>10, <1>11, <1>12,
     <1>13, <1>14, <1>15, <1>16, <1>17, <1>18, <1>19, <1>20, <1>21, <1>22, <1>23,
     <1>24, <1>25, <1>26, <1>27, <1>28, <1>29, <1>30
     DEF Next, UpdateStep, OtherStep

(* Replacements, compensation and edits of the files.                      *)
LEMMA FilesStep ==
  ASSUME IInv, [Next]_vars
  PROVE  FilesInv'
<1> USE MaintenanceAssumption, NoneAssumption DEF IInv, Kinds, schedule,
            restoring, JobInv, UpdateInv, Updating, Uniform, FilesInv, Target,
            NoJob, Job
<1>1. CASE Install
  BY <1>1 DEF Install, Begin, At, Goto, TakeLock
<1>2. CASE InstallFails
  BY <1>2 DEF InstallFails, At, Finish, LetGo
<1>3. CASE Installed
  BY <1>3 DEF Installed, At, Finish, LetGo, Whole, Part
<1>4. CASE BeginUpdate
  BY <1>4 DEF BeginUpdate, At, InstallationState, Whole, Part
<1>5. CASE Prepare
  BY <1>5 DEF Prepare, At, InstallationState
<1>6. CASE NotPrepared
  BY <1>6 DEF NotPrepared, At, Finish, LetGo
<1>7. CASE Disable \/ StopServices
  BY <1>7 DEF Disable, At, Goto, AllOff, StopServices
<1>8. CASE LockForUpdate
  BY <1>8 DEF LockForUpdate, At, TakeLock
<1>9. CASE Recheck
  BY <1>9 DEF Recheck, At, Goto
<1>10. CASE Reload
  BY <1>10 DEF Reload, At, Whole, Part
<1>11. CASE EndUpdate
  BY <1>11 DEF EndUpdate, At, Finish, LetGo
<1>12. CASE Undo
  <2>1. job.pc \in {"recheck", "replace", "schedule"} /\ disk' = disk /\ job'.pc = "disable"
        /\ job'.before = job.before /\ job'.new = job.new /\ job'.changed = job.changed
    BY <1>12 DEF Undo, PartOfStep, Compensate, At
  <2>2. \A p \in Part : disk[p] # Absent
    BY <2>1, Numbers DEF Part
  <2> QED
    BY <2>1, <2>2
<1>13. CASE Revert
  <2>1. job.pc = "revert" /\ job.undo /\ job'.pc = "schedule" /\ job'.before = job.before
        /\ job'.new = job.new /\ job'.changed = job.changed /\ job'.undo = job.undo
    BY <1>13 DEF Revert, At
  <2>2. \A p \in Part : disk'[p] \in {job.before[p], Unknown} /\ job.before[p] \in Version
    BY <1>13, <2>1 DEF Revert, Part
  <2>3. loaded' = disk'[Unit]
    BY <1>13 DEF Revert
  <2> QED
    BY <2>1, <2>2, <2>3, Numbers DEF Part
<1>14. CASE GiveUp
  <2>1. job.pc \in Updating /\ job' = NoJob
    BY <1>14 DEF GiveUp, Finish
  <2>2. \A p \in Part : disk[p] # Absent /\ job.before[p] # Absent
    BY <2>1, Numbers DEF Part
  <2>3. \A p \in Part : disk'[p] # Absent
    BY <1>14, <2>2, Numbers DEF GiveUp, PartOfStep, At
  <2> QED
    BY <2>1, <2>3, Values
<1>15. CASE BeginRestore
  BY <1>15 DEF BeginRestore, Begin, At, Goto
<1>16. CASE StartDrill
  BY <1>16 DEF StartDrill, At
<1>17. CASE NotStarted \/ Restored \/ RestoreFails \/ RestoreUnconfirmed
  BY <1>17 DEF NotStarted, At, Finish, LetGo, Restored, RestoreFails,
         RestoreUnconfirmed
<1>18. CASE Activate \/ Enable \/ EnableFails
  BY <1>18 DEF Activate, Begin, At, Goto, TakeLock, Enable, EnableFails, Towards,
         Finish, LetGo
<1>19. CASE Start \/ StartFails
  BY <1>19 DEF Start, At, Finish, LetGo, StartFails, AllOff
<1>20. CASE ReaderStarts \/ ReaderEnds \/ DrillEnds
  BY <1>20 DEF ReaderStarts, ReaderEnds, DrillEnds
<1>21. CASE DeployBacksUp \/ Releases \/ Killed
  BY <1>21 DEF DeployBacksUp, Begins, TakeLock, Releases, Killed, At, Finish, LetGo
<1>22. ASSUME NEW p \in Part, Replace(p) PROVE FilesInv'
  BY <1>22, Numbers DEF Replace, At, Part
<1>23. ASSUME NEW p \in Part, ReplaceFails(p) PROVE FilesInv'
  BY <1>23, Numbers DEF ReplaceFails, At, Compensate, LetGo, Part
<1>24. ASSUME NEW p \in Part, InstallPart(p) PROVE FilesInv'
  BY <1>24 DEF InstallPart, At
<1>25. ASSUME NEW p \in Part, Edit(p) PROVE FilesInv'
  BY <1>25, Numbers DEF Edit, Part
<1>26. ASSUME NEW t \in Timer, RestoreTimer(t) PROVE FilesInv'
  BY <1>26 DEF RestoreTimer, At
<1>27. ASSUME NEW t \in Timer, Fire(t) PROVE FilesInv'
  BY <1>27 DEF Fire, Begins, At
<1>28. ASSUME NEW w \in Producer, Works(w) PROVE FilesInv'
  BY <1>28 DEF Works, TakeLock
<1>29. ASSUME NEW w \in Producer, Ends(w) PROVE FilesInv'
  BY <1>29 DEF Ends, LetGo
<1>30. CASE UNCHANGED vars
  BY <1>30 DEF vars
<1> QED
  BY <1>1, <1>2, <1>3, <1>4, <1>5, <1>6, <1>7, <1>8, <1>9, <1>10, <1>11, <1>12,
     <1>13, <1>14, <1>15, <1>16, <1>17, <1>18, <1>19, <1>20, <1>21, <1>22, <1>23,
     <1>24, <1>25, <1>26, <1>27, <1>28, <1>29, <1>30
     DEF Next, UpdateStep, OtherStep

(* Services and timers are stopped around every change of the files.       *)
LEMMA QuietStep ==
  ASSUME IInv, [Next]_vars
  PROVE  QuietInv'
<1> USE MaintenanceAssumption, NoneAssumption DEF IInv, At, Kinds, schedule,
            restoring, JobInv, UpdateInv, Updating, Uniform, FilesInv, Target,
            QuietInv, Stopped, Quiet, Settled, NoJob, NoService, Job
<1>1. CASE Install
  BY <1>1 DEF Install, Begin, Goto, TakeLock
<1>2. CASE InstallFails
  BY <1>2 DEF InstallFails, Finish, LetGo
<1>3. CASE Installed
  <2>1. job' = NoJob /\ UNCHANGED <<disk, service>>
    BY <1>3 DEF Installed, Finish
  <2>2. disk[Unit] = 1 /\ disk[Leaf] = 1 /\ loaded' # Absent
    BY <1>3 DEF Installed, Whole, Part, Absent
  <2> QED
    BY <2>1, <2>2, Values
<1>4. CASE BeginUpdate
  BY <1>4 DEF BeginUpdate, InstallationState, Whole, Part
<1>5. CASE Prepare
  BY <1>5 DEF Prepare, InstallationState
<1>6. CASE NotPrepared
  BY <1>6 DEF NotPrepared, Finish, LetGo
<1>7. CASE Disable
  BY <1>7 DEF Disable, Goto
<1>31. CASE StopServices
  BY <1>31 DEF StopServices, Goto, Producer
<1>8. CASE LockForUpdate
  BY <1>8 DEF LockForUpdate, TakeLock
<1>9. CASE Recheck
  BY <1>9 DEF Recheck, Goto
<1>10. CASE Reload
  BY <1>10 DEF Reload, Whole, Part
<1>11. CASE EndUpdate
  BY <1>11 DEF EndUpdate, Finish, LetGo
<1>12. CASE Undo
  BY <1>12 DEF Undo, PartOfStep, Towards, Compensate, LetGo
<1>13. CASE Revert
  <2>1. Quiet /\ Quiet'
    BY <1>13 DEF Revert
  <2>2. \A p \in Part : disk'[p] \in {job.before[p], Unknown} /\ job.before[p] = job.before[Unit]
    BY <1>13 DEF Revert, Part
  <2>3. Settled'
    BY <1>13, <2>2, Numbers DEF Revert, Part
  <2> QED
    BY <1>13, <2>1, <2>3 DEF Revert
<1>14. CASE GiveUp
  <2>1. told' /\ job' = NoJob /\ job.pc \in Updating /\ service' = service
    BY <1>14 DEF GiveUp, Finish
  <2>2. CASE Quiet /\ job.pc \in Stopped \cup {"disable", "stop"}
    <3>1. timers' = timers \/ timers' \in Towards(AllOff)
      BY <1>14, <2>2 DEF GiveUp, PartOfStep
    <3>2. timers' \in Towards(AllOff) => timers' = AllOff
      BY <2>2 DEF Towards, AllOff, Off
    <3>3. Quiet'
      BY <2>1, <2>2, <3>1, <3>2
    <3> QED
      BY <2>1, <3>3, Values
  <2>3. CASE Settled /\ job.pc \notin Stopped
    <3>1. UNCHANGED <<disk, loaded>>
      BY <1>14, <2>3 DEF GiveUp, PartOfStep
    <3> QED
      BY <2>1, <2>3, <3>1, Values
  <2> QED
    BY <2>1, <2>2, <2>3
<1>15. CASE BeginRestore
  BY <1>15 DEF BeginRestore, Begin, Goto
<1>16. CASE StartDrill
  BY <1>16 DEF StartDrill
<1>17. CASE NotStarted \/ Restored \/ RestoreFails \/ RestoreUnconfirmed
  BY <1>17 DEF NotStarted, Finish, LetGo, Restored, RestoreFails,
         RestoreUnconfirmed
<1>18. CASE Activate \/ Enable \/ EnableFails
  BY <1>18 DEF Activate, Begin, Goto, TakeLock, Enable, EnableFails, Towards,
         Finish, LetGo
<1>19. CASE Start \/ StartFails
  BY <1>19 DEF Start, Finish, LetGo, StartFails, AllOff
<1>20. CASE ReaderStarts \/ ReaderEnds \/ DrillEnds
  BY <1>20 DEF ReaderStarts, ReaderEnds, DrillEnds
<1>21. CASE DeployBacksUp \/ Releases
  <2>1. \A t \in Timer : service'[t] = service[t]
    BY <1>21 DEF DeployBacksUp, Begins, Releases, Producer
  <2>2. UNCHANGED <<disk, loaded, timers, told, job>>
    BY <1>21 DEF DeployBacksUp, Releases
  <2> QED
    BY <2>1, <2>2
<1>32. CASE Killed
  BY <1>32 DEF Killed, Finish, LetGo
<1>22. ASSUME NEW p \in Part, Replace(p) PROVE QuietInv'
  BY <1>22 DEF Replace, At
<1>23. ASSUME NEW p \in Part, ReplaceFails(p) PROVE QuietInv'
  BY <1>23 DEF ReplaceFails, At, Compensate, LetGo
<1>24. ASSUME NEW p \in Part, InstallPart(p) PROVE QuietInv'
  <2>1. loaded = Absent /\ disk' \in [Part -> Content] /\ UNCHANGED <<timers, service, told, job>>
    BY <1>24, Numbers DEF InstallPart
  <2>2. \A q \in Part : disk'[q] \in {Absent, 1, Unknown}
    BY <1>24 DEF InstallPart
  <2>3. Settled'
    BY <2>2, Numbers DEF Part
  <2>4. ~ (job.pc \in Stopped \cup {"stop"})
    BY <1>24 DEF InstallPart
  <2>5. \A t \in Timer : service'[t].step = "idle"
    BY <2>1
  <2> QED
    BY <2>1, <2>3, <2>4, <2>5
<1>25. ASSUME NEW p \in Part, Edit(p) PROVE QuietInv'
  BY <1>25, Numbers DEF Edit, Part
<1>26. ASSUME NEW t \in Timer, RestoreTimer(t) PROVE QuietInv'
  BY <1>26 DEF RestoreTimer, At
<1>27. ASSUME NEW t \in Timer, Fire(t) PROVE QuietInv'
  <2>1. Settled /\ ~ (job.pc \in Stopped \cup {"stop"})
    BY <1>27 DEF Fire, AllOff, Off
  <2>2. loaded # Absent /\ UNCHANGED <<disk, loaded, timers, told, job>>
    BY <1>27 DEF Fire
  <2>3. service' = [service EXCEPT ![t] = [step |-> "started", code |-> disk[Unit]]]
    BY <1>27 DEF Fire, Begins
  <2>4. service'[t].code = disk[Unit] /\ \A s \in Timer \ {t} : service'[s] = service[s]
    BY <2>3 DEF Producer
  <2>5. \A s \in Timer : service'[s].step # "idle" =>
          /\ loaded # Absent
          /\ {service'[s].code, disk[Leaf]} \subseteq Version => service'[s].code = disk[Leaf]
    BY <2>1, <2>2, <2>4
  <2> QED
    BY <2>1, <2>2, <2>5
<1>28. ASSUME NEW w \in Producer, Works(w) PROVE QuietInv'
  BY <1>28 DEF Works, TakeLock
<1>29. ASSUME NEW w \in Producer, Ends(w) PROVE QuietInv'
  BY <1>29 DEF Ends, LetGo
<1>30. CASE UNCHANGED vars
  BY <1>30 DEF vars
<1> QED
  BY <1>1, <1>2, <1>3, <1>4, <1>5, <1>6, <1>7, <1>8, <1>9, <1>10, <1>11, <1>12,
     <1>13, <1>14, <1>15, <1>16, <1>17, <1>18, <1>19, <1>20, <1>21, <1>22, <1>23,
     <1>24, <1>25, <1>26, <1>27, <1>28, <1>29, <1>30, <1>31, <1>32
     DEF Next, UpdateStep, OtherStep

(* The schedule is put back one timer after the other.                     *)
LEMMA ScheduleStep ==
  ASSUME IInv, [Next]_vars
  PROVE  ScheduleInv'
<1> USE MaintenanceAssumption, NoneAssumption DEF IInv, Kinds, schedule,
            restoring, ScheduleInv, NoJob, Job
<1>1. CASE Install
  BY <1>1 DEF Install, Begin, At, Goto, TakeLock
<1>2. CASE InstallFails
  BY <1>2 DEF InstallFails, At, Finish, LetGo
<1>3. CASE Installed
  BY <1>3 DEF Installed, At, Finish, LetGo, Whole, Part
<1>4. CASE BeginUpdate
  BY <1>4 DEF BeginUpdate, At, InstallationState, Whole, Part
<1>5. CASE Prepare
  BY <1>5 DEF Prepare, At, InstallationState
<1>6. CASE NotPrepared
  BY <1>6 DEF NotPrepared, At, Finish, LetGo
<1>7. CASE Disable \/ StopServices
  BY <1>7 DEF Disable, At, Goto, AllOff, StopServices
<1>8. CASE LockForUpdate
  BY <1>8 DEF LockForUpdate, At, TakeLock
<1>9. CASE Recheck
  BY <1>9 DEF Recheck, At, Goto
<1>10. CASE Reload
  BY <1>10 DEF Reload, At, Whole, Part
<1>11. CASE EndUpdate
  BY <1>11 DEF EndUpdate, At, Finish, LetGo
<1>12. CASE Undo
  BY <1>12 DEF Undo, At, PartOfStep, Towards, Compensate, LetGo
<1>13. CASE Revert
  BY <1>13 DEF Revert, At, Part
<1>14. CASE GiveUp
  BY <1>14 DEF GiveUp, At, PartOfStep, Towards, Finish, LetGo
<1>15. CASE BeginRestore
  BY <1>15 DEF BeginRestore, Begin, At, Goto
<1>16. CASE StartDrill
  BY <1>16 DEF StartDrill, At
<1>17. CASE NotStarted \/ Restored \/ RestoreFails \/ RestoreUnconfirmed
  BY <1>17 DEF NotStarted, At, Finish, LetGo, Restored, RestoreFails,
         RestoreUnconfirmed
<1>18. CASE Activate \/ Enable \/ EnableFails
  BY <1>18 DEF Activate, Begin, At, Goto, TakeLock, Enable, EnableFails, Towards,
         Finish, LetGo
<1>19. CASE Start \/ StartFails
  BY <1>19 DEF Start, At, Finish, LetGo, StartFails, AllOff
<1>20. CASE ReaderStarts \/ ReaderEnds \/ DrillEnds
  BY <1>20 DEF ReaderStarts, ReaderEnds, DrillEnds
<1>21. CASE DeployBacksUp \/ Releases \/ Killed
  BY <1>21 DEF DeployBacksUp, Begins, TakeLock, Releases, Killed, At, Finish, LetGo
<1>22. ASSUME NEW p \in Part, Replace(p) PROVE ScheduleInv'
  BY <1>22 DEF Replace, At
<1>23. ASSUME NEW p \in Part, ReplaceFails(p) PROVE ScheduleInv'
  BY <1>23 DEF ReplaceFails, At, Compensate, LetGo
<1>24. ASSUME NEW p \in Part, InstallPart(p) PROVE ScheduleInv'
  BY <1>24 DEF InstallPart, At
<1>25. ASSUME NEW p \in Part, Edit(p) PROVE ScheduleInv'
  BY <1>25 DEF Edit
<1>26. ASSUME NEW t \in Timer, RestoreTimer(t) PROVE ScheduleInv'
  BY <1>26 DEF RestoreTimer, At
<1>27. ASSUME NEW t \in Timer, Fire(t) PROVE ScheduleInv'
  BY <1>27 DEF Fire, Begins, At
<1>28. ASSUME NEW w \in Producer, Works(w) PROVE ScheduleInv'
  BY <1>28 DEF Works, TakeLock
<1>29. ASSUME NEW w \in Producer, Ends(w) PROVE ScheduleInv'
  BY <1>29 DEF Ends, LetGo
<1>30. CASE UNCHANGED vars
  BY <1>30 DEF vars
<1> QED
  BY <1>1, <1>2, <1>3, <1>4, <1>5, <1>6, <1>7, <1>8, <1>9, <1>10, <1>11, <1>12,
     <1>13, <1>14, <1>15, <1>16, <1>17, <1>18, <1>19, <1>20, <1>21, <1>22, <1>23,
     <1>24, <1>25, <1>26, <1>27, <1>28, <1>29, <1>30
     DEF Next, UpdateStep, OtherStep

(* Drills, receipts and the backups made meanwhile.                        *)
LEMMA DrillStep ==
  ASSUME IInv, [Next]_vars
  PROVE  DrillInv'
<1> USE MaintenanceAssumption, NoneAssumption DEF IInv, Kinds, schedule,
            restoring, JobInv, LockInv, Locked, DrillInv,
            PrivateInputsAccounted, NoJob, NoDrill, Job
<1>1. CASE Install
  BY <1>1 DEF Install, Begin, At, Goto, TakeLock
<1>2. CASE InstallFails
  BY <1>2 DEF InstallFails, At, Finish, LetGo
<1>3. CASE Installed
  BY <1>3 DEF Installed, At, Finish, LetGo, Whole, Part
<1>4. CASE BeginUpdate
  BY <1>4 DEF BeginUpdate, At, InstallationState, Whole, Part
<1>5. CASE Prepare
  BY <1>5 DEF Prepare, At, InstallationState
<1>6. CASE NotPrepared
  BY <1>6 DEF NotPrepared, At, Finish, LetGo
<1>7. CASE Disable \/ StopServices
  BY <1>7 DEF Disable, At, Goto, AllOff, StopServices
<1>8. CASE LockForUpdate
  BY <1>8 DEF LockForUpdate, At, TakeLock
<1>9. CASE Recheck
  BY <1>9 DEF Recheck, At, Goto
<1>10. CASE Reload
  BY <1>10 DEF Reload, At, Whole, Part
<1>11. CASE EndUpdate
  BY <1>11 DEF EndUpdate, At, Finish, LetGo
<1>12. CASE Undo
  BY <1>12 DEF Undo, At, PartOfStep, Towards, Compensate, LetGo
<1>13. CASE Revert
  BY <1>13 DEF Revert, At, Part
<1>14. CASE GiveUp
  BY <1>14 DEF GiveUp, At, PartOfStep, Towards, Finish, LetGo
<1>15. CASE BeginRestore
  BY <1>15 DEF BeginRestore, Begin, At, Goto
<1>16. CASE StartDrill
  BY <1>16 DEF StartDrill, At
<1>17. CASE NotStarted \/ Restored \/ RestoreFails \/ RestoreUnconfirmed
  BY <1>17 DEF NotStarted, At, Finish, LetGo, Restored, RestoreFails,
         RestoreUnconfirmed
<1>18. CASE Activate \/ Enable \/ EnableFails
  BY <1>18 DEF Activate, Begin, At, Goto, TakeLock, Enable, EnableFails, Towards,
         Finish, LetGo
<1>19. CASE Start \/ StartFails
  BY <1>19 DEF Start, At, Finish, LetGo, StartFails, AllOff
<1>20. CASE ReaderStarts \/ ReaderEnds \/ DrillEnds
  BY <1>20 DEF ReaderStarts, ReaderEnds, DrillEnds
<1>21. CASE DeployBacksUp \/ Releases \/ Killed
  BY <1>21 DEF DeployBacksUp, Begins, TakeLock, Releases, Killed, At, Finish, LetGo
<1>22. ASSUME NEW p \in Part, Replace(p) PROVE DrillInv'
  BY <1>22 DEF Replace, At
<1>23. ASSUME NEW p \in Part, ReplaceFails(p) PROVE DrillInv'
  BY <1>23 DEF ReplaceFails, At, Compensate, LetGo
<1>24. ASSUME NEW p \in Part, InstallPart(p) PROVE DrillInv'
  BY <1>24 DEF InstallPart, At
<1>25. ASSUME NEW p \in Part, Edit(p) PROVE DrillInv'
  BY <1>25 DEF Edit
<1>26. ASSUME NEW t \in Timer, RestoreTimer(t) PROVE DrillInv'
  BY <1>26 DEF RestoreTimer, At
<1>27. ASSUME NEW t \in Timer, Fire(t) PROVE DrillInv'
  BY <1>27 DEF Fire, Begins, At
<1>28. ASSUME NEW w \in Producer, Works(w) PROVE DrillInv'
  BY <1>28 DEF Works, TakeLock
<1>29. ASSUME NEW w \in Producer, Ends(w) PROVE DrillInv'
  <2>1. UNCHANGED <<job, receipt, drill, inputs>>
    BY <1>29 DEF Ends
  <2>2. job.pc = "enable" => lock = Operator /\ lock # w
    BY DEF Producer, Timer
  <2>3. job.pc = "enable" => latest' = latest
    BY <1>29, <2>2 DEF Ends
  <2> QED
    BY <2>1, <2>3
<1>30. CASE UNCHANGED vars
  BY <1>30 DEF vars
<1> QED
  BY <1>1, <1>2, <1>3, <1>4, <1>5, <1>6, <1>7, <1>8, <1>9, <1>10, <1>11, <1>12,
     <1>13, <1>14, <1>15, <1>16, <1>17, <1>18, <1>19, <1>20, <1>21, <1>22, <1>23,
     <1>24, <1>25, <1>26, <1>27, <1>28, <1>29, <1>30
     DEF Next, UpdateStep, OtherStep

(* The private inputs of updates and restores.                             *)
LEMMA InputsStep ==
  ASSUME IInv, [Next]_vars
  PROVE  PrivateInputsAccounted'
<1> USE MaintenanceAssumption, NoneAssumption DEF IInv, At, Kinds, schedule,
            restoring, JobInv, UpdateInv, Updating, DrillInv,
            PrivateInputsAccounted, NoJob, NoDrill, Job
<1>1. CASE Install
  BY <1>1 DEF Install, Begin, Goto, TakeLock
<1>2. CASE InstallFails
  BY <1>2 DEF InstallFails, Finish, LetGo
<1>3. CASE Installed
  BY <1>3 DEF Installed, Finish, LetGo, Whole, Part
<1>4. CASE BeginUpdate
  BY <1>4 DEF BeginUpdate, InstallationState, Whole, Part
<1>5. CASE Prepare
  BY <1>5 DEF Prepare, InstallationState
<1>6. CASE NotPrepared
  BY <1>6 DEF NotPrepared, Finish, LetGo
<1>7. CASE Disable \/ StopServices
  BY <1>7 DEF Disable, Goto, AllOff, StopServices
<1>8. CASE LockForUpdate
  BY <1>8 DEF LockForUpdate, TakeLock
<1>9. CASE Recheck
  BY <1>9 DEF Recheck, Goto
<1>10. CASE Reload
  BY <1>10 DEF Reload, Whole, Part
<1>11. CASE EndUpdate
  BY <1>11 DEF EndUpdate, Finish, LetGo
<1>12. CASE Undo
  BY <1>12 DEF Undo, PartOfStep, Towards, Compensate, LetGo
<1>13. CASE Revert
  BY <1>13 DEF Revert, Part
<1>14. CASE GiveUp
  BY <1>14 DEF GiveUp, PartOfStep, Towards, Finish, LetGo
<1>15. CASE BeginRestore
  BY <1>15 DEF BeginRestore, Begin, Goto
<1>16. CASE StartDrill
  BY <1>16 DEF StartDrill
<1>17. CASE NotStarted \/ Restored \/ RestoreFails \/ RestoreUnconfirmed
  BY <1>17 DEF NotStarted, Finish, LetGo, Restored, RestoreFails,
         RestoreUnconfirmed
<1>18. CASE Activate \/ Enable \/ EnableFails
  BY <1>18 DEF Activate, Begin, Goto, TakeLock, Enable, EnableFails, Towards,
         Finish, LetGo
<1>19. CASE Start \/ StartFails
  BY <1>19 DEF Start, Finish, LetGo, StartFails, AllOff
<1>20. CASE ReaderStarts \/ ReaderEnds \/ DrillEnds
  BY <1>20 DEF ReaderStarts, ReaderEnds, DrillEnds
<1>21. CASE DeployBacksUp \/ Releases \/ Killed
  BY <1>21 DEF DeployBacksUp, Begins, TakeLock, Releases, Killed, Finish, LetGo
<1>22. ASSUME NEW p \in Part, Replace(p) PROVE PrivateInputsAccounted'
  BY <1>22 DEF Replace, At
<1>23. ASSUME NEW p \in Part, ReplaceFails(p) PROVE PrivateInputsAccounted'
  BY <1>23 DEF ReplaceFails, At, Compensate, LetGo
<1>24. ASSUME NEW p \in Part, InstallPart(p) PROVE PrivateInputsAccounted'
  BY <1>24 DEF InstallPart, At
<1>25. ASSUME NEW p \in Part, Edit(p) PROVE PrivateInputsAccounted'
  BY <1>25 DEF Edit
<1>26. ASSUME NEW t \in Timer, RestoreTimer(t) PROVE PrivateInputsAccounted'
  BY <1>26 DEF RestoreTimer, At
<1>27. ASSUME NEW t \in Timer, Fire(t) PROVE PrivateInputsAccounted'
  BY <1>27 DEF Fire, Begins, At
<1>28. ASSUME NEW w \in Producer, Works(w) PROVE PrivateInputsAccounted'
  BY <1>28 DEF Works, TakeLock
<1>29. ASSUME NEW w \in Producer, Ends(w) PROVE PrivateInputsAccounted'
  BY <1>29 DEF Ends, LetGo
<1>30. CASE UNCHANGED vars
  BY <1>30 DEF vars
<1> QED
  BY <1>1, <1>2, <1>3, <1>4, <1>5, <1>6, <1>7, <1>8, <1>9, <1>10, <1>11, <1>12,
     <1>13, <1>14, <1>15, <1>16, <1>17, <1>18, <1>19, <1>20, <1>21, <1>22, <1>23,
     <1>24, <1>25, <1>26, <1>27, <1>28, <1>29, <1>30
     DEF Next, UpdateStep, OtherStep

LEMMA IInvInit == Init => IInv
<1> USE MaintenanceAssumption, NoneAssumption, Numbers, Values DEF Init, Whole
<1> SUFFICES ASSUME Init PROVE IInv
  OBVIOUS
<1>1. Kinds
  <2>1. disk \in [Part -> Content] /\ loaded \in Content
    BY DEF Part
  <2> QED
    BY <2>1 DEF Kinds, Absent
<1>2. LockInv /\ JobInv
  BY DEF LockInv, JobInv, Locked, NoService, NoJob, Producer
<1>3. UpdateInv /\ FilesInv
  BY DEF UpdateInv, FilesInv, Updating, Part
<1>4. QuietInv
  BY DEF QuietInv, Stopped, Settled, Part, NoService, Producer
<1>5. ScheduleInv /\ DrillInv /\ PrivateInputsAccounted
  BY DEF ScheduleInv, DrillInv, PrivateInputsAccounted, At
<1> QED
  BY <1>1, <1>2, <1>3, <1>4, <1>5 DEF IInv

(* The inductive invariant holds: what an update knows and has done        *)
(* accounts for the files, the schedule, the services and the lock.        *)
THEOREM Invariance == Spec => []IInv
<1>1. IInv /\ [Next]_vars => IInv'
  BY TypeStep, LockStep, JobStep, KnownStep, FilesStep, QuietStep, ScheduleStep,
     DrillStep, InputsStep DEF IInv
<1> QED
  BY IInvInit, <1>1, PTL DEF Spec

(* The type invariant.                                                     *)
THEOREM Typed == Spec => []TypeOK
<1>1. IInv => TypeOK
  BY DEF IInv, Kinds, Service, LockInv, TypeOK
<1> QED
  BY Invariance, <1>1, PTL

(* Whatever step of an update fails or is killed, nothing that the timers  *)
(* or the operator started works with sources of one version and           *)
(* credentials of another; the backup of a deploy, which neither the       *)
(* timers nor the lock of the update hold back, does in three cases only:  *)
(* after a report, before a compensation, or over files replaced since it  *)
(* started.                                                                *)
THEOREM NeverMixed == Spec => []NoMixedBackup
<1>1. ASSUME IInv, NEW w \in Producer, service[w].step = "work",
             service[w].code \in Version, disk[Leaf] \in Version
      PROVE  \/ service[w].code = disk[Leaf]
             \/ w = Deploy /\ (told \/ job.undo \/ service[w].code # disk[Unit])
  <2>1. CASE w \in Timer
    BY <1>1, <2>1 DEF IInv, QuietInv
  <2>2. CASE w = Deploy
    <3>1. ~At("replace")
      BY <1>1, <2>2, MaintenanceAssumption DEF IInv, LockInv, Locked, At, MaintenanceAssumption
    <3>2. Settled \/ told \/ job.undo
      BY <1>1, <3>1 DEF IInv, QuietInv
    <3> QED
      BY <1>1, <2>2, <3>2 DEF Settled
  <2> QED
    BY <2>1, <2>2 DEF Producer
<1>2. IInv => NoMixedBackup
  BY <1>1 DEF NoMixedBackup
<1> QED
  BY Invariance, <1>2, PTL

(* Private inputs outlive their operation only after a report.             *)
THEOREM InputsAccounted == Spec => []PrivateInputsAccounted
<1>1. IInv => PrivateInputsAccounted
  BY DEF IInv
<1> QED
  BY Invariance, <1>1, PTL

(* The private inputs of a restore stay while its drill may read them.     *)
THEOREM InputsStay == Spec => []InputsWhileDrill
<1>1. IInv => InputsWhileDrill
  BY DEF IInv, DrillInv, InputsWhileDrill
<1> QED
  BY Invariance, <1>1, PTL

-----------------------------------------------------------------------------
(* Only EndUpdate ends an update that began to work without a report.      *)
LEMMA EndStep ==
  ASSUME IInv, [Next]_vars, job.before # None, job' = NoJob, ~told'
  PROVE  EndUpdate
<1> USE NoneAssumption DEF IInv, UpdateInv, JobInv, Updating, At
<1>1. job' # job
  BY Values
<1>2. job.pc \in Updating
  OBVIOUS
<1>3. job'.pc = "idle"
  BY Values
<1>4. ASSUME UpdateStep PROVE EndUpdate
  <2>1. ~ (Disable \/ StopServices \/ Recheck)
    BY <1>3 DEF Kinds, Job, Disable, StopServices, Recheck, Goto
  <2>2. ~ LockForUpdate
    BY <1>3 DEF Kinds, Job, LockForUpdate
  <2>3. ~ Reload /\ ~ Revert
    BY <1>3 DEF Kinds, Job, Reload, Revert
  <2>4. ~ Undo
    BY <1>3 DEF Kinds, Job, Undo, Compensate
  <2>5. ASSUME NEW p \in Part, Replace(p) \/ ReplaceFails(p) PROVE FALSE
    BY <1>2, <1>3, <2>5 DEF Kinds, Job, Replace, ReplaceFails, Compensate
  <2>6. ASSUME NEW t \in Timer, RestoreTimer(t) PROVE FALSE
    BY <1>2, <1>3, <2>6 DEF RestoreTimer
  <2>7. CASE Prepare \/ NotPrepared \/ GiveUp
    BY <1>2, <2>7 DEF Prepare, NotPrepared, GiveUp
  <2> QED
    BY <1>4, <2>1, <2>2, <2>3, <2>4, <2>5, <2>6, <2>7 DEF UpdateStep
<1>5. ASSUME OtherStep PROVE FALSE
  BY <1>1, <1>2, <1>5 DEF OtherStep, InstallPart, Installed, InstallFails, StartDrill,
     NotStarted, Restored, RestoreFails, RestoreUnconfirmed, Enable, EnableFails, Start, StartFails
<1>6. CASE Install \/ BeginUpdate \/ BeginRestore \/ Activate \/ Killed
  BY <1>2, <1>6 DEF Install, BeginUpdate, BeginRestore, Activate, Begin, Killed
<1>7. UNCHANGED job => FALSE
  BY <1>1
<1> QED
  BY <1>4, <1>5, <1>6, <1>7 DEF Next, vars, ReaderStarts, ReaderEnds, DrillEnds,
     Fire, Works, Ends, DeployBacksUp, Releases, Edit

(* An update ends with the whole new version, the whole old one, or a      *)
(* report.                                                                 *)
THEOREM AllOrNothing == Spec => UpdateAllOrNothing
<1>1. ASSUME IInv, [Next]_vars, job.before # None, job' = NoJob, ~told'
      PROVE  LET version == IF job.undo THEN job.before ELSE Whole(job.new)
             IN /\ \A p \in Part : disk'[p] \in {version[p], Unknown}
                /\ loaded' \in {version[Unit], Unknown}
                /\ timers' = job.expected.timers
  <2>1. EndUpdate
    BY <1>1, EndStep
  <2>2. job.pc = "schedule" /\ job.left = {} /\ UNCHANGED <<disk, loaded, timers>>
    BY <2>1 DEF EndUpdate, At, schedule
  <2>3. timers = job.expected.timers
    BY <1>1, <2>2 DEF IInv, Kinds, ScheduleInv, UpdateInv, Updating, Installation
  <2> QED
    BY <1>1, <2>2, <2>3 DEF IInv, FilesInv, Target, Whole, Part
<1> QED
  BY Invariance, <1>1, PTL DEF Spec, UpdateAllOrNothing

(* A timer that was disabled is enabled by an activation only when the     *)
(* last backup has been restored, whatever ran meanwhile.                  *)
THEOREM ActivationProven == Spec => ActivatedOnProvenBackup
<1>1. IInv => \A t \in Timer : At("enable") /\ ~timers[t].enabled /\ timers'[t].enabled
                               => receipt[latest] = "success"
  BY DEF IInv, DrillInv, At
<1> QED
  BY Invariance, <1>1, PTL DEF Spec, ActivatedOnProvenBackup
=============================================================================
