------------------------- MODULE BumiPipeline_proofs -------------------------
(***************************************************************************)
(* Proofs about BumiPipeline, for every set of modules, every threshold    *)
(* and every bound: type correctness, mutual exclusion of runs, and the    *)
(* completeness of the saved recommendations.                              *)
(***************************************************************************)
EXTENDS BumiPipeline, FiniteSetTheorems, TLAPS

-----------------------------------------------------------------------------
(* What the operators on task bodies return.                                *)

\* The number of modules, and of any set of modules, is a number in range.
LEMMA ModuleCount ==
    /\ Cardinality(Modules) \in Nat
    /\ \A S \in SUBSET Modules :
          /\ IsFiniteSet(S)
          /\ Cardinality(S) \in 0 .. Cardinality(Modules)
<1>1. Cardinality(Modules) \in Nat
  BY ModulesAssumption, FS_CardinalityType
<1>2. ASSUME NEW S \in SUBSET Modules
      PROVE  IsFiniteSet(S) /\ Cardinality(S) \in 0 .. Cardinality(Modules)
  <2>1. IsFiniteSet(S) /\ Cardinality(S) =< Cardinality(Modules)
    BY ModulesAssumption, FS_Subset
  <2>2. Cardinality(S) \in Nat
    BY <2>1, FS_CardinalityType
  <2> QED
    BY <1>1, <2>1, <2>2
<1> QED
  BY <1>1, <1>2

\* list_modules returns modules, whatever is disabled.
LEMMA ListedModules ==
    ASSUME NEW folder \in Folders
    PROVE  list_modules(folder) \in SUBSET Modules
BY DEF list_modules, Folders, Modules

\* A step that moves on, retries or gives up keeps the task a task of the
\* same run, kind and copy.
LEMMA BodySteps ==
    ASSUME NEW b \in Task
    PROVE  /\ \A state \in TaskState :
                /\ Advance(b, state) \in Task
                /\ [b EXCEPT !.state = state] \in Task
           /\ HandleException(b) \in Task
           /\ GiveUp(b) \in Task
           /\ Older(b) \in Task
           /\ \A n \in 0 .. MaxCopies : [b EXCEPT !.copy = n] \in Task
           /\ [b EXCEPT !.age = 0] \in Task
           /\ \A n \in 0 .. Cardinality(Modules) :
                [b EXCEPT !.children_count = n] \in Task
<1> USE TimeoutAssumption, BoundAssumption DEF Task, Body, IsParent, AgeCap
<1>1. \A state \in TaskState : [b EXCEPT !.state = state] \in Task
  OBVIOUS
<1>2. ASSUME NEW state \in TaskState
      PROVE  Advance(b, state) \in Task
  <2> DEFINE c == [b EXCEPT !.state = state]
  <2>1. c \in Task /\ 0 \in 0 .. AgeCap
    BY <1>1
  <2>2. [c EXCEPT !.age = 0] \in Task
    BY <2>1
  <2>3. Advance(b, state) = [c EXCEPT !.age = 0]
    BY DEF Advance
  <2> QED
    BY <2>2, <2>3
<1>3. HandleException(b) \in Task
  BY DEF HandleException, TaskState
<1>4. GiveUp(b) \in Task
  BY DEF GiveUp, TaskState
<1>5. Older(b) \in Task
  BY DEF Older
<1>6. \A n \in 0 .. MaxCopies : [b EXCEPT !.copy = n] \in Task
  OBVIOUS
<1>7. [b EXCEPT !.age = 0] \in Task
  OBVIOUS
<1>8. \A n \in 0 .. Cardinality(Modules) : [b EXCEPT !.children_count = n] \in Task
  OBVIOUS
<1> QED
  BY <1>1, <1>2, <1>3, <1>4, <1>5, <1>6, <1>7, <1>8

\* The tasks that are published anew are well formed.
LEMMA NewTasks ==
    /\ \A r \in Runs : ParentTask(r) \in Task
    /\ \A b \in Task, folder \in Folders, m \in Modules :
          ChildTask(b, folder, m) \in Task
<1> USE TimeoutAssumption, BoundAssumption, ModulesAssumption, ModuleCount
<1>1. \A r \in Runs : ParentTask(r) \in Task
  BY DEF ParentTask, Task, Body, IsParent, AgeCap, TaskState
<1>2. \A b \in Task, folder \in Folders, m \in Modules :
          ChildTask(b, folder, m) \in Task
  BY DEF ChildTask, Task, Body, IsParent, AgeCap, TaskState
<1> QED
  BY <1>1, <1>2

-----------------------------------------------------------------------------
(* Type correctness.                                                        *)

\* What the scheduler's position says about the checklist it chose.
SchedInRange ==
    /\ sched = "chosen" => checklist.last_run < MaxRuns
    /\ sched = "updated" => checklist.last_run >= 1

TypeInv == TypeOK /\ SchedInRange

\* The initial state is well typed, and the scheduler is idle.
LEMMA TypeInit == Init => TypeInv
BY PeriodAssumption, BoundAssumption, ModulesAssumption
DEF Init, TypeInv, TypeOK, SchedInRange, Results, Absent, Runs

\* What a handler's last actions do to the queue.
LEMMA QueueType ==
    ASSUME TypeOK, NEW b \in queue \cup executing
    PROVE  /\ b \in Task
           /\ b.run \in Runs
           /\ \A new \in Task : Republish(b, new) => queue' \subseteq Task
           /\ Ack(b) => queue' \subseteq Task
           /\ CountRedelivery =>
                /\ Redelivered(b) \in Task
                /\ faults' \in 0 .. MaxFaults
                /\ copies' \in 0 .. MaxCopies
                /\ anomalies' \subseteq Anomalies
           /\ CountFault => faults' \in 0 .. MaxFaults /\ copies' \in 0 .. MaxCopies
           /\ UNCHANGED queue => queue' \subseteq Task
<1> USE BoundAssumption
<1>1. b \in Task /\ b.run \in Runs
  BY DEF TypeOK, Task, Body
<1>2. CountRedelivery => Redelivered(b) \in Task
  <2>1. CountRedelivery => copies + 1 \in 0 .. MaxCopies
    BY DEF CountRedelivery, TypeOK
  <2> QED
    BY <1>1, <2>1, BodySteps DEF Redelivered
<1>3. CountRedelivery => /\ faults' \in 0 .. MaxFaults
                         /\ copies' \in 0 .. MaxCopies
                         /\ anomalies' \subseteq Anomalies
  BY DEF CountRedelivery, TypeOK, Anomalies
<1>4. CountFault => faults' \in 0 .. MaxFaults /\ copies' \in 0 .. MaxCopies
  BY DEF CountFault, TypeOK
<1>5. /\ \A new \in Task : Republish(b, new) => queue' \subseteq Task
      /\ Ack(b) => queue' \subseteq Task
      /\ UNCHANGED queue => queue' \subseteq Task
  BY DEF Republish, Ack, TypeOK
<1> QED
  BY <1>1, <1>2, <1>3, <1>4, <1>5

\* An interrupted handler.
LEMMA InterruptedType ==
    ASSUME TypeOK, NEW b \in queue \cup executing,
           NEW flags \in SUBSET Anomalies, Interrupted(b, flags)
    PROVE  /\ queue' \subseteq Task
           /\ faults' \in 0 .. MaxFaults
           /\ copies' \in 0 .. MaxCopies
           /\ anomalies' \subseteq Anomalies
<1>1. HandleException(b) \in Task
  BY QueueType, BodySteps
<1>2. CASE CountFault /\ Republish(b, HandleException(b)) /\ anomalies' = anomalies \cup flags
  <2>1. anomalies' \subseteq Anomalies
    BY <1>2 DEF TypeOK
  <2> QED
    BY <1>1, <1>2, <2>1, QueueType
<1>3. CASE CountRedelivery /\ Republish(b, Redelivered(b))
  BY <1>3, QueueType
<1> QED
  BY <1>2, <1>3 DEF Interrupted

\* An upload stores a result under a key of the bucket.
LEMMA UploadType ==
    ASSUME TypeOK, NEW b \in queue \cup executing, ~IsParent(b),
           NEW result \in Results, Upload(b, result)
    PROVE  s3' \in [Keys -> Results \cup {Absent}]
<1>1. b \in Task
  BY QueueType
<1> QED
  BY <1>1 DEF TypeOK, Upload

\* New children are tasks.
LEMMA ChildrenType ==
    ASSUME NEW b \in Task, NEW folder \in Folders, NEW S \in SUBSET Modules
    PROVE  Children(b, folder, S) \subseteq Task
BY NewTasks DEF Children

\* A step that only moves messages keeps the types if the messages are tasks.
LEMMA OnlyQueueType ==
    ASSUME TypeInv, queue' \subseteq Task,
           UNCHANGED <<checklist, sched, executing, worldVars, budgetVars,
                       historyVars>>
    PROVE  TypeInv'
BY DEF TypeInv, TypeOK, SchedInRange, worldVars, budgetVars, historyVars

\* The scheduler, the clock and the two outside events keep the types.
LEMMA OutsideType ==
    ASSUME TypeInv,
           Scheduler \/ ScheduleNextRun \/ EditDisabled \/ Tick
    PROVE  TypeInv'
<1> USE PeriodAssumption, BoundAssumption DEF TypeInv, TypeOK, SchedInRange
<1>1. CASE ChooseChecklist
  BY <1>1 DEF ChooseChecklist, worldVars, budgetVars, Anomalies
<1>2. CASE UpdateSchedule
  <2> DEFINE c == [checklist EXCEPT !.next_in = RUN_PERIOD]
             d == [c EXCEPT !.last_run = @ + 1]
             Row == [next_in : 0 .. RUN_PERIOD, last_run : 0 .. MaxRuns,
                     run_age : 0 .. RESCHEDULE_TIMEOUT,
                     last_completed : 0 .. MaxRuns]
  <2>1. c \in Row /\ c.last_run = checklist.last_run
    OBVIOUS
  <2>2. checklist.last_run + 1 \in 0 .. MaxRuns /\ checklist.last_run + 1 >= 1
    BY <1>2 DEF UpdateSchedule
  <2>3. d \in Row /\ d.last_run >= 1
    BY <2>1, <2>2
  <2>5. checklist' = [d EXCEPT !.run_age = 0]
    BY <1>2 DEF UpdateSchedule
  <2> HIDE DEF d
  <2>4. [d EXCEPT !.run_age = 0] \in Row /\ [d EXCEPT !.run_age = 0].last_run >= 1
    BY <2>3
  <2> QED
    BY <1>2, <2>4, <2>5 DEF UpdateSchedule, worldVars, budgetVars, historyVars
<1>3. CASE CreateTasks
  <2>1. ParentTask(checklist.last_run) \in Task
    BY <1>3, NewTasks DEF CreateTasks, Runs
  <2> QED
    BY <1>3, <2>1 DEF CreateTasks, worldVars, budgetVars, historyVars
<1>4. CASE AbortSchedule
  BY <1>4 DEF AbortSchedule, CountFault, worldVars, historyVars
<1>5. CASE ScheduleNextRun
  BY <1>5 DEF ScheduleNextRun, worldVars, budgetVars, historyVars
<1>6. CASE EditDisabled
  BY <1>6 DEF EditDisabled, budgetVars, historyVars
<1>7. CASE Tick
  <2>1. \A b \in Task : Older(b) \in Task /\ (Child(b, "started") => Child(Older(b), "started"))
    <3> TAKE b \in Task
    <3>1. Older(b) \in Task
      BY BodySteps
    <3>2. Child(b, "started") => Child(Older(b), "started")
      BY DEF Child, IsParent, Older, Task, Body
    <3> QED
      BY <3>1, <3>2
  <2>2. queue' \subseteq Task /\ executing' \subseteq {b \in Task : Child(b, "started")}
    BY <1>7, <2>1 DEF Tick
  <2>3. checklist' \in [next_in : 0 .. RUN_PERIOD, last_run : 0 .. MaxRuns,
                        run_age : 0 .. RESCHEDULE_TIMEOUT,
                        last_completed : 0 .. MaxRuns]
    <3> DEFINE c == [checklist EXCEPT !.next_in = IF @ > 0 THEN @ - 1 ELSE 0]
    <3>1. c \in [next_in : 0 .. RUN_PERIOD, last_run : 0 .. MaxRuns,
                 run_age : 0 .. RESCHEDULE_TIMEOUT,
                 last_completed : 0 .. MaxRuns]
      OBVIOUS
    <3> DEFINE a == IF checklist.run_age < RESCHEDULE_TIMEOUT
                    THEN checklist.run_age + 1 ELSE checklist.run_age
    <3>2. checklist' = [c EXCEPT !.run_age = a]
      BY <1>7 DEF Tick
    <3>3. a \in 0 .. RESCHEDULE_TIMEOUT
      OBVIOUS
    <3> HIDE DEF a, c
    <3> QED
      BY <3>1, <3>2, <3>3
  <2>4. UNCHANGED <<sched, worldVars, budgetVars, historyVars>>
    BY <1>7 DEF Tick
  <2>5. SchedInRange'
    BY <1>7 DEF Tick
  <2> QED
    BY <2>2, <2>3, <2>4, <2>5 DEF worldVars, budgetVars, historyVars
<1> QED
  BY <1>1, <1>2, <1>3, <1>4, <1>5, <1>6, <1>7 DEF Scheduler

\* The steps of parent tasks keep the types.
LEMMA ParentType ==
    ASSUME TypeInv, NEW b \in queue, ParentStep(b)
    PROVE  TypeInv'
<1>t. /\ TypeOK /\ b \in queue \cup executing /\ b \in Task /\ b.run \in Runs
      /\ \A state \in TaskState : Advance(b, state) \in Task
      /\ HandleException(b) \in Task
  BY QueueType, BodySteps DEF TypeInv
<1> DEFINE counted(state, S) ==
             [Advance(b, state) EXCEPT !.children_count = Cardinality(S)]
<1>c. \A state \in TaskState, S \in SUBSET Modules : counted(state, S) \in Task
  <2> TAKE state \in TaskState, S \in SUBSET Modules
  <2>1. Advance(b, state) \in Task /\ Cardinality(S) \in 0 .. Cardinality(Modules)
    BY <1>t, ModuleCount
  <2> QED
    BY <2>1, BodySteps
<1>1. CASE InitializeChecklist(b)
  <2> DEFINE modules == list_modules("recommendations")
  <2>1. modules \in SUBSET Modules
    BY ListedModules DEF Folders
  <2>2. Children(b, "recommendations", modules) \subseteq Task
    BY <1>t, <2>1, ChildrenType DEF Folders
  <2>3. counted("initialized_checklist", modules) \in Task
        /\ Advance(b, "waited_service") \in Task
    BY <1>c, <1>t, <2>1 DEF TaskState
  <2>4. queue' \subseteq Task
    BY <1>1, <1>t, <2>2, <2>3 DEF InitializeChecklist, Republish, TypeOK
  <2>5. plans' \in [Runs -> SUBSET SUBSET Modules]
    BY <1>1, <1>t, <2>1 DEF InitializeChecklist, TypeOK
  <2> QED
    BY <1>1, <2>4, <2>5
    DEF InitializeChecklist, TypeInv, TypeOK, SchedInRange, worldVars, budgetVars
<1>2. CASE InitializeArchive(b) \/ InitializeService(b)
  <2>1. ASSUME NEW folder \in Folders, NEW state \in TaskState,
               InitializeFolder(b, folder, state)
        PROVE  TypeInv'
    <3>1. list_modules(folder) \in SUBSET Modules
      BY ListedModules
    <3>2. Children(b, folder, list_modules(folder)) \subseteq Task
      BY <1>t, <3>1, ChildrenType
    <3>3. counted(state, list_modules(folder)) \in Task
      BY <1>c, <3>1
    <3>4. queue' \subseteq Task
      BY <2>1, <1>t, <3>2, <3>3 DEF InitializeFolder, TypeOK
    <3> QED
      BY <2>1, <3>4, OnlyQueueType DEF InitializeFolder
  <2> QED
    BY <1>2, <2>1 DEF InitializeArchive, InitializeService, Folders, TaskState
<1>3. CASE CrashInitializing(b)
  <2> DEFINE folder == InitFolder(b.state)
             modules == list_modules(folder)
  <2>1. folder \in Folders
    BY <1>3 DEF CrashInitializing, InitFolder, Folders
  <2>2. modules \in SUBSET Modules
    BY <2>1, ListedModules
  <2>3. CountRedelivery
    BY <1>3 DEF CrashInitializing
  <2>4. PICK published \in SUBSET modules :
           queue' = (queue \ {b}) \cup {Redelivered(b)}
                      \cup Children(b, folder, published)
    BY <1>3 DEF CrashInitializing
  <2>5. Children(b, folder, published) \subseteq Task
    BY <1>t, <2>1, <2>2, ChildrenType
  <2>6. queue' \subseteq Task
    BY <1>t, <2>3, <2>4, <2>5, QueueType DEF TypeOK
  <2>7. plans' \in [Runs -> SUBSET SUBSET Modules]
    BY <1>3, <1>t, <2>2 DEF CrashInitializing, TypeOK
  <2>8. faults' \in 0 .. MaxFaults /\ copies' \in 0 .. MaxCopies /\ anomalies' \subseteq Anomalies
    BY <1>t, <2>3, QueueType
  <2> QED
    BY <1>3, <2>6, <2>7, <2>8
    DEF CrashInitializing, TypeInv, TypeOK, SchedInRange, worldVars
<1>4. CASE WaitTasksResult(b)
  <2>1. WaitedState(b.state) \in TaskState
    BY <1>4 DEF WaitTasksResult, WaitSteps, WaitedState, TaskState
  <2>2. queue' \subseteq Task
    BY <1>4, <1>t, <2>1 DEF WaitTasksResult, Republish, TypeOK
  <2> QED
    BY <1>4, <2>2, OnlyQueueType DEF WaitTasksResult
<1>5. CASE WaitTimesOut(b)
  <2>1. [GiveUp(b) EXCEPT !.age = 0] \in Task
    <3>1. GiveUp(b) \in Task
      BY <1>t, BodySteps
    <3> QED
      BY <3>1, BodySteps
  <2>2. queue' \subseteq Task
    BY <1>5, <1>t, <2>1 DEF WaitTimesOut, Republish, TypeOK
  <2> QED
    BY <1>5, <2>2, OnlyQueueType DEF WaitTimesOut
<1>r. \A new \in Task : Republish(b, new) => queue' \subseteq Task
  BY <1>t DEF Republish, TypeOK
<1>6. CASE WaitRaises(b)
  <2>1. [HandleException(b) EXCEPT !.age = 0] \in Task
    BY <1>t, BodySteps
  <2> QED
    BY <1>6, <1>t, <1>r, <2>1, QueueType
    DEF WaitRaises, TypeInv, TypeOK, SchedInRange, worldVars, historyVars
<1>7. CASE InitializeRaises(b)
  BY <1>7, <1>t, <1>r, QueueType
  DEF InitializeRaises, TypeInv, TypeOK, SchedInRange, worldVars, historyVars
<1>8. CASE CollectCheckResult(b)
  <2>1. queue' \subseteq Task
    BY <1>8, <1>t, <1>r DEF CollectCheckResult, TaskState
  <2>2. saved' \in [Runs -> SUBSET Modules]
    <3>1. Collected(b) \in SUBSET Modules
      BY DEF Collected, Present
    <3> QED
      BY <1>8, <1>t, <3>1 DEF CollectCheckResult, TypeOK
  <2> QED
    BY <1>8, <2>1, <2>2
    DEF CollectCheckResult, TypeInv, TypeOK, SchedInRange, budgetVars, historyVars
<1>9. CASE CollectInterrupted(b)
  <2>1. saved' \in [Runs -> SUBSET Modules]
    <3>1. Collected(b) \in SUBSET Modules
      BY DEF Collected, Present
    <3>2. PICK written \in SUBSET Modules :
             saved' = [saved EXCEPT ![b.run] = @ \cup written]
      BY <1>9, <3>1 DEF CollectInterrupted
    <3> QED
      BY <1>t, <3>2 DEF TypeOK
  <2>2. Interrupted(b, {}) /\ {} \in SUBSET Anomalies
    BY <1>9 DEF CollectInterrupted
  <2> QED
    BY <1>9, <1>t, <2>1, <2>2, InterruptedType
    DEF CollectInterrupted, TypeInv, TypeOK, SchedInRange
<1>10. CASE CheckArchiveResult(b)
  <2>1. queue' \subseteq Task
    BY <1>10, <1>t, <1>r DEF CheckArchiveResult, TaskState
  <2> QED
    BY <1>10, <2>1, OnlyQueueType DEF CheckArchiveResult
<1>11. CASE CheckArchiveRaises(b)
  <2>1. HandleException([b EXCEPT !.state = "check_archive_result"]) \in Task
    <3>1. [b EXCEPT !.state = "check_archive_result"] \in Task
      BY <1>t, BodySteps DEF TaskState
    <3> QED
      BY <3>1, BodySteps
  <2> QED
    BY <1>11, <1>t, <1>r, <2>1, QueueType
    DEF CheckArchiveRaises, TypeInv, TypeOK, SchedInRange, worldVars
<1>k. Complete(b) => /\ checklist' \in [next_in : 0 .. RUN_PERIOD, last_run : 0 .. MaxRuns,
                                        run_age : 0 .. RESCHEDULE_TIMEOUT,
                                        last_completed : 0 .. MaxRuns]
                     /\ checklist'.last_run = checklist.last_run
  BY <1>t, BoundAssumption DEF Complete, TypeOK, Runs
<1>12. CASE UpdateChecklist(b)
  <2>1. queue' \subseteq Task
    <3>1. [b EXCEPT !.state = "updated_checklist"] \in Task
      BY <1>t, BodySteps DEF TaskState
    <3> QED
      BY <1>12, <1>r, <3>1 DEF UpdateChecklist
  <2> QED
    BY <1>12, <1>k, <2>1
    DEF UpdateChecklist, TypeInv, TypeOK, SchedInRange, worldVars, budgetVars, historyVars
<1>13. CASE UpdateChecklistInterrupted(b)
  <2>1. PICK flags \in SUBSET Anomalies : Interrupted(b, flags)
    BY <1>13 DEF UpdateChecklistInterrupted, Anomalies
  <2> QED
    BY <1>13, <1>k, <1>t, <2>1, InterruptedType
    DEF UpdateChecklistInterrupted, TypeInv, TypeOK, SchedInRange, worldVars
<1>14. CASE SetSucceeded(b)
  BY <1>14, <1>t, QueueType, OnlyQueueType DEF SetSucceeded
<1>15. CASE SetFailedAmbiguous(b)
  <2>1. queue' \subseteq Task
    BY <1>15, <1>t, QueueType DEF SetFailedAmbiguous, CompleteRaises
  <2> QED
    BY <1>15, <1>k, <1>t, <2>1, QueueType
    DEF SetFailedAmbiguous, TypeInv, TypeOK, SchedInRange, worldVars, Anomalies
<1> QED
  BY <1>1, <1>2, <1>3, <1>4, <1>5, <1>6, <1>7, <1>8, <1>9, <1>10, <1>11,
     <1>12, <1>13, <1>14, <1>15 DEF ParentStep

\* The steps of child tasks, the common steps and redelivery keep the types.
LEMMA ChildType ==
    ASSUME TypeInv, NEW b \in queue, ChildStep(b) \/ CommonStep(b)
    PROVE  TypeInv'
<1>t. /\ TypeOK /\ b \in queue \cup executing /\ b \in Task /\ b.run \in Runs
      /\ \A state \in TaskState : Advance(b, state) \in Task
      /\ HandleException(b) \in Task
      /\ GiveUp(b) \in Task
  BY QueueType, BodySteps DEF TypeInv
<1>r. \A new \in Task : Republish(b, new) => queue' \subseteq Task
  BY <1>t DEF Republish, TypeOK
<1>1. CASE StartModule(b)
  BY <1>1, <1>t
  DEF StartModule, Ack, TypeInv, TypeOK, SchedInRange, worldVars, budgetVars, historyVars
<1>2. CASE SkipDisabled(b)
  <2>1. s3' \in [Keys -> Results \cup {Absent}]
    BY <1>2, <1>t, UploadType DEF SkipDisabled, Child, Results
  <2>2. queue' \subseteq Task
    BY <1>2, <1>t, <1>r DEF SkipDisabled, TaskState
  <2> QED
    BY <1>2, <2>1, <2>2
    DEF SkipDisabled, TypeInv, TypeOK, SchedInRange, budgetVars, historyVars
<1>3. CASE ProcessTimesOut(b)
  <2>1. s3' \in [Keys -> Results \cup {Absent}]
    BY <1>3, <1>t, UploadType DEF ProcessTimesOut, Child, Results
  <2>2. queue' \subseteq Task
    BY <1>3, <1>t, <1>r DEF ProcessTimesOut
  <2> QED
    BY <1>3, <2>1, <2>2
    DEF ProcessTimesOut, TypeInv, TypeOK, SchedInRange, budgetVars, historyVars
<1>4. CASE ProcessRaises(b)
  BY <1>4, <1>t, <1>r, QueueType
  DEF ProcessRaises, TypeInv, TypeOK, SchedInRange, worldVars, historyVars
<1>5. CASE Cleanup(b)
  <2>1. queue' \subseteq Task
    BY <1>5, <1>t, QueueType DEF Cleanup
  <2>2. s3' \in [Keys -> Results \cup {Absent}]
    BY <1>5, <1>t DEF Cleanup, TypeOK
  <2>3. wiped' \subseteq Runs
    BY <1>5, <1>t DEF Cleanup, TypeOK
  <2> QED
    BY <1>5, <2>1, <2>2, <2>3
    DEF Cleanup, TypeInv, TypeOK, SchedInRange, budgetVars
<1>6. CASE SetStarted(b)
  <2>1. queue' \subseteq Task
    BY <1>6, <1>t, <1>r DEF SetStarted, TaskState
  <2> QED
    BY <1>6, <2>1, OnlyQueueType DEF SetStarted
<1>7. CASE StepTimesOut(b)
  BY <1>7, <1>t, <1>r, OnlyQueueType DEF StepTimesOut
<1>8. CASE SetFailed(b)
  <2>1. Complete(b) => /\ checklist' \in [next_in : 0 .. RUN_PERIOD, last_run : 0 .. MaxRuns,
                                          run_age : 0 .. RESCHEDULE_TIMEOUT,
                                          last_completed : 0 .. MaxRuns]
                       /\ checklist'.last_run = checklist.last_run
    <3>1. b.run \in 0 .. MaxRuns
      BY <1>t, BoundAssumption DEF Runs
    <3> QED
      BY <1>t, <3>1 DEF Complete, TypeOK
  <2>2. queue' \subseteq Task
    BY <1>8, <1>t, QueueType DEF SetFailed
  <2> QED
    BY <1>8, <2>1, <2>2
    DEF SetFailed, TypeInv, TypeOK, SchedInRange, worldVars, budgetVars, historyVars
<1>9. CASE LastStepRaises(b)
  <2>1. queue' \subseteq Task
    BY <1>9, <1>t, QueueType DEF LastStepRaises, CompleteRaises
  <2> QED
    BY <1>9, <1>t, <2>1, QueueType
    DEF LastStepRaises, TypeInv, TypeOK, SchedInRange, worldVars, historyVars
<1>10. CASE PublishFails(b)
  BY <1>10, <1>t, QueueType
  DEF PublishFails, TypeInv, TypeOK, SchedInRange, worldVars, historyVars
<1> QED
  BY <1>1, <1>2, <1>3, <1>4, <1>5, <1>6, <1>7, <1>8, <1>9, <1>10
  DEF ChildStep, CommonStep

\* The end of a module, in either way, keeps the types.
LEMMA ModuleType ==
    ASSUME TypeInv, NEW b \in executing, ModuleStep(b)
    PROVE  TypeInv'
<1>t. /\ TypeOK /\ b \in queue \cup executing /\ b \in Task /\ ~IsParent(b)
      /\ \A state \in TaskState : Advance(b, state) \in Task
  BY QueueType, BodySteps DEF TypeInv, TypeOK, Child
<1>1. CASE FinishModule(b)
  <2>1. s3' \in [Keys -> Results \cup {Absent}]
    BY <1>1, <1>t, UploadType DEF FinishModule, Results
  <2>2. queue' \subseteq Task
    BY <1>1, <1>t DEF FinishModule, TypeOK, TaskState
  <2> QED
    BY <1>1, <2>1, <2>2
    DEF FinishModule, TypeInv, TypeOK, SchedInRange, budgetVars, historyVars
<1>2. CASE ProcessInterrupted(b)
  <2>1. s3' \in [Keys -> Results \cup {Absent}]
    <3>1. CASE UNCHANGED s3
      BY <3>1, <1>t DEF TypeOK
    <3>2. CASE \E result \in {"data", "error"} : Upload(b, result)
      BY <3>2, <1>t, UploadType DEF Results
    <3> QED
      BY <1>2, <3>1, <3>2 DEF ProcessInterrupted
  <2>2. PICK flags \in SUBSET Anomalies : Interrupted(b, flags)
    BY <1>2 DEF ProcessInterrupted, Anomalies
  <2> QED
    BY <1>2, <1>t, <2>1, <2>2, InterruptedType
    DEF ProcessInterrupted, TypeInv, TypeOK, SchedInRange
<1> QED
  BY <1>1, <1>2 DEF ModuleStep

\* A second delivery keeps the types: its copy number is within the bound.
LEMMA RedeliverType ==
    ASSUME TypeInv, NEW b \in queue \cup executing, Redeliver(b)
    PROVE  TypeInv'
<1>1. TypeOK /\ CountRedelivery
  BY DEF Redeliver, TypeInv
<1>2. queue' \subseteq Task
  BY <1>1, QueueType DEF Redeliver, TypeOK
<1> QED
  BY <1>1, <1>2, QueueType
  DEF Redeliver, TypeInv, TypeOK, SchedInRange, worldVars

\* Every step keeps the types.
LEMMA TypeStep == TypeInv /\ [Next]_vars => TypeInv'
<1> SUFFICES ASSUME TypeInv, [Next]_vars
             PROVE  TypeInv'
  OBVIOUS
<1>1. CASE UNCHANGED vars
  BY <1>1 DEF vars, TypeInv, TypeOK, SchedInRange
<1>2. CASE Next
  BY <1>2, OutsideType, ParentType, ChildType, ModuleType, RedeliverType
  DEF Next, Worker
<1> QED
  BY <1>1, <1>2

(***************************************************************************)
(* Messages stay well formed in every execution: in particular             *)
(* _handle_exception keeps tries_count within max_retries, and no crash,   *)
(* retry or redelivery turns a child into a parent or the reverse.         *)
(***************************************************************************)
THEOREM TypeCorrect == Spec => []TypeOK
<1>1. Spec => []TypeInv
  BY TypeInit, TypeStep, PTL DEF Spec
<1>2. TypeInv => TypeOK
  BY DEF TypeInv
<1> QED
  BY <1>1, <1>2, PTL

-----------------------------------------------------------------------------
(* Mutual exclusion of runs.                                                *)

NoOverlap == anomalies \cap {"rescheduled", "redelivered"} = {}

\* A run has one parent message, and it is not of a future run.
OneParent ==
    /\ \A b, c \in queue : IsParent(b) /\ IsParent(c) /\ b.run = c.run => b = c
    /\ \A b \in queue : IsParent(b) => b.run =< checklist.last_run

\* Only the last run can be working, and then it is not completed.
LastRunWorks ==
    /\ \A b \in queue : Working(b) =>
          b.run = checklist.last_run /\ checklist.last_completed # checklist.last_run
    /\ checklist.last_completed =< checklist.last_run

\* What the scheduler may rely on between its three calls.
SchedulerClaims ==
    /\ sched = "chosen" => \A b \in queue : ~Working(b)
    /\ sched = "updated" =>
          /\ checklist.last_completed # checklist.last_run
          /\ \A b \in queue : IsParent(b) => b.run # checklist.last_run

ExclusionInv == NoOverlap => OneParent /\ LastRunWorks /\ SchedulerClaims

\* The inductive invariant implies the property.
LEMMA ExclusionImplies == ExclusionInv => SingleActiveRun
BY DEF ExclusionInv, NoOverlap, OneParent, LastRunWorks, SingleActiveRun, Working

\* A step that replaces one message by messages that do not start new work,
\* and leaves the checklist and the scheduler alone, keeps the invariant.
LEMMA MessageStep ==
    ASSUME ExclusionInv, NEW b \in queue, NEW new, NEW C,
           NoOverlap' => NoOverlap,
           UNCHANGED <<checklist, sched>>,
           queue' \subseteq (queue \ {b}) \cup {new} \cup C,
           \A c \in C : ~IsParent(c),
           IsParent(new) => IsParent(b) /\ new.run = b.run,
           Working(new) => Working(b)
    PROVE  ExclusionInv'
<1> SUFFICES ASSUME NoOverlap'
             PROVE  (OneParent /\ LastRunWorks /\ SchedulerClaims)'
  BY DEF ExclusionInv
<1>1. OneParent /\ LastRunWorks /\ SchedulerClaims
  BY DEF ExclusionInv
<1>2. \A c \in queue' : IsParent(c) => c \in queue \ {b} \/ c = new
  OBVIOUS
<1>3. OneParent'
  BY <1>1, <1>2 DEF OneParent
<1>4. LastRunWorks'
  BY <1>1, <1>2 DEF LastRunWorks, Working
<1>5. SchedulerClaims'
  BY <1>1, <1>2 DEF SchedulerClaims, Working
<1> QED
  BY <1>3, <1>4, <1>5

\* So does a step that also completes the checklist for a parent that has no
\* work left.
LEMMA CompletionStep ==
    ASSUME TypeOK, ExclusionInv, NEW b \in queue, NEW new,
           NoOverlap' => NoOverlap,
           IsParent(b), ~Working(b), Complete(b), UNCHANGED sched,
           queue' \subseteq (queue \ {b}) \cup {new},
           IsParent(new) => new.run = b.run,
           ~Working(new)
    PROVE  ExclusionInv'
<1> SUFFICES ASSUME NoOverlap'
             PROVE  (OneParent /\ LastRunWorks /\ SchedulerClaims)'
  BY DEF ExclusionInv
<1>1. OneParent /\ LastRunWorks /\ SchedulerClaims
  BY DEF ExclusionInv
<1>2. \A c \in queue' : Working(c) => c \in queue \ {b}
  BY DEF Working
<1>3. /\ checklist'.last_run = checklist.last_run
      /\ checklist'.last_completed = b.run
      /\ b.run =< checklist.last_run
  BY <1>1 DEF Complete, TypeOK, OneParent
<1>4. OneParent'
  BY <1>1, <1>3 DEF OneParent
<1>5. LastRunWorks'
  BY <1>1, <1>2, <1>3 DEF LastRunWorks, OneParent, Working
<1>6. SchedulerClaims'
  BY <1>1, <1>2, <1>3 DEF SchedulerClaims
<1> QED
  BY <1>4, <1>5, <1>6

\* Before the first run there is nothing to exclude.
LEMMA ExclusionInit == Init => ExclusionInv
BY DEF Init, ExclusionInv, OneParent, LastRunWorks, SchedulerClaims

\* What the handlers publish is of the same run and kind as what they took.
LEMMA BodyKinds ==
    ASSUME NEW b \in Task
    PROVE  /\ \A state : /\ Advance(b, state).module = b.module
                         /\ Advance(b, state).run = b.run
                         /\ Advance(b, state).state = state
           /\ HandleException(b).module = b.module
           /\ HandleException(b).run = b.run
           /\ HandleException(b).state \in {b.state, "error"}
           /\ GiveUp(b).module = b.module
           /\ GiveUp(b).run = b.run
           /\ GiveUp(b).state = "error"
           /\ Older(b).module = b.module
           /\ Older(b).run = b.run
           /\ Older(b).state = b.state
<1> USE DEF Task, Body
<1>1. \A state : /\ Advance(b, state).module = b.module
                 /\ Advance(b, state).run = b.run
                 /\ Advance(b, state).state = state
  BY DEF Advance
<1>2. /\ HandleException(b).module = b.module
      /\ HandleException(b).run = b.run
      /\ HandleException(b).state \in {b.state, "error"}
  BY DEF HandleException
<1>3. GiveUp(b).module = b.module /\ GiveUp(b).run = b.run /\ GiveUp(b).state = "error"
  BY DEF GiveUp
<1>4. Older(b).module = b.module /\ Older(b).run = b.run /\ Older(b).state = b.state
  BY DEF Older
<1> QED
  BY <1>1, <1>2, <1>3, <1>4

\* Children are not parents.
LEMMA ChildrenKind ==
    ASSUME NEW b, NEW folder, NEW S \in SUBSET Modules,
           NEW c \in Children(b, folder, S)
    PROVE  ~IsParent(c)
BY ModulesAssumption DEF Children, ChildTask, IsParent

\* After a redelivery the property claims nothing.
LEMMA RedeliveryExcluded == CountRedelivery => ExclusionInv'
BY DEF CountRedelivery, ExclusionInv, NoOverlap

\* The special case of MessageStep for a handler that republishes its message
\* and touches neither the checklist nor the history of anomalies.
LEMMA RepublishStep ==
    ASSUME ExclusionInv, NEW b \in queue, NEW new,
           Republish(b, new), UNCHANGED <<checklist, sched, anomalies>>,
           new.module = b.module, new.run = b.run,
           Working(new) => Working(b)
    PROVE  ExclusionInv'
<1>1. NoOverlap' => NoOverlap
  BY DEF NoOverlap
<1>2. queue' \subseteq (queue \ {b}) \cup {new} \cup {}
  BY DEF Republish
<1>3. IsParent(new) => IsParent(b)
  BY DEF IsParent
<1> DEFINE C == {}
<1>4. /\ \A c \in C : ~IsParent(c)
      /\ UNCHANGED <<checklist, sched>>
      /\ queue' \subseteq (queue \ {b}) \cup {new} \cup C
      /\ IsParent(new) => IsParent(b) /\ new.run = b.run
  BY <1>2, <1>3
<1> HIDE DEF C
<1> QED
  BY <1>1, <1>4, MessageStep

\* A step that adds no parent message, and leaves the checklist and the
\* scheduler alone, keeps the invariant.
LEMMA NoParentStep ==
    ASSUME ExclusionInv, NoOverlap' => NoOverlap,
           UNCHANGED <<checklist, sched>>,
           \A c \in queue' : c \in queue \/ ~IsParent(c)
    PROVE  ExclusionInv'
BY DEF ExclusionInv, OneParent, LastRunWorks, SchedulerClaims, Working

\* The scheduler, the clock and the outside events.
LEMMA OutsideExclusion ==
    ASSUME TypeInv, ExclusionInv,
           Scheduler \/ ScheduleNextRun \/ EditDisabled \/ Tick
    PROVE  ExclusionInv'
<1> SUFFICES ASSUME NoOverlap'
             PROVE  (OneParent /\ LastRunWorks /\ SchedulerClaims)'
  BY DEF ExclusionInv
<1>n. NoOverlap
  BY DEF NoOverlap, Scheduler, ChooseChecklist, UpdateSchedule, CreateTasks,
         AbortSchedule, ScheduleNextRun, EditDisabled, Tick, historyVars
<1>i. OneParent /\ LastRunWorks /\ SchedulerClaims
  BY <1>n DEF ExclusionInv
<1> USE DEF OneParent, LastRunWorks, SchedulerClaims
<1>1. CASE ChooseChecklist
  <2>1. checklist.last_completed = checklist.last_run
    BY <1>1 DEF ChooseChecklist, NoOverlap, Due
  <2> QED
    BY <1>1, <1>i, <2>1 DEF ChooseChecklist, Working
<1>2. CASE UpdateSchedule
  <2>1. /\ checklist'.last_run = checklist.last_run + 1
        /\ checklist'.last_completed = checklist.last_completed
        /\ checklist.last_run \in Nat /\ checklist.last_completed \in Nat
    BY <1>2, BoundAssumption DEF UpdateSchedule, TypeInv, TypeOK
  <2>2. \A b \in queue : b.run \in Nat
    BY DEF TypeInv, TypeOK, Task, Body, Runs
  <2>3. UNCHANGED queue /\ sched = "chosen" /\ sched' = "updated"
    BY <1>2 DEF UpdateSchedule
  <2> QED
    BY <1>i, <2>1, <2>2, <2>3 DEF Working
<1>3. CASE CreateTasks
  <2> DEFINE p == ParentTask(checklist.last_run)
  <2>1. IsParent(p) /\ p.run = checklist.last_run
    BY DEF ParentTask, IsParent
  <2>2. /\ queue' = queue \cup {p}
        /\ sched = "updated" /\ sched' = "idle"
        /\ UNCHANGED checklist
    BY <1>3 DEF CreateTasks
  <2>3. checklist.last_run \in Nat
    BY BoundAssumption DEF TypeInv, TypeOK
  <2> HIDE DEF p
  <2> QED
    BY <1>i, <2>1, <2>2, <2>3 DEF Working
<1>4. CASE AbortSchedule
  BY <1>4, <1>i DEF AbortSchedule, Working
<1>5. CASE ScheduleNextRun
  <2>1. /\ checklist'.last_run = checklist.last_run
        /\ checklist'.last_completed = checklist.last_completed
    BY <1>5 DEF ScheduleNextRun, TypeInv, TypeOK
  <2> QED
    BY <1>5, <1>i, <2>1 DEF ScheduleNextRun, Working
<1>6. CASE EditDisabled
  BY <1>6, <1>i DEF EditDisabled, Working
<1>7. CASE Tick
  <2>1. /\ checklist'.last_run = checklist.last_run
        /\ checklist'.last_completed = checklist.last_completed
        /\ sched = "idle" /\ sched' = "idle"
    BY <1>7 DEF Tick, TypeInv, TypeOK
  <2>2. \A c \in queue' : \E b \in queue :
           /\ c = Older(b)
           /\ c.run = b.run
           /\ IsParent(c) <=> IsParent(b)
           /\ Working(c) <=> Working(b)
    <3> TAKE c \in queue'
    <3>1. PICK b \in queue : c = Older(b)
      BY <1>7 DEF Tick
    <3>2. b \in Task
      BY DEF TypeInv, TypeOK
    <3> QED
      BY <3>1, <3>2, BodyKinds DEF IsParent, Working
  <2>3. OneParent'
    BY <1>i, <2>1, <2>2
  <2>4. LastRunWorks' /\ SchedulerClaims'
    BY <1>i, <2>1, <2>2
  <2> QED
    BY <2>3, <2>4
<1> QED
  BY <1>1, <1>2, <1>3, <1>4, <1>5, <1>6, <1>7 DEF Scheduler

\* The steps of parent tasks: none goes back to work, and last_completed is
\* written only by a parent without work.
LEMMA ParentExclusion ==
    ASSUME TypeInv, ExclusionInv, NEW b \in queue, ParentStep(b)
    PROVE  ExclusionInv'
<1>t. TypeOK /\ b \in Task
  BY DEF TypeInv, TypeOK
<1> DEFINE counted(state, S) ==
             [Advance(b, state) EXCEPT !.children_count = Cardinality(S)]
<1>c. \A state, S : /\ counted(state, S).module = b.module
                    /\ counted(state, S).run = b.run
  BY <1>t DEF Advance, Task, Body
<1>k. /\ \A state : Advance(b, state).module = b.module /\ Advance(b, state).run = b.run
                    /\ Advance(b, state).state = state
      /\ HandleException(b).module = b.module /\ HandleException(b).run = b.run
      /\ HandleException(b).state \in {b.state, "error"}
  BY <1>t, BodyKinds
<1>w. Working(HandleException(b)) => Working(b)
  BY <1>k DEF Working, IsParent
<1>1. ASSUME NEW folder, NEW S \in SUBSET Modules, NEW state,
             Working(b), UNCHANGED <<checklist, sched, anomalies>>,
             queue' = (queue \ {b}) \cup Children(b, folder, S) \cup {counted(state, S)}
      PROVE  ExclusionInv'
  <2>1. \A c \in Children(b, folder, S) : ~IsParent(c)
    BY ChildrenKind
  <2>2. NoOverlap' => NoOverlap
    BY <1>1 DEF NoOverlap
  <2>3. IsParent(counted(state, S)) => IsParent(b) /\ counted(state, S).run = b.run
    BY <1>c DEF IsParent
  <2> HIDE DEF counted
  <2> QED
    BY <1>1, <2>1, <2>2, <2>3, MessageStep
<1>2. CASE InitializeChecklist(b)
  <2> DEFINE modules == list_modules("recommendations")
  <2>1. modules \in SUBSET Modules
    BY ListedModules DEF Folders
  <2>2. Working(b) /\ UNCHANGED <<checklist, sched, anomalies>>
    BY <1>2 DEF InitializeChecklist, Parent, Working
  <2>3. CASE modules = {}
    BY <1>2, <2>2, <2>3, <1>k, RepublishStep DEF InitializeChecklist
  <2>4. CASE modules # {}
    BY <1>2, <2>1, <2>2, <2>4, <1>1 DEF InitializeChecklist
  <2> QED
    BY <2>3, <2>4
<1>3. CASE InitializeArchive(b) \/ InitializeService(b)
  <2>1. Working(b)
    BY <1>3 DEF InitializeArchive, InitializeService, Parent, Working
  <2>2. ASSUME NEW folder \in Folders, NEW state, InitializeFolder(b, folder, state)
        PROVE  ExclusionInv'
    BY <2>1, <2>2, <1>1, ListedModules DEF InitializeFolder, historyVars
  <2> QED
    BY <1>3, <2>2 DEF InitializeArchive, InitializeService, Folders
<1>4. CASE CrashInitializing(b)
  BY <1>4, RedeliveryExcluded DEF CrashInitializing
<1>5. CASE WaitTasksResult(b)
  <2>1. Working(b) /\ UNCHANGED <<checklist, sched, anomalies>>
    BY <1>5 DEF WaitTasksResult, WaitSteps, Working, historyVars
  <2>2. CASE UNCHANGED queue
    BY <2>1, <2>2, NoParentStep DEF NoOverlap
  <2>3. CASE Republish(b, Advance(b, WaitedState(b.state)))
    BY <2>1, <2>3, <1>k, RepublishStep
  <2> QED
    BY <1>5, <2>2, <2>3 DEF WaitTasksResult
<1>6. CASE WaitTimesOut(b)
  <2> DEFINE new == [GiveUp(b) EXCEPT !.age = 0]
  <2>1. new.module = b.module /\ new.run = b.run /\ new.state = "error"
    BY <1>t DEF GiveUp, Task, Body
  <2>2. Republish(b, new) /\ UNCHANGED <<checklist, sched, anomalies>>
    BY <1>6 DEF WaitTimesOut, historyVars
  <2> HIDE DEF new
  <2> QED
    BY <2>1, <2>2, RepublishStep DEF Working
<1>7. CASE WaitRaises(b)
  <2> DEFINE new == [HandleException(b) EXCEPT !.age = 0]
  <2>1. new.module = b.module /\ new.run = b.run /\ new.state \in {b.state, "error"}
    BY <1>t DEF HandleException, Task, Body
  <2>2. Republish(b, new) /\ UNCHANGED <<checklist, sched, anomalies>>
    BY <1>7 DEF WaitRaises, historyVars
  <2> HIDE DEF new
  <2> QED
    BY <2>1, <2>2, RepublishStep DEF Working, IsParent
<1>8. CASE InitializeRaises(b)
  BY <1>8, <1>k, <1>w, RepublishStep DEF InitializeRaises, historyVars
<1>9. CASE CollectCheckResult(b)
  <2>1. Working(b) /\ UNCHANGED <<checklist, sched, anomalies>>
    BY <1>9 DEF CollectCheckResult, Parent, Working, historyVars
  <2> QED
    BY <1>9, <2>1, <1>k, RepublishStep DEF CollectCheckResult
<1>10. ASSUME NEW flags, UNCHANGED <<checklist, sched>>, Interrupted(b, flags)
       PROVE  ExclusionInv'
  <2>1. CASE CountRedelivery
    BY <2>1, RedeliveryExcluded
  <2>2. CASE Republish(b, HandleException(b)) /\ anomalies' = anomalies \cup flags
    <3>1. NoOverlap' => NoOverlap
      BY <2>2 DEF NoOverlap
    <3> DEFINE C == {}
    <3>2. /\ queue' \subseteq (queue \ {b}) \cup {HandleException(b)} \cup C
          /\ \A c \in C : ~IsParent(c)
          /\ IsParent(HandleException(b)) => IsParent(b) /\ HandleException(b).run = b.run
      BY <2>2, <1>k DEF Republish, IsParent
    <3> HIDE DEF C
    <3> QED
      BY <1>10, <1>w, <3>1, <3>2, MessageStep
  <2> QED
    BY <1>10, <2>1, <2>2 DEF Interrupted
<1>11. CASE CollectInterrupted(b)
  BY <1>11, <1>10 DEF CollectInterrupted
<1>12. CASE CheckArchiveResult(b)
  <2>1. Working(b) /\ UNCHANGED <<checklist, sched, anomalies>>
    BY <1>12 DEF CheckArchiveResult, Parent, Working, historyVars
  <2> QED
    BY <1>12, <2>1, <1>k, RepublishStep DEF CheckArchiveResult
<1>13. CASE CheckArchiveRaises(b)
  <2> DEFINE new == HandleException([b EXCEPT !.state = "check_archive_result"])
  <2>1. Working(b) /\ UNCHANGED <<checklist, sched, anomalies>> /\ Republish(b, new)
    BY <1>13 DEF CheckArchiveRaises, Parent, Working
  <2>2. new.module = b.module /\ new.run = b.run
    BY <1>t DEF HandleException, Task, Body
  <2> HIDE DEF new
  <2> QED
    BY <2>1, <2>2, RepublishStep
<1>14. CASE UpdateChecklist(b)
  <2> DEFINE new == [b EXCEPT !.state = "updated_checklist"]
  <2>1. new.run = b.run /\ ~Working(new)
    BY <1>t DEF Working, Task, Body
  <2>2. /\ IsParent(b) /\ ~Working(b) /\ Complete(b) /\ UNCHANGED sched
        /\ queue' \subseteq (queue \ {b}) \cup {new}
        /\ NoOverlap' => NoOverlap
    BY <1>14 DEF UpdateChecklist, Parent, Working, Republish, NoOverlap, historyVars
  <2> HIDE DEF new
  <2> QED
    BY <1>t, <2>1, <2>2, CompletionStep
<1>15. CASE UpdateChecklistInterrupted(b)
  <2>1. CASE UNCHANGED checklist
    BY <1>15, <2>1, <1>10 DEF UpdateChecklistInterrupted
  <2>2. CASE CountRedelivery
    BY <2>2, RedeliveryExcluded
  <2>3. CASE /\ Complete(b) /\ Republish(b, HandleException(b))
             /\ anomalies' = anomalies \cup {"ambiguous"}
    <3>1. /\ IsParent(b) /\ ~Working(b) /\ UNCHANGED sched
          /\ ~Working(HandleException(b))
          /\ queue' \subseteq (queue \ {b}) \cup {HandleException(b)}
          /\ NoOverlap' => NoOverlap
      BY <1>15, <1>w, <2>3
      DEF UpdateChecklistInterrupted, Parent, Working, Republish, NoOverlap
    <3> QED
      BY <1>t, <1>k, <2>3, <3>1, CompletionStep
  <2> QED
    BY <1>15, <2>1, <2>2, <2>3 DEF UpdateChecklistInterrupted, Interrupted
<1>16. CASE SetSucceeded(b)
  BY <1>16, NoParentStep DEF SetSucceeded, Ack, NoOverlap, historyVars
<1>17. CASE SetFailedAmbiguous(b)
  <2>1. /\ IsParent(b) /\ ~Working(b) /\ Complete(b) /\ UNCHANGED sched
        /\ queue' \subseteq (queue \ {b}) \cup {b}
        /\ NoOverlap' => NoOverlap
    BY <1>17 DEF SetFailedAmbiguous, CompleteRaises, Ack, Parent, Working, NoOverlap
  <2> QED
    BY <1>t, <2>1, CompletionStep
<1> QED
  BY <1>2, <1>3, <1>4, <1>5, <1>6, <1>7, <1>8, <1>9, <1>11, <1>12, <1>13,
     <1>14, <1>15, <1>16, <1>17 DEF ParentStep

\* The steps of child tasks complete nothing and publish no parent.
LEMMA ChildExclusion ==
    ASSUME TypeInv, ExclusionInv, NEW b \in queue, ChildStep(b) \/ CommonStep(b)
    PROVE  ExclusionInv'
<1>t. TypeOK /\ b \in Task
  BY DEF TypeInv, TypeOK
<1>k. /\ \A state : Advance(b, state).module = b.module /\ Advance(b, state).run = b.run
                    /\ Advance(b, state).state = state
      /\ HandleException(b).module = b.module /\ HandleException(b).run = b.run
      /\ HandleException(b).state \in {b.state, "error"}
      /\ GiveUp(b).module = b.module /\ GiveUp(b).run = b.run
      /\ GiveUp(b).state = "error"
  BY <1>t, BodyKinds
<1>1. CASE StartModule(b)
  BY <1>1, NoParentStep DEF StartModule, Ack, NoOverlap, historyVars
<1>2. CASE SkipDisabled(b)
  <2>1. Republish(b, Advance(b, "processed")) /\ ~IsParent(b)
        /\ UNCHANGED <<checklist, sched, anomalies>>
    BY <1>2 DEF SkipDisabled, Child, historyVars
  <2> QED
    BY <2>1, <1>k, RepublishStep DEF Working, IsParent
<1>3. CASE ProcessTimesOut(b)
  <2>1. Republish(b, GiveUp(b)) /\ UNCHANGED <<checklist, sched, anomalies>>
    BY <1>3 DEF ProcessTimesOut, historyVars
  <2> QED
    BY <2>1, <1>k, RepublishStep DEF Working
<1>4. CASE ProcessRaises(b)
  <2>1. Republish(b, HandleException(b)) /\ UNCHANGED <<checklist, sched, anomalies>>
    BY <1>4 DEF ProcessRaises, historyVars
  <2> QED
    BY <2>1, <1>k, RepublishStep DEF Working, IsParent
<1>5. CASE Cleanup(b)
  BY <1>5, NoParentStep DEF Cleanup, Ack, NoOverlap
<1>6. CASE SetStarted(b)
  <2>1. Republish(b, Advance(b, "started")) /\ b.state = "created"
        /\ UNCHANGED <<checklist, sched, anomalies>>
    BY <1>6 DEF SetStarted, historyVars
  <2> QED
    BY <2>1, <1>k, RepublishStep DEF Working, IsParent
<1>7. CASE StepTimesOut(b)
  <2>1. Republish(b, GiveUp(b)) /\ UNCHANGED <<checklist, sched, anomalies>>
    BY <1>7 DEF StepTimesOut, historyVars
  <2> QED
    BY <2>1, <1>k, RepublishStep DEF Working
<1>8. CASE SetFailed(b)
  <2>1. CASE ~IsParent(b)
    BY <1>8, <2>1, NoParentStep DEF SetFailed, Ack, NoOverlap, historyVars
  <2>2. CASE IsParent(b)
    <3>1. /\ ~Working(b) /\ Complete(b) /\ UNCHANGED sched
          /\ queue' \subseteq (queue \ {b}) \cup {b}
          /\ NoOverlap' => NoOverlap
      BY <1>8, <2>2 DEF SetFailed, Ack, Working, NoOverlap, historyVars
    <3> QED
      BY <1>t, <2>2, <3>1, CompletionStep
  <2> QED
    BY <2>1, <2>2
<1>9. CASE LastStepRaises(b)
  BY <1>9, NoParentStep DEF LastStepRaises, CompleteRaises, Ack, NoOverlap, historyVars
<1>10. CASE PublishFails(b)
  BY <1>10, NoParentStep DEF PublishFails, Ack, NoOverlap, historyVars
<1> QED
  BY <1>1, <1>2, <1>3, <1>4, <1>5, <1>6, <1>7, <1>8, <1>9, <1>10
  DEF ChildStep, CommonStep

\* The end of a module touches no parent task.
LEMMA ModuleExclusion ==
    ASSUME TypeInv, ExclusionInv, NEW b \in executing, ModuleStep(b)
    PROVE  ExclusionInv'
<1>t. b \in Task /\ ~IsParent(b)
  BY DEF TypeInv, TypeOK, Child
<1>k. ~IsParent(Advance(b, "processed")) /\ ~IsParent(HandleException(b))
  BY <1>t, BodyKinds DEF IsParent
<1>1. CASE FinishModule(b)
  BY <1>1, <1>k, NoParentStep DEF FinishModule, NoOverlap, historyVars
<1>2. CASE ProcessInterrupted(b)
  <2>1. CASE CountRedelivery
    BY <2>1, RedeliveryExcluded
  <2>2. CASE /\ Republish(b, HandleException(b))
             /\ \E flags : anomalies' = anomalies \cup flags
    BY <1>2, <1>k, <2>2, NoParentStep
    DEF ProcessInterrupted, Republish, NoOverlap
  <2> QED
    BY <1>2, <2>1, <2>2 DEF ProcessInterrupted, Interrupted
<1> QED
  BY <1>1, <1>2 DEF ModuleStep

\* Every step keeps ExclusionInv.
LEMMA ExclusionStep == TypeInv /\ ExclusionInv /\ [Next]_vars => ExclusionInv'
<1> SUFFICES ASSUME TypeInv, ExclusionInv, [Next]_vars
             PROVE  ExclusionInv'
  OBVIOUS
<1>1. CASE UNCHANGED vars
  BY <1>1, NoParentStep DEF vars, NoOverlap
<1>2. CASE \E b \in queue \cup executing : Redeliver(b)
  BY <1>2, RedeliveryExcluded DEF Redeliver
<1>3. CASE Next /\ ~\E b \in queue \cup executing : Redeliver(b)
  BY <1>3, OutsideExclusion, ParentExclusion, ChildExclusion, ModuleExclusion
  DEF Next, Worker
<1> QED
  BY <1>1, <1>2, <1>3

(***************************************************************************)
(* Runs exclude each other for any number of modules, retries, failed      *)
(* calls and runs, as long as no stuck checklist is rescheduled and no     *)
(* message is delivered twice.  In particular a call that fails or whose   *)
(* answer is lost is not enough to make two runs work at the same time.    *)
(***************************************************************************)
THEOREM RunsExclusive == Spec => []SingleActiveRun
<1>1. Spec => [](TypeInv /\ ExclusionInv)
  BY TypeInit, TypeStep, ExclusionInit, ExclusionStep, PTL DEF Spec
<1> QED
  BY <1>1, ExclusionImplies, PTL

-----------------------------------------------------------------------------
(* Completeness of the saved recommendations.                               *)

\* Result files of the recommendation modules of a run.
Files(r) == Present(r, "recommendations")

PlannedStates ==
    CollectedStates \cup {"initialized_checklist", "waited_checklist"}

\* What a parent message says once its run has the single plan P.
FollowsPlan(m, P) ==
    /\ m.state = "initialized_checklist" => m.children_count = Cardinality(P)
    /\ m.run \notin wiped =>
         /\ m.state = "waited_checklist" => Files(m.run) = P
         /\ m.state \in CollectedStates => saved[m.run] = P

\* What holds of every message.
MessageOK(m) ==
    /\ ~IsParent(m) /\ m.module_type = "recommendations" =>
          m.module \in UNION plans[m.run]
    /\ IsParent(m) /\ m.state \in PlannedStates => plans[m.run] # {}
    /\ IsParent(m) => \A P \in plans[m.run] : plans[m.run] = {P} => FollowsPlan(m, P)

\* Nothing is stored for a module that was never planned.
StoredArePlanned ==
    \A r \in Runs : /\ Files(r) \subseteq UNION plans[r]
                    /\ saved[r] \subseteq UNION plans[r]

PlanInv ==
    /\ \A m \in queue \cup executing : MessageOK(m)
    /\ StoredArePlanned

\* The inductive invariant gives the property.
LEMMA PlanImplies == PlanInv => CollectedComplete
BY DEF PlanInv, MessageOK, FollowsPlan, CollectedComplete

\* Before the first run nothing is stored.
LEMMA PlanInit == Init => PlanInv
BY DEF Init, PlanInv, StoredArePlanned, Files, Present, Keys, Folders, MessageOK

\* Stores grow, except for the runs another run's Cleanup wiped.
StoresGrow ==
    /\ wiped \subseteq wiped'
    /\ \A r \in Runs : /\ plans[r] \subseteq plans'[r]
                       /\ saved[r] \subseteq saved'[r]
                       /\ r \notin wiped' => Files(r) \subseteq Files(r)'

\* While the stores grow within the plans, what held of a message still does.
LEMMA MessageKept ==
    ASSUME StoresGrow, StoredArePlanned', NEW m, m.run \in Runs, MessageOK(m)
    PROVE  MessageOK(m)'
<1> USE DEF StoresGrow
<1>1. ~IsParent(m) /\ m.module_type = "recommendations" =>
          m.module \in UNION plans'[m.run]
  BY DEF MessageOK
<1>2. IsParent(m) /\ m.state \in PlannedStates => plans'[m.run] # {}
  BY DEF MessageOK
<1>3. ASSUME IsParent(m), NEW P \in plans'[m.run], plans'[m.run] = {P},
             m.state \in PlannedStates
      PROVE  FollowsPlan(m, P)'
  <2>1. plans[m.run] = {P}
    BY <1>3 DEF MessageOK
  <2>2. FollowsPlan(m, P)
    BY <1>3, <2>1 DEF MessageOK
  <2>3. Files(m.run)' \subseteq P /\ saved'[m.run] \subseteq P
    BY <1>3 DEF StoredArePlanned
  <2> QED
    BY <2>2, <2>3 DEF FollowsPlan
<1>4. ASSUME m.state \notin PlannedStates, NEW P
      PROVE  FollowsPlan(m, P)'
  BY <1>4 DEF FollowsPlan, PlannedStates
<1> QED
  BY <1>1, <1>2, <1>3, <1>4 DEF MessageOK

\* How every step is shown to keep the invariant: the stores grow within the
\* plans, and each message is an old one, one derived from it, or a new one.
LEMMA PlanStep ==
    ASSUME TypeInv', PlanInv, StoresGrow, StoredArePlanned',
           \A m \in queue' \cup executing' :
              m \in queue \cup executing \/ MessageOK(m) \/ MessageOK(m)'
    PROVE  PlanInv'
<1>1. ASSUME NEW m \in queue' \cup executing'
      PROVE  MessageOK(m)'
  <2>1. m.run \in Runs
    BY DEF TypeInv, TypeOK, Task, Body
  <2>2. MessageOK(m) \/ MessageOK(m)'
    BY DEF PlanInv
  <2> QED
    BY <2>1, <2>2, MessageKept
<1> QED
  BY <1>1 DEF PlanInv

\* Stores that do not change grow.
LEMMA SameStores ==
    ASSUME PlanInv, UNCHANGED <<s3, saved, plans, wiped>>
    PROVE  StoresGrow /\ StoredArePlanned'
BY DEF PlanInv, StoresGrow, StoredArePlanned, Files, Present

\* What a retry, a give-up, a redelivery or the clock makes of a message.
LEMMA DerivedMessages ==
    ASSUME NEW b \in Task, MessageOK(b)
    PROVE  /\ MessageOK(HandleException(b))
           /\ MessageOK([HandleException(b) EXCEPT !.age = 0])
           /\ MessageOK(GiveUp(b))
           /\ MessageOK([GiveUp(b) EXCEPT !.age = 0])
           /\ MessageOK(Older(b))
           /\ MessageOK(Redelivered(b))
           /\ MessageOK(Advance(b, "started"))
           /\ MessageOK(Advance(b, "error"))
           /\ ~IsParent(b) => \A state : MessageOK(Advance(b, state))
<1> DEFINE Like(c) == /\ c.module = b.module /\ c.module_type = b.module_type
                      /\ c.run = b.run
                      /\ \/ c.state = b.state /\ c.children_count = b.children_count
                         \/ c.state \in {"started", "error"}
                         \/ ~IsParent(b)
<1>1. ASSUME NEW c, Like(c)
      PROVE  MessageOK(c)
  BY <1>1 DEF MessageOK, FollowsPlan, IsParent, PlannedStates, CollectedStates
<1> USE DEF Task, Body
<1>2. Like(HandleException(b)) /\ Like([HandleException(b) EXCEPT !.age = 0])
  BY DEF HandleException
<1>3. Like(GiveUp(b)) /\ Like([GiveUp(b) EXCEPT !.age = 0])
  BY DEF GiveUp
<1>4. Like(Older(b)) /\ Like(Redelivered(b))
  BY DEF Older, Redelivered
<1>5. /\ Like(Advance(b, "started"))
      /\ Like(Advance(b, "error"))
      /\ ~IsParent(b) => \A state : Like(Advance(b, state))
  BY DEF Advance
<1> HIDE DEF Like
<1> QED
  BY <1>1, <1>2, <1>3, <1>4, <1>5

\* An upload adds the file of a planned module.
LEMMA UploadStores ==
    ASSUME TypeInv, PlanInv, NEW b \in queue \cup executing, ~IsParent(b),
           NEW result \in Results, Upload(b, result),
           UNCHANGED <<saved, plans, wiped>>
    PROVE  StoresGrow /\ StoredArePlanned'
<1>1. b \in Task /\ b.run \in Runs /\ b.module_type \in Folders /\ b.module \in Modules
  BY DEF TypeInv, TypeOK, Task, Body, IsParent
<1>2. result # Absent
  BY DEF Results, Absent
<1>3. \A r \in Runs, m \in Modules :
         LET k == <<r, "recommendations", m>> IN
         /\ k \in Keys
         /\ k # <<b.run, b.module_type, b.module>> => s3'[k] = s3[k]
         /\ k = <<b.run, b.module_type, b.module>> => s3'[k] = result
  BY <1>1 DEF Upload, TypeInv, TypeOK, Keys, Folders
<1>4. \A r \in Runs : /\ Files(r) \subseteq Files(r)'
                      /\ Files(r)' \subseteq UNION plans[r]
  <2> TAKE r \in Runs
  <2>1. Files(r) \subseteq Files(r)'
    BY <1>2, <1>3 DEF Files, Present
  <2>2. ASSUME NEW m \in Files(r)'
        PROVE  m \in UNION plans[r]
    <3>1. CASE <<r, "recommendations", m>> = <<b.run, b.module_type, b.module>>
      <4>1. MessageOK(b) /\ r = b.run /\ m = b.module /\ b.module_type = "recommendations"
        BY <3>1 DEF PlanInv
      <4> QED
        BY <4>1 DEF MessageOK
    <3>2. CASE <<r, "recommendations", m>> # <<b.run, b.module_type, b.module>>
      <4>1. m \in Files(r)
        BY <3>2, <1>3 DEF Files, Present
      <4> QED
        BY <4>1 DEF PlanInv, StoredArePlanned
    <3> QED
      BY <3>1, <3>2
  <2> QED
    BY <2>1, <2>2
<1> QED
  BY <1>4 DEF StoresGrow, StoredArePlanned, PlanInv

\* A run's list of modules joins its plans; the files and the saved results
\* stay.
LEMMA PlanStores ==
    ASSUME TypeInv, PlanInv, NEW r \in Runs, NEW S,
           plans' = [plans EXCEPT ![r] = @ \cup {S}],
           UNCHANGED <<s3, saved, wiped>>
    PROVE  /\ StoresGrow /\ StoredArePlanned'
           /\ S \in plans'[r]
           /\ saved'[r] \subseteq UNION plans'[r]
<1>1. \A q \in Runs : plans[q] \subseteq plans'[q]
  BY DEF TypeInv, TypeOK
<1>2. S \in plans'[r]
  BY DEF TypeInv, TypeOK
<1> QED
  BY <1>1, <1>2 DEF StoresGrow, StoredArePlanned, PlanInv, Files, Present

\* New children of a folder whose modules are planned.
LEMMA NewChildrenOK ==
    ASSUME NEW b, NEW folder, NEW S \in SUBSET Modules,
           folder = "recommendations" => S \subseteq UNION plans'[b.run],
           NEW c \in Children(b, folder, S)
    PROVE  MessageOK(c)'
<1>1. PICK m \in S : c = ChildTask(b, folder, m)
  BY DEF Children
<1>2. c.run = b.run /\ c.module = m /\ c.module_type = folder /\ ~IsParent(c)
  BY <1>1, ChildrenKind DEF ChildTask
<1> QED
  BY <1>2 DEF MessageOK

\* The scheduler, the clock and the outside events.
LEMMA OutsidePlan ==
    ASSUME TypeInv, TypeInv', PlanInv,
           Scheduler \/ ScheduleNextRun \/ EditDisabled \/ Tick
    PROVE  PlanInv'
<1>1. UNCHANGED <<s3, saved, plans, wiped>>
  BY DEF Scheduler, ChooseChecklist, UpdateSchedule, CreateTasks, AbortSchedule,
         ScheduleNextRun, EditDisabled, Tick, historyVars, worldVars
<1>2. StoresGrow /\ StoredArePlanned'
  BY <1>1, SameStores
<1>3. CASE CreateTasks
  <2>1. MessageOK(ParentTask(checklist.last_run))
    BY DEF MessageOK, ParentTask, FollowsPlan, IsParent, PlannedStates, CollectedStates
  <2> QED
    BY <1>2, <1>3, <2>1, PlanStep DEF CreateTasks
<1>4. CASE Tick
  <2>1. \A b \in queue \cup executing : MessageOK(Older(b))
    BY DerivedMessages DEF PlanInv, TypeInv, TypeOK
  <2> QED
    BY <1>2, <1>4, <2>1, PlanStep DEF Tick
<1>5. CASE ~CreateTasks /\ ~Tick
  <2>1. UNCHANGED <<queue, executing>>
    BY <1>5 DEF Scheduler, ChooseChecklist, UpdateSchedule, AbortSchedule,
                ScheduleNextRun, EditDisabled
  <2> QED
    BY <1>2, <2>1, PlanStep
<1> QED
  BY <1>3, <1>4, <1>5

\* A handler that republishes a derived message, or acknowledges its message,
\* and leaves the stores alone.
LEMMA QueueOnlyPlan ==
    ASSUME TypeInv', PlanInv, UNCHANGED <<s3, saved, plans, wiped>>,
           executing' \subseteq queue \cup executing,
           \A m \in queue' : m \in queue \cup executing \/ MessageOK(m) \/ MessageOK(m)'
    PROVE  PlanInv'
BY SameStores, PlanStep

\* The steps of parent tasks.
LEMMA ParentPlan ==
    ASSUME TypeInv, TypeInv', PlanInv, NEW b \in queue, ParentStep(b)
    PROVE  PlanInv'
<1>t. b \in Task /\ b.run \in Runs /\ MessageOK(b)
  BY DEF TypeInv, TypeOK, Task, Body, PlanInv
<1>d. /\ MessageOK(HandleException(b)) /\ MessageOK([HandleException(b) EXCEPT !.age = 0])
      /\ MessageOK([GiveUp(b) EXCEPT !.age = 0]) /\ MessageOK(Redelivered(b))
      /\ MessageOK(Advance(b, "error"))
  BY <1>t, DerivedMessages
<1>u. \A r \in Runs : Files(r) \subseteq Modules
  BY DEF Files, Present
<1>1. CASE InitializeChecklist(b)
  <2>1. PICK S \in SUBSET Modules : S = list_modules("recommendations")
    BY ListedModules DEF Folders
  <2> DEFINE new == [Advance(b, "initialized_checklist")
                       EXCEPT !.children_count = Cardinality(S)]
             skip == Advance(b, "waited_service")
  <2>2. /\ plans' = [plans EXCEPT ![b.run] = @ \cup {S}]
        /\ UNCHANGED <<s3, saved, wiped, executing>>
    BY <1>1, <2>1 DEF InitializeChecklist, worldVars
  <2>3. /\ StoresGrow /\ StoredArePlanned' /\ S \in plans'[b.run]
        /\ saved'[b.run] \subseteq UNION plans'[b.run]
    BY <1>t, <2>2, PlanStores
  <2>4. MessageOK(new)'
    <3>1. /\ new.run = b.run /\ new.state = "initialized_checklist"
          /\ new.children_count = Cardinality(S) /\ IsParent(new)
      BY <1>t, <1>1 DEF Advance, Task, Body, IsParent, InitializeChecklist, Parent
    <3> HIDE DEF new
    <3> QED
      BY <2>3, <3>1 DEF MessageOK, FollowsPlan, CollectedStates
  <2>5. S = {} => MessageOK(skip)'
    <3>1. skip.run = b.run /\ skip.state = "waited_service" /\ IsParent(skip)
      BY <1>t, <1>1 DEF Advance, Task, Body, IsParent, InitializeChecklist, Parent
    <3> HIDE DEF skip
    <3> QED
      BY <2>3, <3>1 DEF MessageOK, FollowsPlan
  <2>6. \A c \in Children(b, "recommendations", S) : MessageOK(c)'
    BY <2>1, <2>3, NewChildrenOK
  <2>7. \A m \in queue' : m \in queue \/ MessageOK(m)'
    BY <1>1, <2>1, <2>4, <2>5, <2>6 DEF InitializeChecklist, Republish
  <2> QED
    BY <2>2, <2>3, <2>7, PlanStep
<1>2. CASE InitializeArchive(b) \/ InitializeService(b)
  <2>1. ASSUME NEW folder \in {"archive", "service"},
               NEW state \in {"initialized_archive", "initialized_service"},
               InitializeFolder(b, folder, state),
               IsParent(b), b.state \in CollectedStates
        PROVE  PlanInv'
    <3> DEFINE S == list_modules(folder)
               new == [Advance(b, state) EXCEPT !.children_count = Cardinality(S)]
    <3>1. S \in SUBSET Modules
      BY ListedModules DEF Folders
    <3>2. /\ UNCHANGED <<s3, saved, plans, wiped, executing>>
          /\ queue' = (queue \ {b}) \cup Children(b, folder, S) \cup {new}
      BY <2>1 DEF InitializeFolder, worldVars, historyVars
    <3>3. MessageOK(new)
      <4>1. new.run = b.run /\ new.state = state /\ IsParent(new)
        BY <1>t, <2>1 DEF Advance, Task, Body, IsParent
      <4> HIDE DEF new
      <4> QED
        BY <1>t, <2>1, <4>1 DEF MessageOK, FollowsPlan, PlannedStates, CollectedStates
    <3>4. \A c \in Children(b, folder, S) : MessageOK(c)'
      BY <2>1, <3>1, NewChildrenOK
    <3> HIDE DEF new, S
    <3> QED
      BY <3>2, <3>3, <3>4, QueueOnlyPlan
  <2> QED
    BY <1>2, <2>1 DEF InitializeArchive, InitializeService, Parent, CollectedStates
<1>3. CASE CrashInitializing(b)
  <2> DEFINE folder == InitFolder(b.state)
             S == list_modules(folder)
  <2>1. S \in SUBSET Modules
    <3>1. folder \in Folders
      BY <1>3 DEF CrashInitializing, InitFolder, Folders
    <3> QED
      BY <3>1, ListedModules
  <2>2. PICK published \in SUBSET S :
           queue' = (queue \ {b}) \cup {Redelivered(b)}
                      \cup Children(b, folder, published)
    BY <1>3 DEF CrashInitializing
  <2>3. UNCHANGED <<s3, saved, wiped, executing>>
    BY <1>3 DEF CrashInitializing, worldVars
  <2>4. CASE b.state = "started"
    <3>1. plans' = [plans EXCEPT ![b.run] = @ \cup {S}]
      BY <1>3, <2>4 DEF CrashInitializing
    <3>2. StoresGrow /\ StoredArePlanned' /\ S \in plans'[b.run]
      BY <1>t, <2>3, <3>1, PlanStores
    <3>3. \A c \in Children(b, folder, published) : MessageOK(c)'
      BY <2>1, <3>2, NewChildrenOK
    <3> QED
      BY <1>d, <2>2, <2>3, <3>2, <3>3, PlanStep
  <2>5. CASE b.state # "started"
    <3>1. UNCHANGED plans /\ folder # "recommendations"
      BY <1>3, <2>5 DEF CrashInitializing, InitFolder
    <3>2. \A c \in Children(b, folder, published) : MessageOK(c)'
      BY <2>1, <3>1, NewChildrenOK
    <3> QED
      BY <1>d, <2>2, <2>3, <3>1, <3>2, QueueOnlyPlan
  <2> QED
    BY <2>4, <2>5
<1>4. CASE WaitTasksResult(b)
  <2> DEFINE new == Advance(b, WaitedState(b.state))
  <2>1. UNCHANGED <<s3, saved, plans, wiped, executing>>
    BY <1>4 DEF WaitTasksResult, worldVars, historyVars
  <2>2. CASE UNCHANGED queue
    BY <2>1, <2>2, QueueOnlyPlan
  <2>3. CASE /\ Cardinality(Present(b.run, WaitFolder(b.state))) = b.children_count
             /\ Republish(b, new)
    <3>1. /\ new.run = b.run /\ new.state = WaitedState(b.state)
          /\ IsParent(new) /\ IsParent(b)
      BY <1>4, <1>t DEF WaitTasksResult, Advance, Task, Body, IsParent
    <3>2. CASE b.state = "initialized_checklist"
      <4>1. ASSUME NEW P \in plans[b.run], plans[b.run] = {P}
            PROVE  Files(b.run) = P
        <5>1. Cardinality(Files(b.run)) = Cardinality(P)
          BY <1>t, <2>3, <3>1, <3>2, <4>1 DEF MessageOK, FollowsPlan, WaitFolder, Files
        <5>2. Files(b.run) \subseteq P
          BY <1>t, <4>1 DEF PlanInv, StoredArePlanned
        <5>3. IsFiniteSet(P)
          BY <1>t, ModuleCount DEF TypeInv, TypeOK
        <5> QED
          BY <5>1, <5>2, <5>3, FS_Subset
      <4>2. new.state = "waited_checklist"
        BY <3>1, <3>2 DEF WaitedState
      <4>3. plans[b.run] # {}
        BY <1>t, <3>1, <3>2 DEF MessageOK, PlannedStates
      <4>4. MessageOK(new)
        <5> HIDE DEF new
        <5> QED
          BY <3>1, <4>1, <4>2, <4>3 DEF MessageOK, FollowsPlan, CollectedStates
      <4> QED
        BY <2>1, <2>3, <4>4, QueueOnlyPlan DEF Republish
    <3>3. CASE b.state \in {"initialized_archive", "initialized_service"}
      <4>1. new.state \in {"waited_archive", "waited_service"}
        BY <3>1, <3>3 DEF WaitedState
      <4>2. MessageOK(new)
        <5> HIDE DEF new
        <5> QED
          BY <1>t, <3>1, <3>3, <4>1
          DEF MessageOK, FollowsPlan, PlannedStates, CollectedStates
      <4> QED
        BY <2>1, <2>3, <4>2, QueueOnlyPlan DEF Republish
    <3> QED
      BY <1>4, <3>2, <3>3 DEF WaitTasksResult, WaitSteps
  <2> QED
    BY <1>4, <2>2, <2>3 DEF WaitTasksResult
<1>5. CASE WaitTimesOut(b)
  BY <1>5, <1>d, QueueOnlyPlan DEF WaitTimesOut, Republish, worldVars, historyVars
<1>6. CASE WaitRaises(b)
  BY <1>6, <1>d, QueueOnlyPlan DEF WaitRaises, Republish, worldVars, historyVars
<1>7. CASE InitializeRaises(b)
  BY <1>7, <1>d, QueueOnlyPlan DEF InitializeRaises, Republish, worldVars, historyVars
<1>s. ASSUME NEW W \in SUBSET Files(b.run),
             saved' = [saved EXCEPT ![b.run] = @ \cup W],
             UNCHANGED <<s3, plans, wiped>>
      PROVE  /\ StoresGrow /\ StoredArePlanned'
             /\ saved'[b.run] = saved[b.run] \cup W
  <2>1. \A r \in Runs : /\ saved[r] \subseteq saved'[r]
                        /\ saved'[r] \subseteq saved[r] \cup Files(r)
    BY <1>s, <1>t DEF TypeInv, TypeOK
  <2>2. saved'[b.run] = saved[b.run] \cup W
    BY <1>s, <1>t DEF TypeInv, TypeOK
  <2>3. \A r \in Runs : Files(r)' = Files(r)
    BY <1>s DEF Files, Present
  <2> QED
    BY <1>s, <2>1, <2>2, <2>3 DEF StoresGrow, StoredArePlanned, PlanInv
<1>8. CASE CollectCheckResult(b)
  <2>1. UNCHANGED <<s3, plans, wiped, executing>>
    BY <1>8 DEF CollectCheckResult, historyVars
  <2>2. CASE Unsavable(b)
    BY <1>8, <1>d, <2>1, <2>2, QueueOnlyPlan DEF CollectCheckResult, Republish
  <2>3. CASE ~Unsavable(b)
    <3> DEFINE new == Advance(b, "collected_check_result")
    <3>1. saved' = [saved EXCEPT ![b.run] = @ \cup Files(b.run)]
      BY <1>8, <2>3 DEF CollectCheckResult, Collected, Files
    <3>2. /\ StoresGrow /\ StoredArePlanned'
          /\ saved'[b.run] = saved[b.run] \cup Files(b.run)
      BY <1>s, <2>1, <3>1
    <3>3. MessageOK(new)'
      <4>1. /\ new.run = b.run /\ new.state = "collected_check_result"
            /\ IsParent(new) /\ IsParent(b) /\ b.state = "waited_checklist"
        BY <1>8, <1>t DEF CollectCheckResult, Parent, Advance, Task, Body, IsParent
      <4>2. plans[b.run] # {}
        BY <1>t, <4>1 DEF MessageOK, PlannedStates
      <4>3. ASSUME NEW P \in plans[b.run], plans[b.run] = {P}, b.run \notin wiped
            PROVE  saved'[b.run] = P
        <5>1. Files(b.run) = P
          BY <1>t, <4>1, <4>3 DEF MessageOK, FollowsPlan
        <5>2. saved[b.run] \subseteq P
          BY <1>t, <4>3 DEF PlanInv, StoredArePlanned
        <5> QED
          BY <3>2, <5>1, <5>2
      <4> HIDE DEF new
      <4> QED
        BY <2>1, <4>1, <4>2, <4>3 DEF MessageOK, FollowsPlan
    <3>4. \A m \in queue' : m \in queue \/ m = new \/ m = Advance(b, "error")
      BY <1>8, <2>3 DEF CollectCheckResult, Republish
    <3> HIDE DEF new
    <3> QED
      BY <1>d, <2>1, <3>2, <3>3, <3>4, PlanStep
  <2> QED
    BY <2>2, <2>3
<1>i. ASSUME NEW flags, Interrupted(b, flags)
      PROVE  \A m \in queue' : m \in queue \/ MessageOK(m)
  BY <1>i, <1>d DEF Interrupted, Republish
<1>9. CASE CollectInterrupted(b)
  <2>1. PICK W \in SUBSET Files(b.run) : saved' = [saved EXCEPT ![b.run] = @ \cup W]
    BY <1>9 DEF CollectInterrupted, Collected, Files
  <2>2. UNCHANGED <<s3, plans, wiped, executing>>
    BY <1>9 DEF CollectInterrupted
  <2>3. StoresGrow /\ StoredArePlanned'
    BY <1>s, <2>1, <2>2
  <2>4. \A m \in queue' : m \in queue \/ MessageOK(m)
    BY <1>9, <1>i DEF CollectInterrupted
  <2> QED
    BY <2>2, <2>3, <2>4, PlanStep
<1>a. ASSUME IsParent(b), b.state \in CollectedStates, NEW c,
             IsParent(c), c.run = b.run, c.state \in CollectedStates
      PROVE  MessageOK(c)
  BY <1>t, <1>a DEF MessageOK, FollowsPlan, PlannedStates, CollectedStates
<1>10. CASE CheckArchiveResult(b)
  <2> DEFINE new == Advance(b, "check_archive_result")
  <2>1. /\ new.run = b.run /\ new.state = "check_archive_result"
        /\ IsParent(new) /\ IsParent(b) /\ b.state = "waited_archive"
    BY <1>10, <1>t DEF CheckArchiveResult, Parent, Advance, Task, Body, IsParent
  <2>2. \A m \in queue' : m \in queue \/ m = new \/ m = Advance(b, "error")
    BY <1>10 DEF CheckArchiveResult, Republish
  <2>3. UNCHANGED <<s3, saved, plans, wiped, executing>>
    BY <1>10 DEF CheckArchiveResult, worldVars, historyVars
  <2> HIDE DEF new
  <2>4. MessageOK(new)
    BY <1>a, <2>1 DEF CollectedStates
  <2> QED
    BY <1>d, <2>2, <2>3, <2>4, QueueOnlyPlan
<1>11. CASE CheckArchiveRaises(b)
  <2> DEFINE mid == [b EXCEPT !.state = "check_archive_result"]
  <2>1. /\ mid \in Task /\ mid.run = b.run /\ mid.state = "check_archive_result"
        /\ IsParent(mid) /\ IsParent(b) /\ b.state = "waited_archive"
    <3>1. mid \in Task
      BY <1>t, BodySteps DEF TaskState
    <3>2. mid.run = b.run /\ mid.state = "check_archive_result" /\ mid.module = b.module
      BY <1>t DEF Task, Body
    <3>3. IsParent(b) /\ b.state = "waited_archive"
      BY <1>11 DEF CheckArchiveRaises, Parent
    <3> QED
      BY <3>1, <3>2, <3>3 DEF IsParent
  <2>2. /\ Republish(b, HandleException(mid))
        /\ UNCHANGED <<s3, saved, plans, wiped, executing>>
    BY <1>11 DEF CheckArchiveRaises, worldVars
  <2> HIDE DEF mid
  <2>3. MessageOK(mid)
    BY <1>a, <2>1 DEF CollectedStates
  <2>4. MessageOK(HandleException(mid))
    BY <2>1, <2>3, DerivedMessages
  <2> QED
    BY <2>2, <2>4, QueueOnlyPlan DEF Republish
<1>12. CASE UpdateChecklist(b)
  <2> DEFINE new == [b EXCEPT !.state = "updated_checklist"]
  <2>1. /\ new.run = b.run /\ new.state = "updated_checklist"
        /\ IsParent(new) /\ IsParent(b) /\ b.state = "waited_service"
    BY <1>12, <1>t DEF UpdateChecklist, Parent, Task, Body, IsParent
  <2>2. Republish(b, new) /\ UNCHANGED <<s3, saved, plans, wiped, executing>>
    BY <1>12 DEF UpdateChecklist, worldVars, historyVars
  <2> HIDE DEF new
  <2>3. MessageOK(new)
    BY <1>a, <2>1 DEF CollectedStates
  <2> QED
    BY <2>2, <2>3, QueueOnlyPlan DEF Republish
<1>13. CASE UpdateChecklistInterrupted(b)
  <2>1. \A m \in queue' : m \in queue \/ MessageOK(m)
    BY <1>13, <1>i DEF UpdateChecklistInterrupted
  <2> QED
    BY <1>13, <2>1, QueueOnlyPlan DEF UpdateChecklistInterrupted, worldVars
<1>14. CASE SetSucceeded(b)
  BY <1>14, QueueOnlyPlan DEF SetSucceeded, Ack, worldVars, historyVars
<1>15. CASE SetFailedAmbiguous(b)
  BY <1>15, QueueOnlyPlan DEF SetFailedAmbiguous, CompleteRaises, Ack, worldVars
<1> QED
  BY <1>1, <1>2, <1>3, <1>4, <1>5, <1>6, <1>7, <1>8, <1>9, <1>10, <1>11,
     <1>12, <1>13, <1>14, <1>15 DEF ParentStep

\* The steps of child tasks and the common steps: results are only added,
\* except by Cleanup, which names the runs it wipes.
LEMMA ChildPlan ==
    ASSUME TypeInv, TypeInv', PlanInv, NEW b \in queue,
           ChildStep(b) \/ CommonStep(b)
    PROVE  PlanInv'
<1>t. b \in Task /\ b.run \in Runs /\ MessageOK(b)
  BY DEF TypeInv, TypeOK, Task, Body, PlanInv
<1>d. /\ MessageOK(HandleException(b)) /\ MessageOK(GiveUp(b))
      /\ MessageOK(Advance(b, "started"))
      /\ ~IsParent(b) => \A state : MessageOK(Advance(b, state))
  BY <1>t, DerivedMessages
<1>1. CASE StartModule(b)
  BY <1>1, QueueOnlyPlan DEF StartModule, Ack, worldVars, historyVars
<1>2. CASE SkipDisabled(b)
  <2>1. /\ ~IsParent(b) /\ Upload(b, "data") /\ "data" \in Results
        /\ UNCHANGED <<saved, plans, wiped, executing>>
        /\ Republish(b, Advance(b, "processed"))
    BY <1>2 DEF SkipDisabled, Child, Results, historyVars
  <2>2. StoresGrow /\ StoredArePlanned'
    BY <2>1, UploadStores
  <2> QED
    BY <1>d, <2>1, <2>2, PlanStep DEF Republish
<1>3. CASE ProcessTimesOut(b)
  <2>1. PICK result \in Results : Upload(b, result)
    BY <1>3 DEF ProcessTimesOut, Results
  <2>2. /\ ~IsParent(b) /\ UNCHANGED <<saved, plans, wiped, executing>>
        /\ Republish(b, GiveUp(b))
    BY <1>3 DEF ProcessTimesOut, Child, historyVars
  <2>3. StoresGrow /\ StoredArePlanned'
    BY <2>1, <2>2, UploadStores
  <2> QED
    BY <1>d, <2>2, <2>3, PlanStep DEF Republish
<1>4. CASE ProcessRaises(b)
  BY <1>4, <1>d, QueueOnlyPlan DEF ProcessRaises, Republish, worldVars, historyVars
<1>5. CASE Cleanup(b)
  <2>1. \A r \in Runs, m \in Modules :
           LET k == <<r, "recommendations", m>>
           IN  s3'[k] = IF r = b.run THEN s3[k] ELSE Absent
    BY <1>5 DEF Cleanup, Keys, Folders
  <2>2. \A r \in Runs : Files(r)' \subseteq Files(r)
    BY <2>1 DEF Files, Present
  <2>3. \A r \in Runs : r \notin wiped' => Files(r) \subseteq Files(r)'
    <3> SUFFICES ASSUME NEW r \in Runs, r \notin wiped'
                 PROVE  Files(r) \subseteq Files(r)'
      OBVIOUS
    <3>1. CASE r = b.run
      BY <2>1, <3>1 DEF Files, Present
    <3>2. CASE r # b.run
      <4>1. Files(r) = {}
        BY <1>5, <3>2 DEF Cleanup, Files, Folders
      <4> QED
        BY <4>1
    <3> QED
      BY <3>1, <3>2
  <2>4. wiped \subseteq wiped' /\ UNCHANGED <<saved, plans, executing>> /\ Ack(b)
    BY <1>5 DEF Cleanup
  <2>5. StoresGrow /\ StoredArePlanned'
    BY <2>2, <2>3, <2>4 DEF StoresGrow, StoredArePlanned, PlanInv
  <2> QED
    BY <2>4, <2>5, PlanStep DEF Ack
<1>6. CASE SetStarted(b)
  BY <1>6, <1>d, QueueOnlyPlan DEF SetStarted, Republish, worldVars, historyVars
<1>7. CASE StepTimesOut(b)
  BY <1>7, <1>d, QueueOnlyPlan DEF StepTimesOut, Republish, worldVars, historyVars
<1>8. CASE SetFailed(b)
  BY <1>8, QueueOnlyPlan DEF SetFailed, Ack, worldVars, historyVars
<1>9. CASE LastStepRaises(b)
  BY <1>9, QueueOnlyPlan
  DEF LastStepRaises, CompleteRaises, Ack, worldVars, historyVars
<1>10. CASE PublishFails(b)
  BY <1>10, QueueOnlyPlan DEF PublishFails, Ack, worldVars, historyVars
<1> QED
  BY <1>1, <1>2, <1>3, <1>4, <1>5, <1>6, <1>7, <1>8, <1>9, <1>10
  DEF ChildStep, CommonStep

\* The end of a module stores a result of a planned module.
LEMMA ModulePlan ==
    ASSUME TypeInv, TypeInv', PlanInv, NEW b \in executing, ModuleStep(b)
    PROVE  PlanInv'
<1>t. b \in Task /\ ~IsParent(b) /\ MessageOK(b)
  BY DEF TypeInv, TypeOK, Child, PlanInv
<1>d. /\ MessageOK(HandleException(b)) /\ MessageOK(Redelivered(b))
      /\ MessageOK(Advance(b, "processed"))
  BY <1>t, DerivedMessages
<1>1. executing' \subseteq executing /\ UNCHANGED <<saved, plans, wiped>>
  BY DEF ModuleStep, FinishModule, ProcessInterrupted, historyVars
<1>2. StoresGrow /\ StoredArePlanned'
  <2>1. CASE UNCHANGED s3
    BY <1>1, <2>1, SameStores
  <2>2. CASE \E result \in {"data", "error"} : Upload(b, result)
    <3>1. PICK result \in Results : Upload(b, result)
      BY <2>2 DEF Results
    <3> QED
      BY <1>1, <1>t, <3>1, UploadStores
  <2> QED
    BY <2>1, <2>2 DEF ModuleStep, FinishModule, ProcessInterrupted
<1>3. \A m \in queue' : m \in queue \/ MessageOK(m)
  BY <1>d DEF ModuleStep, FinishModule, ProcessInterrupted, Interrupted, Republish
<1> QED
  BY <1>1, <1>2, <1>3, PlanStep

\* Every step keeps PlanInv.
LEMMA PlanNext == TypeInv /\ TypeInv' /\ PlanInv /\ [Next]_vars => PlanInv'
<1> SUFFICES ASSUME TypeInv, TypeInv', PlanInv, [Next]_vars
             PROVE  PlanInv'
  OBVIOUS
<1>1. CASE UNCHANGED vars
  BY <1>1, QueueOnlyPlan DEF vars
<1>2. CASE \E b \in queue \cup executing : Redeliver(b)
  <2>1. PICK b \in queue \cup executing : Redeliver(b)
    BY <1>2
  <2>2. b \in Task /\ MessageOK(b)
    BY DEF TypeInv, TypeOK, PlanInv
  <2>3. MessageOK(Redelivered(b))
    BY <2>2, DerivedMessages
  <2> QED
    BY <2>1, <2>3, QueueOnlyPlan DEF Redeliver, worldVars
<1>3. CASE Next /\ ~\E b \in queue \cup executing : Redeliver(b)
  BY <1>3, OutsidePlan, ParentPlan, ChildPlan, ModulePlan DEF Next, Worker
<1> QED
  BY <1>1, <1>2, <1>3

(***************************************************************************)
(* Comparing a number of files with children_count is enough: with any     *)
(* number of crashes, redeliveries and failed calls, what a run saved is   *)
(* what it planned, as long as its plan did not change and no other run's  *)
(* Cleanup deleted its files.                                              *)
(***************************************************************************)
THEOREM SavedIsPlanned == Spec => []CollectedComplete
<1>1. Spec => []TypeInv
  BY TypeInit, TypeStep, PTL DEF Spec
<1>2. Spec => []PlanInv
  BY <1>1, PlanInit, PlanNext, PTL DEF Spec
<1> QED
  BY <1>2, PlanImplies, PTL


-----------------------------------------------------------------------------
(* last_completed never goes back.                                          *)

\* A parent task that may still write last_completed.
Uncompleted(b) == IsParent(b) /\ b.state # "updated_checklist"

\* While nothing made two runs able to interfere, such a task is of the last run,
\* and that run is not completed; the scheduler chooses the checklist without one.
UncompletedInv ==
    anomalies = {} =>
        /\ \A b \in queue : Uncompleted(b) =>
              b.run = checklist.last_run /\ checklist.last_completed # checklist.last_run
        /\ sched = "chosen" => \A b \in queue : ~Uncompleted(b)

\* Before the first run there is no task.
LEMMA UncompletedInit == Init => UncompletedInv
BY DEF Init, UncompletedInv

\* The parent messages of a queue after a handler took b: b's successor is a
\* message of the same run, and there is none once b wrote last_completed.
LEMMA Successors ==
    ASSUME TypeInv, NEW b \in queue, ParentStep(b) \/ ChildStep(b) \/ CommonStep(b)
    PROVE  \A c \in queue' : \/ c \in queue \/ ~IsParent(c)
                             \/ Uncompleted(b) /\ c.run = b.run
<1>t. b \in Task
  BY DEF TypeInv, TypeOK
<1> DEFINE Succeeds(c) == c.module = b.module /\ c.run = b.run
<1>n. \A c : Succeeds(c) => (IsParent(c) <=> IsParent(b))
  BY DEF IsParent
<1>k. /\ \A state : Succeeds(Advance(b, state))
      /\ \A state, n : Succeeds([Advance(b, state) EXCEPT !.children_count = n])
      /\ Succeeds(HandleException(b)) /\ Succeeds(GiveUp(b)) /\ Succeeds(Redelivered(b))
      /\ Succeeds([GiveUp(b) EXCEPT !.age = 0])
      /\ Succeeds([HandleException(b) EXCEPT !.age = 0])
      /\ \A state : Succeeds([b EXCEPT !.state = state])
      /\ \A state : Succeeds(HandleException([b EXCEPT !.state = state]))
  BY <1>t DEF Task, Body, Advance, HandleException, GiveUp, Redelivered
<1> HIDE DEF Succeeds
<1>r. ASSUME NEW new, Republish(b, new), Succeeds(new), b.state # "updated_checklist"
      PROVE  \A c \in queue' : \/ c \in queue \/ ~IsParent(c)
                               \/ Uncompleted(b) /\ c.run = b.run
  BY <1>r, <1>n DEF Republish, Uncompleted, Succeeds
<1>c. ASSUME NEW new, NEW folder, NEW S \in SUBSET Modules, Succeeds(new),
             queue' = (queue \ {b}) \cup Children(b, folder, S) \cup {new},
             b.state # "updated_checklist"
      PROVE  \A c \in queue' : \/ c \in queue \/ ~IsParent(c)
                               \/ Uncompleted(b) /\ c.run = b.run
  BY <1>c, <1>n, ChildrenKind DEF Uncompleted, Succeeds
<1>f. ASSUME NEW folder \in Folders, NEW state, InitializeFolder(b, folder, state),
             b.state # "updated_checklist"
      PROVE  \A c \in queue' : \/ c \in queue \/ ~IsParent(c)
                               \/ Uncompleted(b) /\ c.run = b.run
  BY <1>f, <1>c, <1>k, ListedModules DEF InitializeFolder
<1>1. CASE ParentStep(b)
  <2>1. CASE InitializeChecklist(b)
    <3>1. list_modules("recommendations") \in SUBSET Modules /\ b.state = "started"
      BY <2>1, ListedModules DEF Folders, InitializeChecklist, Parent
    <3> QED
      BY <2>1, <3>1, <1>r, <1>c, <1>k DEF InitializeChecklist
  <2>2. CASE InitializeArchive(b) \/ InitializeService(b)
    BY <2>2, <1>f DEF InitializeArchive, InitializeService, Parent, Folders
  <2>3. CASE CrashInitializing(b)
    <3>1. InitFolder(b.state) \in Folders /\ b.state # "updated_checklist"
      BY <2>3 DEF CrashInitializing, InitFolder, Folders
    <3>2. PICK S \in SUBSET Modules :
             queue' = (queue \ {b}) \cup {Redelivered(b)}
                        \cup Children(b, InitFolder(b.state), S)
      BY <2>3, <3>1, ListedModules DEF CrashInitializing
    <3>3. queue' = (queue \ {b}) \cup Children(b, InitFolder(b.state), S)
                     \cup {Redelivered(b)}
      BY <3>2
    <3> QED
      BY <3>1, <3>3, <1>c, <1>k
  <2>4. CASE InitializeRaises(b)
    BY <2>4, <1>r, <1>k DEF InitializeRaises
  <2>5. CASE WaitTasksResult(b)
    BY <2>5, <1>r, <1>k DEF WaitTasksResult, WaitSteps
  <2>6. CASE WaitTimesOut(b) \/ WaitRaises(b)
    BY <2>6, <1>r, <1>k DEF WaitTimesOut, WaitRaises, WaitSteps
  <2>7. CASE CollectCheckResult(b)
    BY <2>7, <1>r, <1>k DEF CollectCheckResult, Parent
  <2>8. CASE CollectInterrupted(b)
    BY <2>8, <1>r, <1>k DEF CollectInterrupted, Interrupted, Parent
  <2>9. CASE CheckArchiveResult(b)
    BY <2>9, <1>r, <1>k DEF CheckArchiveResult, Parent
  <2>10. CASE CheckArchiveRaises(b)
    BY <2>10, <1>r, <1>k DEF CheckArchiveRaises, Parent
  <2>11. CASE UpdateChecklist(b)
    BY <2>11, <1>r, <1>k DEF UpdateChecklist, Parent
  <2>12. CASE UpdateChecklistInterrupted(b)
    BY <2>12, <1>r, <1>k DEF UpdateChecklistInterrupted, Interrupted, Parent
  <2>13. CASE SetSucceeded(b) \/ SetFailedAmbiguous(b)
    BY <2>13 DEF SetSucceeded, SetFailedAmbiguous, CompleteRaises, Ack
  <2> QED
    BY <1>1, <2>1, <2>2, <2>3, <2>4, <2>5, <2>6, <2>7, <2>8, <2>9, <2>10, <2>11,
       <2>12, <2>13 DEF ParentStep
<1>2. CASE ChildStep(b)
  BY <1>2, <1>r, <1>k
  DEF ChildStep, StartModule, SkipDisabled, ProcessTimesOut, ProcessRaises, Cleanup,
      Ack, Child
<1>3. CASE CommonStep(b)
  <2>1. CASE SetStarted(b)
    BY <2>1, <1>r, <1>k DEF SetStarted
  <2>2. CASE StepTimesOut(b)
    BY <2>2, <1>r, <1>k DEF StepTimesOut, TimeoutSteps
  <2>3. CASE SetFailed(b) \/ LastStepRaises(b) \/ PublishFails(b)
    BY <2>3 DEF SetFailed, LastStepRaises, PublishFails, CompleteRaises, Ack
  <2> QED
    BY <1>3, <2>1, <2>2, <2>3 DEF CommonStep
<1> QED
  BY <1>1, <1>2, <1>3

\* last_completed and last_run are numbers of runs.
LEMMA RunNumbers ==
    ASSUME TypeInv
    PROVE  /\ checklist.last_run \in Nat /\ checklist.last_completed \in Nat
           /\ \A b \in queue : b.run \in Nat
BY BoundAssumption DEF TypeInv, TypeOK, Task, Body, Runs

\* The scheduler, the clock and the outside events.
LEMMA OutsideUncompleted ==
    ASSUME TypeInv, ExclusionInv, UncompletedInv,
           Scheduler \/ ScheduleNextRun \/ EditDisabled \/ Tick
    PROVE  /\ UncompletedInv'
           /\ checklist'.last_completed = checklist.last_completed
<1>k. anomalies' = {} => anomalies = {}
  BY DEF Scheduler, ChooseChecklist, UpdateSchedule, CreateTasks, AbortSchedule,
         ScheduleNextRun, EditDisabled, Tick, historyVars
<1>1. CASE ChooseChecklist
  <2>1. UNCHANGED <<checklist, queue>>
    BY <1>1 DEF ChooseChecklist
  <2>2. anomalies' = {} => checklist.last_completed = checklist.last_run
    BY <1>1 DEF ChooseChecklist, Due
  <2> QED
    BY <1>k, <2>1, <2>2 DEF UncompletedInv
<1>2. CASE UpdateSchedule
  <2>1. /\ checklist'.last_completed = checklist.last_completed
        /\ sched = "chosen" /\ sched' = "updated" /\ UNCHANGED queue
    BY <1>2 DEF UpdateSchedule, TypeInv, TypeOK
  <2> QED
    BY <1>k, <2>1 DEF UncompletedInv
<1>3. CASE CreateTasks
  <2>1. /\ queue' = queue \cup {ParentTask(checklist.last_run)}
        /\ UNCHANGED checklist /\ sched = "updated" /\ sched' = "idle"
    BY <1>3 DEF CreateTasks
  <2>2. ParentTask(checklist.last_run).run = checklist.last_run
    BY DEF ParentTask
  <2>3. anomalies' = {} => checklist.last_completed # checklist.last_run
    BY <1>k, <2>1 DEF ExclusionInv, NoOverlap, SchedulerClaims
  <2> QED
    BY <1>k, <2>1, <2>2, <2>3 DEF UncompletedInv
<1>4. CASE AbortSchedule
  BY <1>4, <1>k DEF AbortSchedule, UncompletedInv
<1>5. CASE ScheduleNextRun
  <2>1. /\ checklist'.last_run = checklist.last_run
        /\ checklist'.last_completed = checklist.last_completed
    BY <1>5 DEF ScheduleNextRun, TypeInv, TypeOK
  <2> QED
    BY <1>5, <1>k, <2>1 DEF ScheduleNextRun, UncompletedInv
<1>6. CASE EditDisabled
  BY <1>6, <1>k DEF EditDisabled, UncompletedInv
<1>7. CASE Tick
  <2>1. /\ checklist'.last_run = checklist.last_run
        /\ checklist'.last_completed = checklist.last_completed
        /\ sched' = sched
    BY <1>7 DEF Tick, TypeInv, TypeOK
  <2>2. \A c \in queue' : \E b \in queue : c.run = b.run /\ (Uncompleted(c) <=> Uncompleted(b))
    <3> TAKE c \in queue'
    <3>1. PICK b \in queue : c = Older(b)
      BY <1>7 DEF Tick
    <3>2. b \in Task
      BY DEF TypeInv, TypeOK
    <3> QED
      BY <3>1, <3>2, BodyKinds DEF IsParent, Uncompleted
  <2> QED
    BY <1>k, <2>1, <2>2 DEF UncompletedInv
<1> QED
  BY <1>1, <1>2, <1>3, <1>4, <1>5, <1>6, <1>7 DEF Scheduler

\* Every step keeps UncompletedInv, and moves last_completed forward only.
LEMMA UncompletedStep ==
    ASSUME TypeInv, ExclusionInv, UncompletedInv, [Next]_vars
    PROVE  /\ UncompletedInv'
           /\ anomalies' = {} => checklist'.last_completed >= checklist.last_completed
<1> SUFFICES ASSUME anomalies' = {}
             PROVE  /\ UncompletedInv'
                    /\ checklist'.last_completed >= checklist.last_completed
  BY DEF UncompletedInv
<1>n. /\ checklist.last_run \in Nat /\ checklist.last_completed \in Nat
      /\ checklist.last_completed >= checklist.last_completed
  BY RunNumbers
<1>1. ASSUME anomalies = {}, UNCHANGED <<checklist, sched>>,
             \A c \in queue' : Uncompleted(c) =>
                \E b \in queue : Uncompleted(b) /\ c.run = b.run
      PROVE  /\ UncompletedInv'
             /\ checklist'.last_completed >= checklist.last_completed
  BY <1>1, <1>n DEF UncompletedInv
<1>2. ASSUME anomalies = {}, NEW b \in queue, Uncompleted(b), Complete(b),
             UNCHANGED sched,
             \A c \in queue' : Uncompleted(c) => c \in queue \ {b}
      PROVE  /\ UncompletedInv'
             /\ checklist'.last_completed >= checklist.last_completed
  <2>1. OneParent /\ LastRunWorks /\ b.run = checklist.last_run
    BY <1>2 DEF ExclusionInv, NoOverlap, UncompletedInv
  <2>2. \A c \in queue : Uncompleted(c) => c = b
    BY <1>2, <2>1 DEF UncompletedInv, OneParent, Uncompleted
  <2>3. \A c \in queue' : ~Uncompleted(c)
    BY <1>2, <2>2
  <2>4. checklist'.last_completed = checklist.last_run
    BY <1>2, <2>1 DEF Complete, TypeInv, TypeOK
  <2> QED
    BY <1>2, <1>n, <2>1, <2>3, <2>4 DEF UncompletedInv, LastRunWorks
<1>3. CASE Scheduler \/ ScheduleNextRun \/ EditDisabled \/ Tick
  BY <1>3, <1>n, OutsideUncompleted
<1>4. ASSUME NEW b \in queue, ParentStep(b) \/ ChildStep(b) \/ CommonStep(b)
      PROVE  /\ UncompletedInv'
             /\ checklist'.last_completed >= checklist.last_completed
  <2>1. \A c \in queue' : \/ c \in queue \/ ~IsParent(c)
                          \/ Uncompleted(b) /\ c.run = b.run
    BY <1>4, Successors
  <2>2. \A c \in queue' : Uncompleted(c) =>
           \E d \in queue : Uncompleted(d) /\ c.run = d.run
    BY <2>1 DEF Uncompleted
  <2>3. anomalies = {} /\ UNCHANGED sched
    BY <1>4 DEF ParentStep, ChildStep, CommonStep, InitializeChecklist, InitializeArchive,
      InitializeService, InitializeFolder, CrashInitializing, InitializeRaises,
      WaitTasksResult, WaitTimesOut, WaitRaises, CollectCheckResult, CollectInterrupted,
      CheckArchiveResult, CheckArchiveRaises, UpdateChecklist,
      UpdateChecklistInterrupted, SetSucceeded, SetFailedAmbiguous, StartModule,
      SkipDisabled, ProcessTimesOut, ProcessRaises, Cleanup, SetStarted, StepTimesOut,
      SetFailed, LastStepRaises, PublishFails, Interrupted, CountRedelivery, historyVars
  <2>4. CASE UNCHANGED checklist
    BY <1>1, <2>2, <2>3, <2>4
  <2>5. CASE UpdateChecklist(b)
    <3> DEFINE new == [b EXCEPT !.state = "updated_checklist"]
    <3>1. ~Uncompleted(new)
      BY DEF Uncompleted, TypeInv, TypeOK, Task, Body
    <3>2. /\ Uncompleted(b) /\ Complete(b)
          /\ \A c \in queue' : c \in queue \ {b} \/ c = new
      BY <2>5 DEF UpdateChecklist, Parent, Uncompleted, Republish
    <3> HIDE DEF new
    <3> QED
      BY <1>2, <2>3, <3>1, <3>2
  <2>6. CASE SetFailed(b)
    <3>1. CASE IsParent(b)
      BY <1>2, <2>3, <2>6, <3>1 DEF SetFailed, Uncompleted, Ack
    <3>2. CASE ~IsParent(b)
      BY <1>1, <2>2, <2>3, <2>6, <3>2 DEF SetFailed
    <3> QED
      BY <3>1, <3>2
  <2>7. CASE UpdateChecklistInterrupted(b) \/ SetFailedAmbiguous(b)
    <3>1. UNCHANGED checklist
      BY <2>7 DEF UpdateChecklistInterrupted, Interrupted, SetFailedAmbiguous,
                  CountRedelivery
    <3> QED
      BY <2>4, <3>1
  <2>8. CASE ~(\/ UpdateChecklist(b) \/ SetFailed(b) \/ UpdateChecklistInterrupted(b)
               \/ SetFailedAmbiguous(b))
    <3>1. UNCHANGED checklist
      BY <1>4, <2>8 DEF ParentStep, ChildStep, CommonStep, InitializeChecklist,
        InitializeArchive, InitializeService, InitializeFolder, CrashInitializing,
        InitializeRaises, WaitTasksResult, WaitTimesOut, WaitRaises, CollectCheckResult,
        CollectInterrupted, CheckArchiveResult, CheckArchiveRaises, SetSucceeded,
        StartModule, SkipDisabled, ProcessTimesOut, ProcessRaises, Cleanup, SetStarted,
        StepTimesOut, LastStepRaises, PublishFails
    <3> QED
      BY <2>4, <3>1
  <2> QED
    BY <2>5, <2>6, <2>7, <2>8
<1>5. ASSUME NEW b \in executing, ModuleStep(b)
      PROVE  /\ UncompletedInv'
             /\ checklist'.last_completed >= checklist.last_completed
  <2>1. b \in Task /\ ~IsParent(b)
    BY DEF TypeInv, TypeOK, Child
  <2>2. /\ ~IsParent(Advance(b, "processed")) /\ ~IsParent(HandleException(b))
        /\ ~IsParent(Redelivered(b))
    BY <2>1 DEF IsParent, Advance, HandleException, Redelivered, Task, Body
  <2>3. \A c \in queue' : c \in queue \/ ~IsParent(c)
    BY <1>5, <2>2 DEF ModuleStep, FinishModule, ProcessInterrupted, Interrupted, Republish
  <2>4. anomalies = {} /\ UNCHANGED <<checklist, sched>>
    BY <1>5 DEF ModuleStep, FinishModule, ProcessInterrupted, Interrupted,
                CountRedelivery, historyVars
  <2> QED
    BY <1>1, <2>3, <2>4 DEF Uncompleted
<1>6. CASE \E b \in queue \cup executing : Redeliver(b)
  BY <1>6 DEF Redeliver, CountRedelivery
<1>7. CASE UNCHANGED vars
  BY <1>7, <1>n DEF vars, UncompletedInv
<1> QED
  BY <1>3, <1>4, <1>5, <1>6, <1>7 DEF Next, Worker

(***************************************************************************)
(* The recommendations rest_api shows are never replaced by those of an    *)
(* older run: whatever fails or is retried, last_completed goes forward    *)
(* as long as no stuck checklist is rescheduled, nothing is delivered      *)
(* twice and no applied update is reported as failed.                      *)
(***************************************************************************)
THEOREM CompletionMovesForward == Spec => CompletionNeverRegresses
<1>1. Spec => [](TypeInv /\ ExclusionInv /\ UncompletedInv)
  BY TypeInit, TypeStep, ExclusionInit, ExclusionStep, UncompletedInit,
     UncompletedStep, PTL DEF Spec
<1>2. TypeInv /\ ExclusionInv /\ UncompletedInv /\ [Next]_vars
        => [anomalies' = {} =>
              checklist'.last_completed >= checklist.last_completed]_vars
  BY UncompletedStep
<1> QED
  BY <1>1, <1>2, PTL DEF Spec, CompletionNeverRegresses

-----------------------------------------------------------------------------
(* The archive modules.  ArchiveErrorsStopRun looks at results that other   *)
(* messages write: it stays true after the check because then no archive    *)
(* child of the run is left that could still write one.  WaitArchive only   *)
(* counts files, so the invariant relates the files and the children still  *)
(* at work to the modules that InitializeArchive started.                   *)

\* Nothing was delivered twice and no stored result was reported as failed.
NothingRepeated == anomalies \cap {"redelivered", "ambiguous"} = {}

\* A child of the archive that has yet to leave its result.
AtWork(m) == ~IsParent(m) /\ m.module_type = "archive" /\ m.state \in {"created", "started"}
ChildrenAtWork == {m \in queue \cup executing : AtWork(m)}
ModulesAtWork(r) == {m \in Modules : \E c \in ChildrenAtWork : c.run = r /\ c.module = m}
ArchiveFiles(r) == Present(r, "archive")

BeforeArchive ==
    {"created", "started", "initialized_checklist", "waited_checklist",
     "collected_check_result"}
AfterCheck ==
    {"check_archive_result", "initialized_service", "waited_service",
     "updated_checklist"}

\* What the state of a parent task says of the archive, the check of the runs in U
\* having raised.
ArchiveFits(p, U) ==
    /\ p.state \in BeforeArchive =>
          ModulesAtWork(p.run) = {} /\ ArchiveFiles(p.run) = {}
    /\ p.state = "initialized_archive" =>
          \E P \in SUBSET Modules :
             /\ Cardinality(P) = p.children_count
             /\ ModulesAtWork(p.run) \cup ArchiveFiles(p.run) \subseteq P
    /\ p.state \in AfterCheck \cup {"waited_archive"} => ModulesAtWork(p.run) = {}
    /\ p.state \in AfterCheck /\ p.run \notin U =>
          \A m \in Modules : s3[<<p.run, "archive", m>>] \in {Absent, "data"}

\* A run whose parent task was not published yet.
Unpublished(r) ==
    r > checklist.last_run \/ (sched = "updated" /\ r = checklist.last_run)

ParentsApart ==
    \A b, c \in queue : IsParent(b) /\ IsParent(c) /\ b.run = c.run => b = c

UnpublishedEmpty ==
    \A r \in Runs : Unpublished(r) =>
        /\ \A b \in queue : IsParent(b) => b.run # r
        /\ ModulesAtWork(r) = {} /\ ArchiveFiles(r) = {}

\* One child works for a module of a run, and the module has no result yet.
ChildrenApart ==
    /\ \A c, d \in ChildrenAtWork : c.run = d.run /\ c.module = d.module => c = d
    /\ \A c \in queue \cap executing : ~AtWork(c)
    /\ \A c \in ChildrenAtWork : c.module \notin ArchiveFiles(c.run)

ParentsFit == \A p \in queue : IsParent(p) => ArchiveFits(p, unchecked)

ArchiveClaims == ParentsApart /\ UnpublishedEmpty /\ ChildrenApart /\ ParentsFit
ArchiveInv == NothingRepeated => ArchiveClaims

\* The inductive invariant gives the property.
LEMMA ArchiveImplies == ArchiveInv => ArchiveErrorsStopRun
BY DEF ArchiveInv, ArchiveClaims, ParentsFit, ArchiveFits, NothingRepeated, AfterCheck,
       ArchiveErrorsStopRun, ResultOf

\* Before the first run there is no task and no file.
LEMMA ArchiveInit == Init => ArchiveInv
BY DEF Init, ArchiveInv, ArchiveClaims, ParentsApart, UnpublishedEmpty, ChildrenApart,
       ParentsFit, ModulesAtWork, ChildrenAtWork, ArchiveFiles, Present, Keys, Folders

\* The modules at work only become fewer, and a file is written for one of them.
ArchiveShrinks ==
    \A r \in Runs :
        /\ ModulesAtWork(r)' \subseteq ModulesAtWork(r)
        /\ \A m \in Modules :
              \/ s3'[<<r, "archive", m>>] \in {Absent, s3[<<r, "archive", m>>]}
              \/ m \in ModulesAtWork(r)

\* What held of a run's files and modules still does.
LEMMA FilesKept ==
    ASSUME ArchiveShrinks, NEW r \in Runs
    PROVE  /\ ArchiveFiles(r)' \subseteq ArchiveFiles(r) \cup ModulesAtWork(r)
           /\ ModulesAtWork(r) = {} =>
                 /\ ModulesAtWork(r)' = {}
                 /\ \A m \in Modules :
                       s3'[<<r, "archive", m>>] \in {Absent, s3[<<r, "archive", m>>]}
BY DEF ArchiveShrinks, ArchiveFiles, Present

LEMMA FitsKept ==
    ASSUME ArchiveShrinks, NEW p, p.run \in Runs, NEW U, U \subseteq unchecked',
           ArchiveFits(p, U)
    PROVE  ArchiveFits(p, unchecked)'
<1>1. /\ ArchiveFiles(p.run)' \subseteq ArchiveFiles(p.run) \cup ModulesAtWork(p.run)
      /\ ModulesAtWork(p.run)' \subseteq ModulesAtWork(p.run)
      /\ ModulesAtWork(p.run) = {} =>
            /\ ModulesAtWork(p.run)' = {}
            /\ \A m \in Modules : s3'[<<p.run, "archive", m>>]
                                     \in {Absent, s3[<<p.run, "archive", m>>]}
  BY FilesKept DEF ArchiveShrinks
<1>2. ASSUME p.state = "initialized_archive"
      PROVE  \E P \in SUBSET Modules :
                /\ Cardinality(P) = p.children_count
                /\ ModulesAtWork(p.run)' \cup ArchiveFiles(p.run)' \subseteq P
  BY <1>1, <1>2 DEF ArchiveFits
<1>3. p.state \in BeforeArchive =>
         ModulesAtWork(p.run)' = {} /\ ArchiveFiles(p.run)' = {}
  BY <1>1 DEF ArchiveFits
<1>4. p.state \in AfterCheck \cup {"waited_archive"} => ModulesAtWork(p.run)' = {}
  BY <1>1 DEF ArchiveFits
<1>5. p.state \in AfterCheck /\ p.run \notin unchecked' =>
         \A m \in Modules : s3'[<<p.run, "archive", m>>] \in {Absent, "data"}
  BY <1>1 DEF ArchiveFits
<1> QED
  BY <1>2, <1>3, <1>4, <1>5 DEF ArchiveFits

\* A task with another body of the same state, or in error.
LEMMA FitsLike ==
    ASSUME NEW p, NEW c, NEW U, ArchiveFits(p, U), c.run = p.run,
           \/ c.state = p.state /\ c.children_count = p.children_count
           \/ c.state = "error"
    PROVE  ArchiveFits(c, U)
BY DEF ArchiveFits, BeforeArchive, AfterCheck

\* Unpublished runs stay empty while none is published anew.
LEMMA UnpublishedKept ==
    ASSUME UnpublishedEmpty, ArchiveShrinks,
           \A r \in Runs : Unpublished(r)' => Unpublished(r),
           \A c \in queue' : IsParent(c) => \E b \in queue : IsParent(b) /\ b.run = c.run
    PROVE  UnpublishedEmpty'
BY FilesKept DEF UnpublishedEmpty, ArchiveShrinks

\* What a message's handler makes of its message b: at most one message, new, of
\* the same key, in the queue (Q) or in a worker (E), and other messages C that
\* are neither parents nor archive children at work.
Handled(b, new, Q, E, C) ==
    /\ new.run = b.run /\ new.module = b.module /\ new.module_type = b.module_type
    /\ AtWork(new) => AtWork(b)
    /\ Q \cup E \subseteq {new} /\ Q \cap E = {}
    /\ \A c \in C : ~IsParent(c) /\ ~AtWork(c)
    /\ queue' \subseteq queue \cup Q \cup C
    /\ executing' \subseteq executing \cup E
    /\ b \in queue' => b \in Q \/ ~(IsParent(b) \/ AtWork(b))
    /\ b \in executing' => b \in E \/ ~AtWork(b)

\* The files of the archive are deleted or left alone, but for the one of a child
\* that is done.
FilesWritten(b, new) ==
    \A r \in Runs, m \in Modules :
        \/ s3'[<<r, "archive", m>>] \in {Absent, s3[<<r, "archive", m>>]}
        \/ AtWork(b) /\ ~AtWork(new) /\ r = b.run /\ m = b.module

LEMMA HandledChildren ==
    ASSUME TypeInv, TypeInv', ChildrenApart, NEW b \in queue \cup executing, NEW new,
           NEW Q, NEW E, NEW C, Handled(b, new, Q, E, C), FilesWritten(b, new)
    PROVE  ChildrenApart' /\ ArchiveShrinks
<1>t. \A c \in (queue \cup executing) \cup (queue' \cup executing') :
         /\ c.run \in Runs
         /\ AtWork(c) => c.module \in Modules
  BY DEF TypeInv, TypeOK, Task, Body, AtWork, IsParent
<1>1. \A c \in ChildrenAtWork' :
         \/ c \in ChildrenAtWork /\ c # b
         \/ c = new /\ b \in ChildrenAtWork
  BY DEF ChildrenAtWork, Handled, AtWork, IsParent
<1>k. new.run = b.run /\ new.module = b.module
  BY DEF Handled
<1>2. \A r \in Runs : ModulesAtWork(r)' \subseteq ModulesAtWork(r)
  BY <1>1, <1>k DEF ModulesAtWork
<1>3. ArchiveShrinks
  <2>1. ASSUME NEW r \in Runs, NEW m \in Modules, AtWork(b), r = b.run, m = b.module
        PROVE  m \in ModulesAtWork(r)
    BY <2>1 DEF ModulesAtWork, ChildrenAtWork
  <2> QED
    BY <1>2, <2>1 DEF ArchiveShrinks, FilesWritten
<1>4. \A c, d \in ChildrenAtWork' : c.run = d.run /\ c.module = d.module => c = d
  BY <1>1, <1>k DEF ChildrenApart
<1>5. ASSUME NEW c \in queue' \cap executing', AtWork(c)
      PROVE  FALSE
  <2>1. c \in ChildrenAtWork'
    BY <1>5 DEF ChildrenAtWork
  <2>2. CASE c \in ChildrenAtWork /\ c # b
    <3>1. CASE c = new
      <4>1. b \in ChildrenAtWork
        BY <2>2, <3>1, <1>5 DEF ChildrenAtWork, Handled
      <4> QED
        BY <2>2, <3>1, <4>1, <1>k DEF ChildrenApart
    <3>2. CASE c # new
      BY <2>2, <3>2, <1>5 DEF Handled, ChildrenApart
    <3> QED
      BY <3>1, <3>2
  <2>3. CASE c = new /\ b \in ChildrenAtWork
    <3>1. \A d \in queue \cup executing : d = new => d = b
      BY <2>3, <1>5, <1>k DEF ChildrenApart, ChildrenAtWork
    <3>2. c \in Q \/ c \in queue
      BY <1>5 DEF Handled
    <3>3. c \in E \/ c \in executing
      BY <1>5 DEF Handled
    <3>4. c = b => (c \in Q /\ c \in E)
      BY <1>5, <2>3 DEF Handled
    <3> QED
      BY <2>3, <3>1, <3>2, <3>3, <3>4 DEF Handled
  <2> QED
    BY <1>1, <2>1, <2>2, <2>3
<1>6. ASSUME NEW c \in ChildrenAtWork'
      PROVE  c.module \notin ArchiveFiles(c.run)'
  <2>t. c.run \in Runs /\ c.module \in Modules
    BY <1>t DEF ChildrenAtWork
  <2>1. c.module \notin ArchiveFiles(c.run)
    BY <1>1, <1>k DEF ChildrenApart
  <2>2. s3[<<c.run, "archive", c.module>>] = Absent
    BY <2>1, <2>t DEF ArchiveFiles, Present
  <2>3. ~(AtWork(b) /\ ~AtWork(new) /\ c.run = b.run /\ c.module = b.module)
    BY <1>1 DEF ChildrenAtWork, ChildrenApart
  <2>4. s3'[<<c.run, "archive", c.module>>] = Absent
    BY <2>t, <2>2, <2>3 DEF FilesWritten
  <2> QED
    BY <2>4 DEF ArchiveFiles, Present
<1> QED
  BY <1>3, <1>4, <1>5, <1>6 DEF ChildrenApart

\* A handler keeps the claims, when what it makes of its message fits.
LEMMA HandledClaims ==
    ASSUME TypeInv, TypeInv', ArchiveClaims, NEW b \in queue \cup executing, NEW new,
           NEW Q, NEW E, NEW C, Handled(b, new, Q, E, C), FilesWritten(b, new),
           checklist'.last_run = checklist.last_run, UNCHANGED sched,
           unchecked \subseteq unchecked',
           b \in queue \/ ~IsParent(b),
           IsParent(b) => ArchiveFits(new, unchecked')
    PROVE  ArchiveClaims'
<1>1. ChildrenApart' /\ ArchiveShrinks
  BY HandledChildren DEF ArchiveClaims
<1>2. ASSUME NEW c \in queue', IsParent(c)
      PROVE  \/ c \in queue /\ c # b
             \/ c = new /\ IsParent(b) /\ b \in queue
  BY <1>2 DEF Handled, IsParent
<1>k. new.run = b.run
  BY DEF Handled
<1>3. ParentsApart'
  BY <1>2, <1>k DEF ArchiveClaims, ParentsApart
<1>4. UnpublishedEmpty'
  <2>1. \A r \in Runs : Unpublished(r)' => Unpublished(r)
    BY DEF Unpublished
  <2>2. \A c \in queue' : IsParent(c) => \E d \in queue : IsParent(d) /\ d.run = c.run
    BY <1>2, <1>k
  <2> QED
    BY <1>1, <2>1, <2>2, UnpublishedKept DEF ArchiveClaims
<1>5. ParentsFit'
  <2>1. ASSUME NEW c \in queue', IsParent(c)
        PROVE  ArchiveFits(c, unchecked') \/ ArchiveFits(c, unchecked)
    BY <1>2, <2>1 DEF ArchiveClaims, ParentsFit
  <2>2. \A c \in queue' : c.run \in Runs
    BY DEF TypeInv, TypeOK, Task, Body
  <2>3. ASSUME NEW c \in queue', IsParent(c)
        PROVE  ArchiveFits(c, unchecked)'
    BY <2>1, <2>2, <2>3, <1>1, FitsKept
  <2> QED
    BY <2>3 DEF ParentsFit
<1> QED
  BY <1>1, <1>3, <1>4, <1>5 DEF ArchiveClaims

\* A parent message replaced by new, beside children of other folders.
LEMMA ParentHandled ==
    ASSUME TypeInv, TypeInv', ArchiveClaims, NEW b \in queue, IsParent(b), NEW new, NEW C,
           new.run = b.run, new.module = b.module, new.module_type = b.module_type,
           queue' \subseteq (queue \ {b}) \cup {new} \cup C,
           \A c \in C : ~IsParent(c) /\ ~AtWork(c),
           UNCHANGED <<executing, s3, sched>>,
           checklist'.last_run = checklist.last_run, unchecked \subseteq unchecked',
           ArchiveFits(new, unchecked')
    PROVE  ArchiveClaims'
<1> DEFINE Q == {new}
           E == {}
<1>1. ~AtWork(b) /\ ~AtWork(new)
  BY DEF AtWork, IsParent
<1>2. b \in queue' => b \in Q
  BY <1>1
<1>3. Handled(b, new, Q, E, C)
  BY <1>1, <1>2 DEF Handled
<1>4. FilesWritten(b, new)
  BY DEF FilesWritten
<1> HIDE DEF Q, E
<1> QED
  BY <1>3, <1>4, HandledClaims

\* A parent message leaves the queue or stays in it.
LEMMA ParentAcked ==
    ASSUME TypeInv, TypeInv', ArchiveClaims, NEW b \in queue, IsParent(b),
           Ack(b) \/ UNCHANGED queue,
           UNCHANGED <<executing, s3, sched>>,
           checklist'.last_run = checklist.last_run, UNCHANGED unchecked
    PROVE  ArchiveClaims'
<1>0. PICK C : C = {}
  OBVIOUS
<1>1. queue' \subseteq (queue \ {b}) \cup {b} \cup C
  BY DEF Ack
<1>2. \A c \in C : ~IsParent(c) /\ ~AtWork(c)
  BY <1>0
<1>3. ArchiveFits(b, unchecked') /\ unchecked \subseteq unchecked'
  BY DEF ArchiveClaims, ParentsFit
<1> QED
  BY <1>1, <1>2, <1>3, ParentHandled

\* A child message replaced by new.
LEMMA ChildHandled ==
    ASSUME TypeInv, TypeInv', ArchiveClaims, NEW b \in queue \cup executing, ~IsParent(b),
           NEW new,
           new.run = b.run, new.module = b.module, new.module_type = b.module_type,
           AtWork(new) => AtWork(b),
           queue' \subseteq queue \cup {new},
           b \in queue' => b = new \/ ~AtWork(b),
           \/ executing' = executing \ {b}
           \/ b \in queue /\ executing' = executing,
           FilesWritten(b, new),
           UNCHANGED <<checklist, sched, unchecked>>
    PROVE  ArchiveClaims'
<1> DEFINE Q == {new}
           E == {}
           C == {}
<1>1. ChildrenApart
  BY DEF ArchiveClaims
<1>2. b \in executing' => ~AtWork(b)
  BY <1>1 DEF ChildrenApart
<1>3. Handled(b, new, Q, E, C)
  BY <1>2 DEF Handled
<1> HIDE DEF Q, E, C
<1> QED
  BY <1>3, HandledClaims

\* InitializeArchive publishes the children of a run that had none.
LEMMA ArchiveStarts ==
    ASSUME TypeInv, TypeInv', ArchiveClaims, NEW b \in queue, InitializeArchive(b)
    PROVE  ArchiveClaims'
<1>t. b \in Task /\ b.run \in Runs
  BY DEF TypeInv, TypeOK, Task, Body
<1> DEFINE r == b.run
<1>0. PICK S \in SUBSET Modules : S = list_modules("archive")
  BY ListedModules DEF Folders
<1> DEFINE K == Children(b, "archive", S)
           new == [Advance(b, "initialized_archive") EXCEPT !.children_count = Cardinality(S)]
<1>1. /\ queue' = (queue \ {b}) \cup K \cup {new}
      /\ UNCHANGED <<checklist, sched, executing, s3, unchecked>>
      /\ IsParent(b) /\ b.state = "collected_check_result"
  BY <1>0 DEF InitializeArchive, InitializeFolder, Parent, worldVars, historyVars
<1>2. /\ new.run = r /\ new.module = b.module /\ new.state = "initialized_archive"
      /\ new.children_count = Cardinality(S)
  BY <1>t DEF Advance, Task, Body
<1>3. \A c \in K : /\ ~IsParent(c) /\ c.run = r /\ c.module \in S
                   /\ c.module_type = "archive" /\ c.state = "created"
  BY ModulesAssumption DEF Children, ChildTask, IsParent
<1>4. \A c, d \in K : c.module = d.module => c = d
  BY DEF Children, ChildTask
<1>5. ModulesAtWork(r) = {} /\ ArchiveFiles(r) = {}
  BY <1>1 DEF ArchiveClaims, ParentsFit, ArchiveFits, BeforeArchive
<1> HIDE DEF K, new
<1>6. \A c \in K : AtWork(c)
  BY <1>3 DEF AtWork
<1>7. ~AtWork(new) /\ ~AtWork(b) /\ IsParent(new)
  BY <1>1, <1>2 DEF AtWork, IsParent
<1>8. ChildrenAtWork' = ChildrenAtWork \cup K
  BY <1>1, <1>6, <1>7 DEF ChildrenAtWork
<1>9. \A c \in ChildrenAtWork : c.run # r /\ c.run \in Runs /\ c.module \in Modules
  <2>1. \A c \in ChildrenAtWork : c.run \in Runs /\ c.module \in Modules
    BY DEF ChildrenAtWork, TypeInv, TypeOK, Task, Body, AtWork, IsParent
  <2> QED
    BY <2>1, <1>5 DEF ModulesAtWork
<1>10. ModulesAtWork(r)' \subseteq S /\ ArchiveFiles(r)' = {}
  BY <1>1, <1>3, <1>5, <1>8, <1>9 DEF ModulesAtWork, ArchiveFiles, Present
<1>11. \A q \in Runs \ {r} : ModulesAtWork(q)' = ModulesAtWork(q)
  <2>1. \A c \in ChildrenAtWork' : c.run # r => c \in ChildrenAtWork
    BY <1>3, <1>8
  <2>2. ChildrenAtWork \subseteq ChildrenAtWork'
    BY <1>8
  <2> QED
    BY <2>1, <2>2 DEF ModulesAtWork
<1>12. \A q \in Runs : ArchiveFiles(q)' = ArchiveFiles(q)
  BY <1>1 DEF ArchiveFiles, Present
<1>13. ChildrenApart'
  <2>1. \A c, d \in ChildrenAtWork' : c.run = d.run /\ c.module = d.module => c = d
    BY <1>3, <1>4, <1>8, <1>9 DEF ArchiveClaims, ChildrenApart
  <2>2. \A c \in queue' \cap executing' : ~AtWork(c)
    <3>1. ASSUME NEW c \in K, c \in executing  PROVE FALSE
      BY <3>1, <1>3, <1>6, <1>9 DEF ChildrenAtWork
    <3> QED
      BY <1>1, <1>7, <3>1 DEF ArchiveClaims, ChildrenApart
  <2>3. \A c \in ChildrenAtWork' : c.module \notin ArchiveFiles(c.run)'
    BY <1>3, <1>8, <1>9, <1>10, <1>12 DEF ArchiveClaims, ChildrenApart
  <2> QED
    BY <2>1, <2>2, <2>3 DEF ChildrenApart
<1>14. \A c \in queue' : IsParent(c) => c = new \/ c \in queue \ {b}
  <2>1. queue' = (queue \ {b}) \cup K \cup {new}
    BY <1>1
  <2>2. \A c \in K : ~IsParent(c)
    BY <1>3
  <2> QED
    BY <2>1, <2>2
<1>15. \A c \in queue : IsParent(c) /\ c # b => c.run # r
  BY <1>1 DEF ArchiveClaims, ParentsApart
<1>16. ParentsApart'
  BY <1>2, <1>14, <1>15 DEF ArchiveClaims, ParentsApart
<1>17. UnpublishedEmpty'
  <2>1. ~Unpublished(r)
    BY <1>t, <1>1 DEF ArchiveClaims, UnpublishedEmpty
  <2>2. \A q \in Runs : Unpublished(q)' => Unpublished(q) /\ q # r
    BY <1>1, <2>1 DEF Unpublished
  <2> QED
    BY <2>2, <1>2, <1>11, <1>12, <1>14 DEF ArchiveClaims, UnpublishedEmpty
<1>18. ParentsFit'
  <2>1. ArchiveFits(new, unchecked)'
    BY <1>2, <1>10 DEF ArchiveFits, BeforeArchive, AfterCheck
  <2>2. ASSUME NEW c \in queue, IsParent(c), c # b
        PROVE  ArchiveFits(c, unchecked)'
    <3>1. c.run \in Runs /\ c.run # r
      BY <2>2, <1>15 DEF TypeInv, TypeOK, Task, Body
    <3>2. ArchiveFits(c, unchecked)
      BY <2>2 DEF ArchiveClaims, ParentsFit
    <3> QED
      BY <1>1, <1>11, <1>12, <3>1, <3>2 DEF ArchiveFits
  <2> QED
    BY <1>14, <2>1, <2>2 DEF ParentsFit
<1> QED
  BY <1>13, <1>16, <1>17, <1>18 DEF ArchiveClaims

\* The scheduler, the clock and the outside events.
LEMMA OutsideArchive ==
    ASSUME TypeInv, TypeInv', ArchiveClaims,
           Scheduler \/ ScheduleNextRun \/ EditDisabled \/ Tick
    PROVE  ArchiveClaims'
<1>s. UNCHANGED <<s3, unchecked>>
  BY DEF Scheduler, ChooseChecklist, UpdateSchedule, CreateTasks, AbortSchedule,
         ScheduleNextRun, EditDisabled, Tick, historyVars, worldVars
<1>f. \A r \in Runs : ArchiveFiles(r)' = ArchiveFiles(r)
  BY <1>s DEF ArchiveFiles, Present
<1>q. ASSUME UNCHANGED <<queue, executing>>,
             \A r \in Runs : Unpublished(r)' => Unpublished(r)
      PROVE  ArchiveClaims'
  <2>1. ChildrenAtWork' = ChildrenAtWork /\ \A r : ModulesAtWork(r)' = ModulesAtWork(r)
    BY <1>q DEF ChildrenAtWork, ModulesAtWork
  <2>2. ChildrenApart'
    BY <1>q, <1>s, <2>1 DEF ArchiveClaims, ChildrenApart, ArchiveFiles, Present
  <2>3. ArchiveShrinks
    BY <1>s, <2>1 DEF ArchiveShrinks
  <2>4. \A p \in queue : p.run \in Runs
    BY DEF TypeInv, TypeOK, Task, Body
  <2>5. ParentsFit'
    BY <1>q, <1>s, <2>3, <2>4, FitsKept DEF ArchiveClaims, ParentsFit
  <2>6. UnpublishedEmpty'
    BY <1>q, <2>3, UnpublishedKept DEF ArchiveClaims
  <2> QED
    BY <1>q, <2>2, <2>5, <2>6 DEF ArchiveClaims, ParentsApart
<1>n. checklist.last_run \in Nat /\ Runs \subseteq Nat
  BY RunNumbers DEF Runs
<1>1. CASE ChooseChecklist \/ AbortSchedule
  BY <1>1, <1>q DEF ChooseChecklist, AbortSchedule, Unpublished
<1>2. CASE UpdateSchedule
  <2>1. checklist'.last_run = checklist.last_run + 1 /\ UNCHANGED <<queue, executing>>
    BY <1>2 DEF UpdateSchedule, TypeInv, TypeOK
  <2> QED
    BY <2>1, <1>n, <1>q DEF Unpublished
<1>3. CASE CreateTasks
  <2>0. PICK r, p : r = checklist.last_run /\ p = ParentTask(r)
    OBVIOUS
  <2>1. p.run = r /\ p.state = "created" /\ IsParent(p) /\ ~AtWork(p)
    BY <2>0 DEF ParentTask, IsParent, AtWork
  <2>2. /\ queue' = queue \cup {p} /\ UNCHANGED <<checklist, executing>>
        /\ sched = "updated" /\ sched' = "idle"
    BY <1>3, <2>0 DEF CreateTasks
  <2>3. r \in Runs
    BY <2>1, <2>2 DEF TypeInv, TypeOK, Task, Body
  <2>4. /\ \A b \in queue : IsParent(b) => b.run # r
        /\ ModulesAtWork(r) = {} /\ ArchiveFiles(r) = {}
    BY <2>0, <2>2, <2>3 DEF ArchiveClaims, UnpublishedEmpty, Unpublished
  <2>5. ChildrenAtWork' = ChildrenAtWork
    BY <2>1, <2>2 DEF ChildrenAtWork
  <2>6. \A q : ModulesAtWork(q)' = ModulesAtWork(q)
    BY <2>5 DEF ModulesAtWork
  <2>7. ChildrenApart'
    BY <1>s, <2>1, <2>2, <2>5 DEF ArchiveClaims, ChildrenApart, ArchiveFiles, Present
  <2>8. ArchiveShrinks
    BY <1>s, <2>6 DEF ArchiveShrinks
  <2>9. ParentsApart'
    BY <2>1, <2>2, <2>4 DEF ArchiveClaims, ParentsApart
  <2>10. UnpublishedEmpty'
    <3>1. \A q \in Runs : Unpublished(q)' => Unpublished(q) /\ q # r
      BY <2>0, <2>2, <1>n DEF Unpublished
    <3> QED
      BY <3>1, <2>1, <2>2, <2>6, <1>f DEF ArchiveClaims, UnpublishedEmpty
  <2>11. ArchiveFits(p, unchecked)'
    BY <2>1, <2>3, <2>4, <2>6, <1>f DEF ArchiveFits, BeforeArchive, AfterCheck
  <2>12. ParentsFit'
    <3>1. \A c \in queue : c.run \in Runs
      BY DEF TypeInv, TypeOK, Task, Body
    <3> QED
      BY <1>s, <2>2, <2>8, <2>11, <3>1, FitsKept DEF ArchiveClaims, ParentsFit
  <2> QED
    BY <2>7, <2>9, <2>10, <2>12 DEF ArchiveClaims
<1>4. CASE ScheduleNextRun \/ EditDisabled
  <2>1. checklist'.last_run = checklist.last_run /\ UNCHANGED <<queue, executing, sched>>
    BY <1>4 DEF ScheduleNextRun, EditDisabled, TypeInv, TypeOK
  <2> QED
    BY <2>1, <1>q DEF Unpublished
<1>5. CASE Tick
  <2>1. /\ checklist'.last_run = checklist.last_run /\ UNCHANGED sched
        /\ queue' = {Older(b) : b \in queue} /\ executing' = {Older(b) : b \in executing}
    BY <1>5 DEF Tick, TypeInv, TypeOK
  <2>2. \A b \in queue \cup executing :
           /\ Older(b).run = b.run /\ Older(b).module = b.module /\ b.run \in Runs
           /\ AtWork(Older(b)) <=> AtWork(b)
           /\ IsParent(Older(b)) <=> IsParent(b)
           /\ Older(b).state = b.state /\ Older(b).children_count = b.children_count
    <3> TAKE b \in queue \cup executing
    <3>1. b \in Task
      BY DEF TypeInv, TypeOK
    <3>2. /\ Older(b).run = b.run /\ Older(b).module = b.module
          /\ Older(b).module_type = b.module_type /\ b.run \in Runs
          /\ Older(b).state = b.state /\ Older(b).children_count = b.children_count
      BY <3>1 DEF Older, Task, Body
    <3> QED
      BY <3>2 DEF AtWork, IsParent
  <2>3. \A c \in ChildrenAtWork' : \E b \in ChildrenAtWork : c = Older(b)
    BY <2>1, <2>2 DEF ChildrenAtWork
  <2>4. \A b \in ChildrenAtWork : Older(b).run = b.run /\ Older(b).module = b.module
    BY <2>2 DEF ChildrenAtWork
  <2>5. \A r \in Runs : ModulesAtWork(r)' \subseteq ModulesAtWork(r)
    BY <2>3, <2>4 DEF ModulesAtWork
  <2>6. ArchiveShrinks
    BY <1>s, <2>5 DEF ArchiveShrinks
  <2>7. ChildrenApart'
    <3>1. \A c, d \in ChildrenAtWork' : c.run = d.run /\ c.module = d.module => c = d
      BY <2>3, <2>4 DEF ArchiveClaims, ChildrenApart
    <3>2. ASSUME NEW c \in queue' \cap executing', AtWork(c)
          PROVE  FALSE
      <4>1. PICK b \in queue, d \in executing : c = Older(b) /\ c = Older(d)
        BY <2>1
      <4>2. /\ b.run = d.run /\ b.module = d.module
            /\ b \in ChildrenAtWork /\ d \in ChildrenAtWork /\ AtWork(b)
        BY <2>2, <3>2, <4>1 DEF ChildrenAtWork
      <4>3. b = d
        BY <4>2 DEF ArchiveClaims, ChildrenApart
      <4>4. b \in queue \cap executing
        BY <4>1, <4>3
      <4>5. \A e \in queue \cap executing : ~AtWork(e)
        BY DEF ArchiveClaims, ChildrenApart
      <4> QED
        BY <4>2, <4>4, <4>5
    <3>3. ASSUME NEW c \in ChildrenAtWork'
          PROVE  c.module \notin ArchiveFiles(c.run)'
      <4>1. PICK b \in ChildrenAtWork : c = Older(b)
        BY <2>3
      <4>2. c.run = b.run /\ c.module = b.module /\ b.run \in Runs
        BY <4>1, <2>2, <2>4 DEF ChildrenAtWork
      <4>3. b.module \notin ArchiveFiles(b.run)
        BY DEF ArchiveClaims, ChildrenApart
      <4> QED
        BY <4>2, <4>3, <1>f
    <3> QED
      BY <3>1, <3>2, <3>3 DEF ChildrenApart
  <2>8. ParentsApart'
    <3>1. ASSUME NEW c \in queue', NEW d \in queue', IsParent(c), IsParent(d),
                 c.run = d.run
          PROVE  c = d
      <4>1. PICK b \in queue : c = Older(b)
        BY <2>1
      <4>2. PICK e \in queue : d = Older(e)
        BY <2>1
      <4> QED
        BY <2>2, <3>1, <4>1, <4>2 DEF ArchiveClaims, ParentsApart
    <3> QED
      BY <3>1 DEF ParentsApart
  <2>9. UnpublishedEmpty'
    <3>1. \A c \in queue' : IsParent(c) => \E b \in queue : IsParent(b) /\ b.run = c.run
      BY <2>1, <2>2
    <3> QED
      BY <2>1, <2>6, <3>1, UnpublishedKept DEF ArchiveClaims, Unpublished
  <2>10. ParentsFit'
    <3>1. ASSUME NEW b \in queue, IsParent(b)
          PROVE  ArchiveFits(Older(b), unchecked)'
      <4>1. ArchiveFits(Older(b), unchecked)
        BY <2>2, <3>1, FitsLike DEF ArchiveClaims, ParentsFit
      <4>2. Older(b).run \in Runs /\ unchecked \subseteq unchecked'
        BY <1>s, <2>2
      <4> QED
        BY <2>6, <4>1, <4>2, FitsKept
    <3> QED
      BY <2>1, <2>2, <3>1 DEF ParentsFit
  <2> QED
    BY <2>7, <2>8, <2>9, <2>10 DEF ArchiveClaims
<1> QED
  BY <1>1, <1>2, <1>3, <1>4, <1>5 DEF Scheduler

\* The steps of parent tasks.
LEMMA ParentArchive ==
    ASSUME TypeInv, TypeInv', ArchiveClaims, NEW b \in queue, ParentStep(b),
           NothingRepeated'
    PROVE  ArchiveClaims'
<1>t. b \in Task /\ b.run \in Runs /\ (IsParent(b) => ArchiveFits(b, unchecked))
  BY DEF TypeInv, TypeOK, Task, Body, ArchiveClaims, ParentsFit
<1> DEFINE SameKey(c) == /\ c.run = b.run /\ c.module = b.module
                         /\ c.module_type = b.module_type
<1> HIDE DEF SameKey
<1>k. /\ \A state : SameKey(Advance(b, state)) /\ Advance(b, state).state = state
      /\ \A state, n : /\ SameKey([Advance(b, state) EXCEPT !.children_count = n])
                       /\ [Advance(b, state) EXCEPT !.children_count = n].state = state
      /\ SameKey(HandleException(b)) /\ SameKey(GiveUp(b))
      /\ SameKey([GiveUp(b) EXCEPT !.age = 0])
      /\ SameKey([HandleException(b) EXCEPT !.age = 0])
      /\ [GiveUp(b) EXCEPT !.age = 0].state = "error"
      /\ \A state : /\ SameKey([b EXCEPT !.state = state])
                    /\ [b EXCEPT !.state = state].state = state
                    /\ SameKey(HandleException([b EXCEPT !.state = state]))
                    /\ HandleException([b EXCEPT !.state = state]).state \in {state, "error"}
  BY <1>t DEF Task, Body, Advance, HandleException, GiveUp, SameKey
<1>x. ASSUME NEW c \in {HandleException(b), [HandleException(b) EXCEPT !.age = 0]}
      PROVE  \/ c.state = b.state /\ c.children_count = b.children_count
             \/ c.state = "error"
  BY <1>t DEF Task, Body, HandleException
<1>1. ASSUME NEW new, NEW C, IsParent(b), SameKey(new),
             queue' \subseteq (queue \ {b}) \cup {new} \cup C,
             \A c \in C : ~IsParent(c) /\ ~AtWork(c),
             UNCHANGED <<executing, s3, sched>>,
             checklist'.last_run = checklist.last_run,
             unchecked \subseteq unchecked',
             ArchiveFits(new, unchecked')
      PROVE  ArchiveClaims'
  BY <1>1, ParentHandled DEF SameKey
<1>2. ASSUME NEW new, IsParent(b), SameKey(new), Republish(b, new),
             UNCHANGED <<executing, s3, sched>>,
             checklist'.last_run = checklist.last_run,
             unchecked \subseteq unchecked',
             ArchiveFits(new, unchecked')
      PROVE  ArchiveClaims'
  <2>0. PICK C : C = {}
    OBVIOUS
  <2>1. queue' \subseteq (queue \ {b}) \cup {new} \cup C
    BY <1>2 DEF Republish
  <2>2. \A c \in C : ~IsParent(c) /\ ~AtWork(c)
    BY <2>0
  <2> QED
    BY <1>1, <1>2, <2>1, <2>2
<1>3. ASSUME NEW new \in {HandleException(b), [HandleException(b) EXCEPT !.age = 0],
                          [GiveUp(b) EXCEPT !.age = 0], Advance(b, "error")},
             IsParent(b)
      PROVE  SameKey(new) /\ ArchiveFits(new, unchecked)
  <2>1. SameKey(new)
    BY <1>3, <1>k
  <2>2. \/ new.state = b.state /\ new.children_count = b.children_count
        \/ new.state = "error"
    BY <1>3, <1>k, <1>x
  <2>3. new.run = b.run
    BY <2>1 DEF SameKey
  <2> QED
    BY <1>3, <1>t, <2>1, <2>2, <2>3, FitsLike
<1>4. ASSUME NEW new \in {HandleException(b), [HandleException(b) EXCEPT !.age = 0],
                          [GiveUp(b) EXCEPT !.age = 0], Advance(b, "error")},
             IsParent(b), Republish(b, new), UNCHANGED <<executing, s3, sched, unchecked>>,
             checklist'.last_run = checklist.last_run
      PROVE  ArchiveClaims'
  <2>1. SameKey(new) /\ ArchiveFits(new, unchecked)
    BY <1>4, <1>3
  <2>2. ArchiveFits(new, unchecked') /\ unchecked \subseteq unchecked'
    BY <1>4, <2>1
  <2> QED
    BY <1>4, <2>1, <2>2, <1>2
<1>5. ASSUME NEW folder \in {"recommendations", "service"}, NEW S \in SUBSET Modules, NEW c,
             c \in Children(b, folder, S)
      PROVE  ~IsParent(c) /\ ~AtWork(c)
  BY <1>5, ChildrenKind DEF Children, ChildTask, AtWork
<1>s. SameKey(b)
  BY DEF SameKey
<1>6. CASE InitializeChecklist(b)
  <2>0. PICK S \in SUBSET Modules : S = list_modules("recommendations")
    BY ListedModules DEF Folders
  <2>1. /\ IsParent(b) /\ b.state = "started"
        /\ UNCHANGED <<checklist, executing, s3, sched, unchecked>>
    BY <1>6 DEF InitializeChecklist, Parent, worldVars
  <2>2. ModulesAtWork(b.run) = {} /\ ArchiveFiles(b.run) = {}
    BY <1>t, <2>1 DEF ArchiveFits, BeforeArchive
  <2>3. ASSUME NEW new, new.run = b.run,
               new.state \in {"waited_service", "initialized_checklist"}
        PROVE  ArchiveFits(new, unchecked')
    BY <1>t, <2>2, <2>3 DEF ArchiveFits, BeforeArchive, AfterCheck, ArchiveFiles, Present
  <2>4. CASE S = {}
    <3>1. Republish(b, Advance(b, "waited_service"))
      BY <1>6, <2>0, <2>4 DEF InitializeChecklist
    <3>2. ArchiveFits(Advance(b, "waited_service"), unchecked')
      BY <1>k, <2>3 DEF SameKey
    <3> QED
      BY <1>k, <1>2, <2>1, <3>1, <3>2
  <2>5. CASE S # {}
    <3>0. PICK new, C : /\ new = [Advance(b, "initialized_checklist")
                                    EXCEPT !.children_count = Cardinality(S)]
                        /\ C = Children(b, "recommendations", S)
      OBVIOUS
    <3>1. queue' \subseteq (queue \ {b}) \cup {new} \cup C
      BY <1>6, <2>0, <2>5, <3>0 DEF InitializeChecklist
    <3>2. SameKey(new) /\ new.state = "initialized_checklist"
      BY <1>k, <3>0
    <3>3. ArchiveFits(new, unchecked')
      BY <3>2, <2>3 DEF SameKey
    <3>4. \A c \in C : ~IsParent(c) /\ ~AtWork(c)
      BY <3>0, <1>5
    <3> QED
      BY <1>1, <2>1, <3>1, <3>2, <3>3, <3>4
  <2> QED
    BY <2>4, <2>5
<1>7. CASE InitializeArchive(b)
  BY <1>7, ArchiveStarts
<1>8. CASE InitializeService(b)
  <2>0. PICK S \in SUBSET Modules : S = list_modules("service")
    BY ListedModules DEF Folders
  <2>1. /\ IsParent(b) /\ b.state = "check_archive_result"
        /\ UNCHANGED <<checklist, executing, s3, sched, unchecked>>
    BY <1>8 DEF InitializeService, InitializeFolder, Parent, worldVars, historyVars
  <2>2. PICK new, C : /\ new = [Advance(b, "initialized_service")
                                  EXCEPT !.children_count = Cardinality(S)]
                      /\ C = Children(b, "service", S)
    OBVIOUS
  <2>3. queue' \subseteq (queue \ {b}) \cup {new} \cup C
    BY <1>8, <2>0, <2>2 DEF InitializeService, InitializeFolder
  <2>4. SameKey(new) /\ new.state = "initialized_service"
    BY <1>k, <2>2
  <2>5. ArchiveFits(new, unchecked')
    BY <1>t, <2>1, <2>4 DEF ArchiveFits, BeforeArchive, AfterCheck, SameKey
  <2>6. \A c \in C : ~IsParent(c) /\ ~AtWork(c)
    BY <2>2, <1>5
  <2> QED
    BY <1>1, <2>1, <2>3, <2>4, <2>5, <2>6
<1>9. CASE InitializeRaises(b)
  BY <1>9, <1>4 DEF InitializeRaises, worldVars, historyVars
<1>10. CASE WaitRaises(b)
  BY <1>10, <1>4 DEF WaitRaises, worldVars, historyVars
<1>11. CASE WaitTimesOut(b)
  BY <1>11, <1>4 DEF WaitTimesOut, worldVars, historyVars
<1>12. CASE WaitTasksResult(b)
  <2>1. /\ IsParent(b) /\ b.state \in WaitSteps
        /\ UNCHANGED <<checklist, executing, s3, sched, unchecked>>
    BY <1>12 DEF WaitTasksResult, worldVars, historyVars
  <2>2. CASE UNCHANGED queue
    <3>1. UNCHANGED <<queue, executing>> /\ ChildrenAtWork' = ChildrenAtWork
      BY <2>1, <2>2 DEF ChildrenAtWork
    <3> QED
      BY <2>1, <3>1
         DEF ArchiveClaims, ParentsApart, UnpublishedEmpty, ChildrenApart, ParentsFit,
             ArchiveFits, ModulesAtWork, ArchiveFiles, Present, Unpublished
  <2>3. CASE /\ Republish(b, Advance(b, WaitedState(b.state)))
             /\ Cardinality(Present(b.run, WaitFolder(b.state))) = b.children_count
    <3>0. PICK new : new = Advance(b, WaitedState(b.state))
      OBVIOUS
    <3>1. SameKey(new) /\ new.state = WaitedState(b.state)
      BY <1>k, <3>0
    <3>2. ArchiveFits(new, unchecked)
      <4>1. CASE b.state \in {"initialized_checklist", "initialized_service"}
        BY <1>t, <2>1, <3>1, <4>1
           DEF ArchiveFits, BeforeArchive, AfterCheck, SameKey, WaitedState
      <4>2. CASE b.state = "initialized_archive"
        <5>1. PICK P \in SUBSET Modules :
                 /\ Cardinality(P) = b.children_count
                 /\ ModulesAtWork(b.run) \cup ArchiveFiles(b.run) \subseteq P
          BY <1>t, <2>1, <4>2 DEF ArchiveFits
        <5>2. Cardinality(ArchiveFiles(b.run)) = Cardinality(P)
          BY <2>3, <4>2, <5>1 DEF WaitFolder, ArchiveFiles
        <5>3. ArchiveFiles(b.run) = P
          BY <5>1, <5>2, ModuleCount, FS_Subset
        <5>4. ModulesAtWork(b.run) \cap ArchiveFiles(b.run) = {}
          BY DEF ArchiveClaims, ChildrenApart, ModulesAtWork
        <5>5. ModulesAtWork(b.run) = {}
          BY <5>1, <5>3, <5>4
        <5> QED
          BY <3>1, <4>2, <5>5
             DEF ArchiveFits, BeforeArchive, AfterCheck, SameKey, WaitedState
      <4> QED
        BY <2>1, <4>1, <4>2 DEF WaitSteps
    <3>3. ArchiveFits(new, unchecked') /\ unchecked \subseteq unchecked'
      BY <2>1, <3>2
    <3> QED
      BY <1>2, <2>1, <2>3, <3>0, <3>1, <3>3
  <2> QED
    BY <1>12, <2>2, <2>3 DEF WaitTasksResult
<1>i. ASSUME NEW flags, Interrupted(b, flags)
      PROVE  Republish(b, HandleException(b)) /\ flags \cap {"redelivered", "ambiguous"} = {}
  BY <1>i DEF Interrupted, CountRedelivery, NothingRepeated
<1>13. CASE CollectCheckResult(b)
  <2>1. /\ IsParent(b) /\ b.state = "waited_checklist"
        /\ UNCHANGED <<checklist, executing, s3, sched, unchecked>>
    BY <1>13 DEF CollectCheckResult, Parent, historyVars
  <2>2. CASE \/ Republish(b, HandleException(b))
             \/ Republish(b, Advance(b, "error"))
    BY <2>1, <2>2, <1>4
  <2>3. CASE Republish(b, Advance(b, "collected_check_result"))
    <3>0. PICK new : new = Advance(b, "collected_check_result")
      OBVIOUS
    <3>1. SameKey(new) /\ new.state = "collected_check_result"
      BY <1>k, <3>0
    <3>2. ArchiveFits(new, unchecked') /\ unchecked \subseteq unchecked'
      BY <1>t, <2>1, <3>1 DEF ArchiveFits, BeforeArchive, AfterCheck, SameKey
    <3> QED
      BY <1>2, <2>1, <2>3, <3>0, <3>1, <3>2
  <2> QED
    BY <1>13, <2>2, <2>3 DEF CollectCheckResult
<1>14. CASE CollectInterrupted(b)
  BY <1>14, <1>4, <1>i DEF CollectInterrupted, Parent
<1>15. CASE CheckArchiveResult(b)
  <2>1. /\ IsParent(b) /\ b.state = "waited_archive"
        /\ UNCHANGED <<checklist, executing, s3, sched, unchecked>>
    BY <1>15 DEF CheckArchiveResult, Parent, worldVars, historyVars
  <2>2. CASE Republish(b, Advance(b, "error"))
    BY <2>1, <2>2, <1>4
  <2>3. CASE /\ Republish(b, Advance(b, "check_archive_result"))
             /\ \A m \in Present(b.run, "archive") :
                   ResultOf(b, "archive", m) \notin {"error", "timeout", "timeout_no_data"}
    <3>0. PICK new : new = Advance(b, "check_archive_result")
      OBVIOUS
    <3>1. SameKey(new) /\ new.state = "check_archive_result"
      BY <1>k, <3>0
    <3>2. \A m \in Modules : s3[<<b.run, "archive", m>>] \in Results \cup {Absent}
      BY <1>t DEF TypeInv, TypeOK, Keys, Folders
    <3>3. \A m \in Modules : s3[<<b.run, "archive", m>>] \in {Absent, "data"}
      BY <2>3, <3>2 DEF Present, ResultOf, Results
    <3>4. ModulesAtWork(b.run) = {}
      BY <1>t, <2>1 DEF ArchiveFits
    <3>5. ArchiveFits(new, unchecked') /\ unchecked \subseteq unchecked'
      BY <2>1, <3>1, <3>3, <3>4 DEF ArchiveFits, BeforeArchive, AfterCheck, SameKey
    <3> QED
      BY <1>2, <2>1, <2>3, <3>0, <3>1, <3>5
  <2> QED
    BY <1>15, <2>2, <2>3 DEF CheckArchiveResult
<1>16. CASE CheckArchiveRaises(b)
  <2>1. /\ IsParent(b) /\ b.state = "waited_archive"
        /\ UNCHANGED <<checklist, executing, s3, sched>>
        /\ unchecked' = unchecked \cup {b.run}
    BY <1>16 DEF CheckArchiveRaises, Parent, worldVars
  <2>2. PICK new : new = HandleException([b EXCEPT !.state = "check_archive_result"])
    OBVIOUS
  <2>3. SameKey(new) /\ new.state \in {"check_archive_result", "error"}
    BY <1>k, <2>2
  <2>4. ModulesAtWork(b.run) = {}
    BY <1>t, <2>1 DEF ArchiveFits
  <2>5. ArchiveFits(new, unchecked')
    BY <2>1, <2>3, <2>4 DEF ArchiveFits, BeforeArchive, AfterCheck, SameKey
  <2>6. Republish(b, new)
    BY <1>16, <2>2 DEF CheckArchiveRaises
  <2> QED
    BY <1>2, <2>1, <2>3, <2>5, <2>6
<1>17. CASE UpdateChecklist(b)
  <2>1. /\ IsParent(b) /\ b.state = "waited_service"
        /\ UNCHANGED <<executing, s3, sched, unchecked>>
        /\ checklist'.last_run = checklist.last_run
    BY <1>17 DEF UpdateChecklist, Complete, Parent, worldVars, historyVars, TypeInv, TypeOK
  <2>2. PICK new : new = [b EXCEPT !.state = "updated_checklist"]
    OBVIOUS
  <2>3. SameKey(new) /\ new.state = "updated_checklist"
    BY <1>k, <2>2
  <2>4. ArchiveFits(new, unchecked') /\ unchecked \subseteq unchecked'
    BY <1>t, <2>1, <2>3 DEF ArchiveFits, BeforeArchive, AfterCheck, SameKey
  <2>5. Republish(b, new)
    BY <1>17, <2>2 DEF UpdateChecklist
  <2> QED
    BY <1>2, <2>1, <2>3, <2>4, <2>5
<1>18. CASE UpdateChecklistInterrupted(b)
  BY <1>18, <1>4, <1>i DEF UpdateChecklistInterrupted, Parent, worldVars
<1>19. CASE SetSucceeded(b)
  <2>1. /\ IsParent(b) /\ Ack(b)
        /\ UNCHANGED <<checklist, executing, s3, sched, unchecked>>
    BY <1>19 DEF SetSucceeded, Parent, worldVars, historyVars
  <2> QED
    BY <1>t, <1>s, <2>1, ParentAcked DEF SameKey
<1>20. CASE CrashInitializing(b) \/ SetFailedAmbiguous(b)
  BY <1>20 DEF CrashInitializing, SetFailedAmbiguous, CountRedelivery, NothingRepeated
<1> QED
  BY <1>6, <1>7, <1>8, <1>9, <1>10, <1>11, <1>12, <1>13, <1>14, <1>15, <1>16, <1>17,
     <1>18, <1>19, <1>20 DEF ParentStep

\* A child message leaves the queue.
LEMMA ChildAcked ==
    ASSUME TypeInv, TypeInv', ArchiveClaims, NEW b \in queue, ~IsParent(b), Ack(b),
           \A r \in Runs, m \in Modules :
              s3'[<<r, "archive", m>>] \in {Absent, s3[<<r, "archive", m>>]},
           UNCHANGED <<checklist, sched, executing, unchecked>>
    PROVE  ArchiveClaims'
<1>1. FilesWritten(b, b)
  BY DEF FilesWritten
<1>2. queue' \subseteq queue \cup {b} /\ b \notin queue'
  BY DEF Ack
<1> QED
  BY <1>1, <1>2, ChildHandled

\* The result of a child that was at work, and is not any more.
LEMMA ResultWritten ==
    ASSUME TypeInv, NEW b \in queue \cup executing, ~IsParent(b), b.state = "started",
           NEW new, ~AtWork(new), NEW result, Upload(b, result)
    PROVE  FilesWritten(b, new)
<1>1. b.module_type = "archive" => AtWork(b)
  BY DEF AtWork
<1>2. s3 = [k \in Keys |-> s3[k]]
  BY DEF TypeInv, TypeOK
<1>3. ASSUME NEW r \in Runs, NEW m \in Modules,
             <<r, "archive", m>> # <<b.run, b.module_type, b.module>>
      PROVE  s3'[<<r, "archive", m>>] = s3[<<r, "archive", m>>]
  BY <1>2, <1>3 DEF Upload, Keys, Folders
<1> QED
  BY <1>1, <1>3 DEF FilesWritten

\* The steps of child tasks that a queued message takes.
LEMMA ChildArchive ==
    ASSUME TypeInv, TypeInv', ArchiveClaims, NEW b \in queue, ChildStep(b)
    PROVE  ArchiveClaims'
<1>t. b \in Task
  BY DEF TypeInv, TypeOK
<1>k. /\ \A state : /\ Advance(b, state).run = b.run
                    /\ Advance(b, state).module = b.module
                    /\ Advance(b, state).module_type = b.module_type
                    /\ Advance(b, state).state = state
      /\ \A c \in {HandleException(b), GiveUp(b)} :
            /\ c.run = b.run /\ c.module = b.module /\ c.module_type = b.module_type
            /\ c.state \in {b.state, "error"}
      /\ GiveUp(b).state = "error"
  BY <1>t DEF Task, Body, Advance, HandleException, GiveUp
<1>1. ASSUME NEW new, ~IsParent(b), b.state = "started", Republish(b, new),
             new.run = b.run, new.module = b.module, new.module_type = b.module_type,
             FilesWritten(b, new), UNCHANGED <<checklist, sched, executing, unchecked>>
      PROVE  ArchiveClaims'
  <2>1. queue' \subseteq queue \cup {new} /\ (b \in queue' => b = new)
    BY <1>1 DEF Republish
  <2>2. AtWork(new) => AtWork(b)
    BY <1>1 DEF AtWork
  <2> QED
    BY <1>1, <2>1, <2>2, ChildHandled
<1>2. CASE StartModule(b)
  <2>0. PICK Q, E, C : Q = {} /\ E = {b} /\ C = {}
    OBVIOUS
  <2>1. /\ ~IsParent(b) /\ queue' = queue \ {b} /\ executing' = executing \cup {b}
        /\ UNCHANGED <<checklist, sched, s3, unchecked>>
    BY <1>2 DEF StartModule, Child, Ack, worldVars, historyVars
  <2>2. Handled(b, b, Q, E, C)
    BY <2>0, <2>1 DEF Handled
  <2>3. FilesWritten(b, b)
    BY <2>1 DEF FilesWritten
  <2> QED
    BY <2>1, <2>2, <2>3, HandledClaims
<1>3. CASE SkipDisabled(b)
  <2>1. /\ ~IsParent(b) /\ b.state = "started" /\ Upload(b, "data")
        /\ Republish(b, Advance(b, "processed"))
        /\ UNCHANGED <<checklist, sched, executing, unchecked>>
    BY <1>3 DEF SkipDisabled, Child, historyVars
  <2>2. ~AtWork(Advance(b, "processed"))
    BY <1>k DEF AtWork
  <2>3. FilesWritten(b, Advance(b, "processed"))
    BY <2>1, <2>2, ResultWritten
  <2> QED
    BY <1>1, <1>k, <2>1, <2>3
<1>4. CASE ProcessTimesOut(b)
  <2>1. /\ ~IsParent(b) /\ b.state = "started" /\ \E result : Upload(b, result)
        /\ Republish(b, GiveUp(b))
        /\ UNCHANGED <<checklist, sched, executing, unchecked>>
    BY <1>4 DEF ProcessTimesOut, Child, historyVars
  <2>2. ~AtWork(GiveUp(b))
    BY <1>k DEF AtWork
  <2>3. FilesWritten(b, GiveUp(b))
    BY <2>1, <2>2, ResultWritten
  <2> QED
    BY <1>1, <1>k, <2>1, <2>3
<1>5. CASE ProcessRaises(b)
  <2>1. /\ ~IsParent(b) /\ b.state = "started" /\ Republish(b, HandleException(b))
        /\ UNCHANGED <<checklist, sched, executing, unchecked, s3>>
    BY <1>5 DEF ProcessRaises, Child, worldVars, historyVars
  <2>2. FilesWritten(b, HandleException(b))
    BY <2>1 DEF FilesWritten
  <2> QED
    BY <1>1, <1>k, <2>1, <2>2
<1>6. CASE Cleanup(b)
  <2>1. /\ ~IsParent(b) /\ Ack(b) /\ UNCHANGED <<checklist, sched, executing, unchecked>>
        /\ s3' = [k \in Keys |-> IF k[1] = b.run THEN s3[k] ELSE Absent]
    BY <1>6 DEF Cleanup, Child
  <2>2. \A r \in Runs, m \in Modules :
           s3'[<<r, "archive", m>>] \in {Absent, s3[<<r, "archive", m>>]}
    BY <2>1 DEF Keys, Folders
  <2> QED
    BY <2>1, <2>2, ChildAcked
<1> QED
  BY <1>2, <1>3, <1>4, <1>5, <1>6 DEF ChildStep

\* The steps both kinds of task take.
LEMMA CommonArchive ==
    ASSUME TypeInv, TypeInv', ArchiveClaims, NEW b \in queue, CommonStep(b)
    PROVE  ArchiveClaims'
<1>t. b \in Task /\ (IsParent(b) => ArchiveFits(b, unchecked))
  BY DEF TypeInv, TypeOK, ArchiveClaims, ParentsFit
<1>w. UNCHANGED <<executing, s3, sched, unchecked>>
  BY DEF CommonStep, SetStarted, StepTimesOut, SetFailed, LastStepRaises, PublishFails,
         worldVars, historyVars
<1>1. ASSUME Ack(b) \/ (IsParent(b) /\ UNCHANGED queue),
             checklist'.last_run = checklist.last_run, IsParent(b) \/ UNCHANGED checklist
      PROVE  ArchiveClaims'
  BY <1>1, <1>w, ParentAcked, ChildAcked
<1>2. ASSUME NEW new, Republish(b, new), UNCHANGED checklist,
             new.run = b.run, new.module = b.module, new.module_type = b.module_type,
             AtWork(new) => AtWork(b),
             IsParent(b) => ArchiveFits(new, unchecked)
      PROVE  ArchiveClaims'
  <2>0. PICK C : C = {}
    OBVIOUS
  <2>1. queue' \subseteq (queue \ {b}) \cup {new} \cup C /\ \A c \in C : FALSE
    BY <1>2, <2>0 DEF Republish
  <2>2. CASE IsParent(b)
    <3>1. ArchiveFits(new, unchecked') /\ unchecked \subseteq unchecked'
      BY <1>2, <1>w, <2>2
    <3> QED
      BY <1>2, <1>w, <2>1, <2>2, <3>1, ParentHandled
  <2>3. CASE ~IsParent(b)
    <3>1. FilesWritten(b, new)
      BY <1>w DEF FilesWritten
    <3>2. queue' \subseteq queue \cup {new} /\ (b \in queue' => b = new)
      BY <2>1
    <3> QED
      BY <1>2, <1>w, <2>3, <3>1, <3>2, ChildHandled
  <2> QED
    BY <2>2, <2>3
<1>3. CASE SetStarted(b)
  <2>0. PICK new : new = Advance(b, "started")
    OBVIOUS
  <2>1. /\ new.run = b.run /\ new.module = b.module /\ new.module_type = b.module_type
        /\ new.state = "started" /\ b.state = "created"
        /\ Republish(b, new) /\ UNCHANGED checklist
    BY <1>t, <1>3, <2>0 DEF SetStarted, Advance, Task, Body
  <2>2. AtWork(new) => AtWork(b)
    BY <2>1 DEF AtWork, IsParent
  <2>3. IsParent(b) => ArchiveFits(new, unchecked)
    BY <1>t, <2>1 DEF ArchiveFits, BeforeArchive, AfterCheck
  <2> QED
    BY <1>2, <2>1, <2>2, <2>3
<1>4. CASE StepTimesOut(b)
  <2>0. PICK new : new = GiveUp(b)
    OBVIOUS
  <2>1. /\ new.run = b.run /\ new.module = b.module /\ new.module_type = b.module_type
        /\ new.state = "error" /\ Republish(b, new) /\ UNCHANGED checklist
    BY <1>t, <1>4, <2>0 DEF StepTimesOut, GiveUp, Task, Body
  <2>2. ~AtWork(new)
    BY <2>1 DEF AtWork
  <2>3. IsParent(b) => ArchiveFits(new, unchecked)
    BY <1>t, <2>1, FitsLike
  <2> QED
    BY <1>2, <2>1, <2>2, <2>3
<1>5. CASE SetFailed(b)
  <2>1. checklist'.last_run = checklist.last_run
    BY <1>5 DEF SetFailed, Complete, TypeInv, TypeOK
  <2> QED
    BY <1>1, <1>5, <2>1 DEF SetFailed
<1>6. CASE LastStepRaises(b)
  BY <1>1, <1>6 DEF LastStepRaises, CompleteRaises
<1>7. CASE PublishFails(b)
  BY <1>1, <1>7 DEF PublishFails
<1> QED
  BY <1>3, <1>4, <1>5, <1>6, <1>7 DEF CommonStep

\* The end of a running module.
LEMMA ModuleArchive ==
    ASSUME TypeInv, TypeInv', ArchiveClaims, NEW b \in executing, ModuleStep(b),
           NothingRepeated'
    PROVE  ArchiveClaims'
<1>t. b \in Task /\ ~IsParent(b) /\ b.state = "started"
  BY DEF TypeInv, TypeOK, Child
<1>0. b \in queue => ~AtWork(b)
  BY DEF ArchiveClaims, ChildrenApart
<1>1. CASE FinishModule(b)
  <2>0. PICK new : new = Advance(b, "processed")
    OBVIOUS
  <2>1. /\ new.run = b.run /\ new.module = b.module /\ new.module_type = b.module_type
        /\ new.state = "processed"
    BY <1>t, <2>0 DEF Advance, Task, Body
  <2>2. /\ \E result : Upload(b, result)
        /\ executing' = executing \ {b} /\ queue' = queue \cup {new}
        /\ UNCHANGED <<checklist, sched, unchecked>>
    BY <1>1, <2>0 DEF FinishModule, historyVars
  <2>3. ~AtWork(new)
    BY <2>1 DEF AtWork
  <2>4. FilesWritten(b, new)
    BY <1>t, <2>2, <2>3, ResultWritten
  <2>5. b \in queue' => b = new \/ ~AtWork(b)
    BY <1>0, <2>2
  <2> QED
    BY <1>t, <2>1, <2>2, <2>3, <2>4, <2>5, ChildHandled
<1>2. CASE ProcessInterrupted(b)
  <2>0. PICK new : new = HandleException(b)
    OBVIOUS
  <2>1. /\ new.run = b.run /\ new.module = b.module /\ new.module_type = b.module_type
        /\ new.state \in {"started", "error"}
    BY <1>t, <2>0 DEF HandleException, Task, Body
  <2>2. /\ Republish(b, new) /\ executing' = executing \ {b}
        /\ UNCHANGED <<s3, checklist, sched, unchecked>>
    BY <1>2, <2>0 DEF ProcessInterrupted, Interrupted, CountRedelivery, NothingRepeated
  <2>3. AtWork(new) => AtWork(b)
    BY <1>t, <2>1 DEF AtWork
  <2>4. FilesWritten(b, new)
    BY <2>2 DEF FilesWritten
  <2>5. queue' \subseteq queue \cup {new} /\ (b \in queue' => b = new)
    BY <2>2 DEF Republish
  <2> QED
    BY <1>t, <2>1, <2>2, <2>3, <2>4, <2>5, ChildHandled
<1> QED
  BY <1>1, <1>2 DEF ModuleStep

\* The invariant is inductive: anomalies are only added.
LEMMA ArchiveStep == TypeInv /\ ArchiveInv /\ [Next]_vars => ArchiveInv'
<1> SUFFICES ASSUME TypeInv, ArchiveInv, [Next]_vars, NothingRepeated'
             PROVE  ArchiveClaims'
  BY DEF ArchiveInv
<1>1. TypeInv'
  BY TypeStep
<1>2. ASSUME anomalies \subseteq anomalies'
      PROVE  ArchiveClaims
  BY <1>2 DEF ArchiveInv, NothingRepeated
<1>3. CASE Scheduler \/ ScheduleNextRun \/ EditDisabled \/ Tick
  <2>1. anomalies \subseteq anomalies'
    BY <1>3 DEF Scheduler, ChooseChecklist, UpdateSchedule, CreateTasks, AbortSchedule,
                ScheduleNextRun, EditDisabled, Tick, historyVars
  <2> QED
    BY <1>1, <1>2, <1>3, <2>1, OutsideArchive
<1>4. ASSUME NEW b \in queue, ParentStep(b)
      PROVE  ArchiveClaims'
  <2>1. anomalies \subseteq anomalies'
    BY <1>4 DEF ParentStep, InitializeChecklist, InitializeArchive, InitializeService,
                InitializeFolder, CrashInitializing, InitializeRaises, WaitTasksResult,
                WaitTimesOut, WaitRaises, CollectCheckResult, CollectInterrupted,
                CheckArchiveResult, CheckArchiveRaises, UpdateChecklist,
                UpdateChecklistInterrupted, SetSucceeded, SetFailedAmbiguous, Interrupted,
                CountRedelivery, historyVars
  <2> QED
    BY <1>1, <1>2, <1>4, <2>1, ParentArchive
<1>5. ASSUME NEW b \in queue, ChildStep(b) \/ CommonStep(b)
      PROVE  ArchiveClaims'
  <2>1. anomalies \subseteq anomalies'
    BY <1>5 DEF ChildStep, CommonStep, StartModule, SkipDisabled, ProcessTimesOut,
                ProcessRaises, Cleanup, SetStarted, StepTimesOut, SetFailed,
                LastStepRaises, PublishFails, historyVars
  <2> QED
    BY <1>1, <1>2, <1>5, <2>1, ChildArchive, CommonArchive
<1>6. ASSUME NEW b \in executing, ModuleStep(b)
      PROVE  ArchiveClaims'
  <2>1. anomalies \subseteq anomalies'
    BY <1>6 DEF ModuleStep, FinishModule, ProcessInterrupted, Interrupted,
                CountRedelivery, historyVars
  <2> QED
    BY <1>1, <1>2, <1>6, <2>1, ModuleArchive
<1>7. CASE \E b \in queue \cup executing : Redeliver(b)
  BY <1>7 DEF Redeliver, CountRedelivery, NothingRepeated
<1>8. CASE UNCHANGED vars
  <2>1. ArchiveClaims
    BY <1>2, <1>8 DEF vars
  <2> QED
    BY <1>8, <2>1
       DEF vars, ArchiveClaims, ParentsApart, UnpublishedEmpty, ChildrenApart, ParentsFit,
           ArchiveFits, ModulesAtWork, ChildrenAtWork, ArchiveFiles, Present, Unpublished
<1> QED
  BY <1>3, <1>4, <1>5, <1>6, <1>7, <1>8 DEF Next, Worker

(***************************************************************************)
(* CheckArchiveResult really stops a run whose archive modules failed: no  *)
(* failed archive result shows up behind the check, unless the check       *)
(* itself raised or something was delivered or stored twice.  The wait     *)
(* before it compares two numbers only; that they mean the same modules is *)
(* what the invariant adds.                                                *)
(***************************************************************************)
THEOREM ArchiveFailuresStop == Spec => []ArchiveErrorsStopRun
<1>1. Spec => [](TypeInv /\ ArchiveInv)
  BY TypeInit, TypeStep, ArchiveInit, ArchiveStep, PTL DEF Spec
<1> QED
  BY <1>1, ArchiveImplies, PTL

=============================================================================
