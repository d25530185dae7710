----------------------------- MODULE BumiPipeline -----------------------------
(***************************************************************************)
(* The recommendation pipeline of one organization: bumischeduler decides  *)
(* when to run, rest_api keeps the checklist, bumiworker moves the parent  *)
(* task of a run and its child tasks through their states, module results  *)
(* meet in S3 and the recommendations are saved to MongoDB.                *)
(*                                                                         *)
(* Organizations share no state, so one is enough.  Any number of workers  *)
(* take messages from the queue in any order; a handler is one step except *)
(* Process, which runs a module for an unbounded time between its timeout  *)
(* check and the upload of its result.                                     *)
(***************************************************************************)
EXTENDS BumiTasks

CONSTANTS
    RUN_PERIOD,             \* bumi_worker.run_period
    RESCHEDULE_TIMEOUT,     \* controllers/schedule.py
    MaxConfigEdits          \* bound: edits of /disabled_recommendations

ASSUME PeriodAssumption ==
    /\ RUN_PERIOD \in Nat
    /\ RESCHEDULE_TIMEOUT \in Nat
    /\ MaxConfigEdits \in Nat

VARIABLES
    checklist,      \* the row of the checklist table, times relative to now
    sched,          \* where ScheduleController.generate_tasks is
    queue,          \* messages of bumi-task and its delayed queue
    executing,      \* child messages whose module is being run, unacked
    s3,             \* bucket bumi-data: result of each (run, folder, module)
    saved,          \* Mongo collection checklists: modules saved for a run
    disabled,       \* etcd /disabled_recommendations
    faults,         \* calls that raised so far
    copies,         \* crashes and redeliveries so far
    edits,          \* configuration edits so far
    plans,          \* history: module lists InitializeChecklist used for a run
    wiped,          \* history: runs whose results another run's Cleanup deleted
    unchecked,      \* history: runs whose archive check raised
    anomalies       \* history: what made two runs able to interfere

worldVars == <<s3, saved, disabled, edits>>
budgetVars == <<faults, copies>>
historyVars == <<plans, wiped, unchecked, anomalies>>
vars == <<checklist, sched, queue, executing, s3, saved, disabled, faults,
          copies, edits, plans, wiped, unchecked, anomalies>>

\* A result file: none, data without an error (the record of a disabled module
\* included), the module's error, a timeout record with or without the
\* previous run's data.
Absent == "absent"
Results == {"data", "error", "timeout", "timeout_no_data"}
Keys == Runs \X Folders \X Modules

\* The task is of the parent kind, or of the child kind, and in the state.
Parent(b, state) == IsParent(b) /\ b.state = state
Child(b, state) == ~IsParent(b) /\ b.state = state

\* Every child has a module type.
Task == {b \in Body : ~IsParent(b) => b.module_type \in Folders}

Anomalies == {"rescheduled", "redelivered", "ambiguous"}

(***************************************************************************)
(* One type invariant for the module: every message is a well-formed body  *)
(* (retry counts and ages within the limits the handlers enforce), the     *)
(* checklist row names existing runs, only child tasks execute modules.    *)
(***************************************************************************)
TypeOK ==
    /\ checklist \in [next_in : 0 .. RUN_PERIOD, last_run : 0 .. MaxRuns,
                      run_age : 0 .. RESCHEDULE_TIMEOUT,
                      last_completed : 0 .. MaxRuns]
    /\ sched \in {"idle", "chosen", "updated"}
    /\ queue \subseteq Task
    /\ executing \subseteq {b \in Task : Child(b, "started")}
    /\ s3 \in [Keys -> Results \cup {Absent}]
    /\ saved \in [Runs -> SUBSET Modules]
    /\ disabled \subseteq Modules
    /\ faults \in 0 .. MaxFaults
    /\ copies \in 0 .. MaxCopies
    /\ edits \in 0 .. MaxConfigEdits
    /\ plans \in [Runs -> SUBSET SUBSET Modules]
    /\ wiped \subseteq Runs
    /\ unchecked \subseteq Runs
    /\ anomalies \subseteq Anomalies

-----------------------------------------------------------------------------
(* Small helpers.                                                           *)

\* InitializeChildrenBase.list_modules: the folder's files minus the disabled.
list_modules(folder) ==
    (CASE folder = "recommendations" -> RecModules
       [] folder = "archive"         -> ArchiveModules
       [] folder = "service"         -> ServiceModules) \ disabled

\* list_objects_v2 under organization/created_at/folder/
Present(r, folder) == {m \in Modules : s3[<<r, folder, m>>] # Absent}

Children(b, folder, modules) == {ChildTask(b, folder, m) : m \in modules}

\* on_continue_cb, then message.ack()
Republish(b, new) == queue' = (queue \ {b}) \cup {new}
Ack(b) == queue' = queue \ {b}

\* save_result_to_file: one object per (run, folder, module), overwritten.
Upload(b, result) ==
    s3' = [s3 EXCEPT ![<<b.run, b.module_type, b.module>>] = result]

\* The worker died, or lost its connection, while it held b: the broker
\* delivers b again.
Redelivered(b) == [b EXCEPT !.copy = copies + 1]

CountRedelivery ==
    /\ copies < MaxCopies
    /\ copies' = copies + 1
    /\ anomalies' = anomalies \cup {"redelivered"}
    /\ UNCHANGED faults

\* A call to S3, MongoDB, etcd or rest_api raised.
CountFault ==
    /\ faults < MaxFaults
    /\ faults' = faults + 1
    /\ UNCHANGED copies

Init ==
    /\ checklist = [next_in |-> 0, last_run |-> 0, run_age |-> 0,
                    last_completed |-> 0]
    /\ sched = "idle"
    /\ queue = {}
    /\ executing = {}
    /\ s3 = [k \in Keys |-> Absent]
    /\ saved = [r \in Runs |-> {}]
    /\ disabled = {}
    /\ faults = 0
    /\ copies = 0
    /\ edits = 0
    /\ plans = [r \in Runs |-> {}]
    /\ wiped = {}
    /\ unchecked = {}
    /\ anomalies = {}

-----------------------------------------------------------------------------
(* bumischeduler: ScheduleController.generate_tasks.                        *)

\* Mutant of Due: a checklist is due although its last run is not completed.
DueAnyway == checklist.next_in = 0

Due == checklist.next_in = 0 /\ checklist.last_completed = checklist.last_run

\* Mutant of Stuck: no rescheduling.
StuckNever == FALSE

Stuck ==
    /\ checklist.last_run # checklist.last_completed
    /\ checklist.run_age >= RESCHEDULE_TIMEOUT

\* now = utcnow(), get_checklists, and the choice of the checklists to run.
\* A pass that chooses nothing changes nothing.
ChooseChecklist ==
    /\ sched = "idle"
    /\ checklist.last_run < MaxRuns
    /\ Due \/ Stuck
    /\ sched' = "chosen"
    /\ anomalies' = IF Due THEN anomalies ELSE anomalies \cup {"rescheduled"}
    /\ UNCHANGED <<checklist, queue, executing, worldVars, budgetVars, plans,
                   wiped, unchecked>>

\* checklist_update(next_run = now + run_period, last_run = now)
UpdateSchedule ==
    /\ sched = "chosen"
    /\ checklist' = [checklist EXCEPT !.next_in = RUN_PERIOD,
                                      !.last_run = @ + 1, !.run_age = 0]
    /\ sched' = "updated"
    /\ UNCHANGED <<queue, executing, worldVars, budgetVars, historyVars>>

\* create_tasks: publish the parent task of the new run.
CreateTasks ==
    /\ sched = "updated"
    /\ queue' = queue \cup {ParentTask(checklist.last_run)}
    /\ sched' = "idle"
    /\ UNCHANGED <<checklist, executing, worldVars, budgetVars, historyVars>>

\* A REST or broker call raised, or the scheduler died: generate_tasks starts
\* over at the next period.  After the update the run has no task.
AbortSchedule ==
    /\ CountFault
    /\ sched \in {"chosen", "updated"}
    /\ sched' = "idle"
    /\ UNCHANGED <<checklist, queue, executing, worldVars, historyVars>>

Scheduler == ChooseChecklist \/ UpdateSchedule \/ CreateTasks \/ AbortSchedule

\* rest_api: the first completed import of a cloud account asks for a run
\* (ChecklistController.schedule_next_run sets next_run = 1).
ScheduleNextRun ==
    /\ checklist.next_in > 0
    /\ checklist' = [checklist EXCEPT !.next_in = 0]
    /\ UNCHANGED <<sched, queue, executing, worldVars, budgetVars, historyVars>>

\* An operator edits the list of disabled modules.
EditDisabled ==
    /\ edits < MaxConfigEdits
    /\ edits' = edits + 1
    /\ disabled' \in SUBSET Modules
    /\ UNCHANGED <<checklist, sched, queue, executing, s3, saved, budgetVars,
                   historyVars>>

\* The clock.  A scheduler pass takes seconds, a unit of this clock is the
\* granularity of the thresholds: the pass is over before the unit is.
Tick ==
    /\ sched = "idle"
    /\ queue' = {Older(b) : b \in queue}
    /\ executing' = {Older(b) : b \in executing}
    /\ checklist' =
         [checklist EXCEPT
            !.next_in = IF @ > 0 THEN @ - 1 ELSE 0,
            !.run_age = IF @ < RESCHEDULE_TIMEOUT THEN @ + 1 ELSE @]
    /\ UNCHANGED <<sched, worldVars, budgetVars, historyVars>>

-----------------------------------------------------------------------------
(* bumiworker, steps both kinds of task take.                               *)

SetStarted(b) ==
    /\ b.state = "created"
    /\ ~TaskTimedOut(b)
    /\ Republish(b, Advance(b, "started"))
    /\ UNCHANGED <<checklist, sched, executing, worldVars, budgetVars, historyVars>>

\* check_timeout of every CheckTimeoutThreshold step but Process.
StepTimesOut(b) ==
    /\ b.state \in TimeoutSteps
    /\ ~Child(b, "started")
    /\ TaskTimedOut(b)
    /\ Republish(b, GiveUp(b))
    /\ UNCHANGED <<checklist, sched, executing, worldVars, budgetVars, historyVars>>

\* The broker delivers a message a second time: the worker that holds it lost
\* its connection but goes on.
Redeliver(b) ==
    /\ CountRedelivery
    /\ queue' = queue \cup {Redelivered(b)}
    /\ UNCHANGED <<checklist, sched, executing, worldVars, plans, wiped,
                   unchecked>>

\* The broker takes neither the next message of a step nor, after the
\* exception, the retry; Base.execute acks what it holds all the same.
PublishFails(b) ==
    /\ CountFault
    /\ b.state \notin {"updated_checklist", "processed", "error"}
    /\ Ack(b)
    /\ UNCHANGED <<checklist, sched, executing, worldVars, historyVars>>

\* A handler stopped after some of its effects: an exception is retried or
\* gives up, a crash leaves the message to the broker.
Interrupted(b, flags) ==
    \/ /\ CountFault
       /\ Republish(b, HandleException(b))
       /\ anomalies' = anomalies \cup flags
    \/ /\ CountRedelivery
       /\ Republish(b, Redelivered(b))

-----------------------------------------------------------------------------
(* bumiworker, steps of the parent task (TASKS_TRANSITIONS).                *)

InitializeChecklist(b) ==
    /\ Parent(b, "started")
    /\ ~TaskTimedOut(b)
    /\ LET modules == list_modules("recommendations")
       IN  /\ plans' = [plans EXCEPT ![b.run] = @ \cup {modules}]
           /\ IF modules = {}
              THEN Republish(b, Advance(b, "waited_service"))
              ELSE queue' =
                     (queue \ {b})
                       \cup Children(b, "recommendations", modules)
                       \cup {[Advance(b, "initialized_checklist")
                                EXCEPT !.children_count = Cardinality(modules)]}
    /\ UNCHANGED <<checklist, sched, executing, worldVars, budgetVars, wiped,
                   unchecked, anomalies>>

\* InitializeArchive and InitializeService, which also go on with no children.
InitializeFolder(b, folder, state) ==
    /\ ~TaskTimedOut(b)
    /\ LET modules == list_modules(folder)
       IN  queue' = (queue \ {b})
                      \cup Children(b, folder, modules)
                      \cup {[Advance(b, state)
                               EXCEPT !.children_count = Cardinality(modules)]}
    /\ UNCHANGED <<checklist, sched, executing, worldVars, budgetVars, historyVars>>

InitializeArchive(b) ==
    /\ Parent(b, "collected_check_result")
    /\ InitializeFolder(b, "archive", "initialized_archive")

InitializeService(b) ==
    /\ Parent(b, "check_archive_result")
    /\ InitializeFolder(b, "service", "initialized_service")

InitFolder(state) ==
    CASE state = "started"                -> "recommendations"
      [] state = "collected_check_result" -> "archive"
      [] state = "check_archive_result"   -> "service"

\* The worker dies while it publishes children: some are out, and the parent
\* task will be initialized again.
CrashInitializing(b) ==
    /\ IsParent(b)
    /\ b.state \in {"started", "collected_check_result", "check_archive_result"}
    /\ ~TaskTimedOut(b)
    /\ CountRedelivery
    /\ LET folder == InitFolder(b.state)
           modules == list_modules(folder)
       IN  /\ \E published \in SUBSET modules \ {{}} :
                 queue' = (queue \ {b}) \cup {Redelivered(b)}
                            \cup Children(b, folder, published)
           /\ plans' = IF b.state = "started"
                       THEN [plans EXCEPT ![b.run] = @ \cup {modules}]
                       ELSE plans
    /\ UNCHANGED <<checklist, sched, executing, worldVars, wiped, unchecked>>

\* Mutant of WaitTasksResult: any result ends the wait.
WaitAnyResult(b) ==
    /\ IsParent(b)
    /\ b.state \in WaitSteps
    /\ ~WaitTimedOut(b)
    /\ IF Present(b.run, WaitFolder(b.state)) # {}
       THEN Republish(b, Advance(b, WaitedState(b.state)))
       ELSE UNCHANGED queue
    /\ UNCHANGED <<checklist, sched, executing, worldVars, budgetVars, historyVars>>

\* WaitChecklist, WaitArchive, WaitService: the number of result files decides.
\* A poll that does not match puts the body back unchanged.
WaitTasksResult(b) ==
    /\ IsParent(b)
    /\ b.state \in WaitSteps
    /\ ~WaitTimedOut(b)
    /\ IF Cardinality(Present(b.run, WaitFolder(b.state))) = b.children_count
       THEN Republish(b, Advance(b, WaitedState(b.state)))
       ELSE UNCHANGED queue
    /\ UNCHANGED <<checklist, sched, executing, worldVars, budgetVars, historyVars>>

\* BumiTaskWaitError; "further waiters should be able to count from scratch".
WaitTimesOut(b) ==
    /\ IsParent(b)
    /\ b.state \in WaitSteps
    /\ WaitTimedOut(b)
    /\ Republish(b, [GiveUp(b) EXCEPT !.age = 0])
    /\ UNCHANGED <<checklist, sched, executing, worldVars, budgetVars, historyVars>>

WaitRaises(b) ==
    /\ CountFault
    /\ IsParent(b)
    /\ b.state \in WaitSteps
    /\ ~WaitTimedOut(b)
    /\ Republish(b, [HandleException(b) EXCEPT !.age = 0])
    /\ UNCHANGED <<checklist, sched, executing, worldVars, historyVars>>

\* etcd cannot be read: nothing is published and the body is retried.
InitializeRaises(b) ==
    /\ CountFault
    /\ IsParent(b)
    /\ b.state \in {"started", "collected_check_result", "check_archive_result"}
    /\ ~TaskTimedOut(b)
    /\ Republish(b, HandleException(b))
    /\ UNCHANGED <<checklist, sched, executing, worldVars, historyVars>>

\* The result files of the run's recommendation modules.
Collected(b) == Present(b.run, "recommendations")
ResultOf(b, folder, m) == s3[<<b.run, folder, m>>]

\* A timeout record without data has no 'data' key: save_result raises
\* KeyError before it writes anything.
Unsavable(b) ==
    \E m \in Collected(b) :
        ResultOf(b, "recommendations", m) = "timeout_no_data"

CollectCheckResult(b) ==
    /\ Parent(b, "waited_checklist")
    /\ ~TaskTimedOut(b)
    /\ IF Unsavable(b)
       THEN /\ Republish(b, HandleException(b))
            /\ UNCHANGED saved
       ELSE /\ saved' = [saved EXCEPT ![b.run] = @ \cup Collected(b)]
            /\ Republish(b, Advance(b,
                 IF \E m \in Collected(b) :
                        ResultOf(b, "recommendations", m) = "timeout"
                 THEN "error" ELSE "collected_check_result"))
    /\ UNCHANGED <<checklist, sched, executing, s3, disabled, edits, budgetVars,
                   historyVars>>

\* Mutant of CollectInterrupted: the state is set before the results are saved,
\* as CheckArchiveResult does.
CollectStateFirst(b) ==
    /\ Parent(b, "waited_checklist")
    /\ ~TaskTimedOut(b)
    /\ UNCHANGED saved
    /\ CountFault
    /\ Republish(b, HandleException([b EXCEPT !.state = "collected_check_result"]))
    /\ UNCHANGED <<checklist, sched, executing, s3, disabled, edits, historyVars>>

\* S3 or Mongo fails: part of the ordered bulk write may be applied.
CollectInterrupted(b) ==
    /\ Parent(b, "waited_checklist")
    /\ ~TaskTimedOut(b)
    /\ \E written \in SUBSET (IF Unsavable(b) THEN {} ELSE Collected(b)) :
          saved' = [saved EXCEPT ![b.run] = @ \cup written]
    /\ Interrupted(b, {})
    /\ UNCHANGED <<checklist, sched, executing, s3, disabled, edits, plans,
                   wiped, unchecked>>

\* Mutant of CheckArchiveResult: only 'error' is looked at.
CheckArchiveErrorOnly(b) ==
    /\ Parent(b, "waited_archive")
    /\ ~TaskTimedOut(b)
    /\ Republish(b, Advance(b,
         IF \E m \in Present(b.run, "archive") :
               ResultOf(b, "archive", m) = "error"
         THEN "error" ELSE "check_archive_result"))
    /\ UNCHANGED <<checklist, sched, executing, worldVars, budgetVars, historyVars>>

CheckArchiveResult(b) ==
    /\ Parent(b, "waited_archive")
    /\ ~TaskTimedOut(b)
    /\ Republish(b, Advance(b,
         IF \E m \in Present(b.run, "archive") :
               ResultOf(b, "archive", m) \in {"error", "timeout", "timeout_no_data"}
         THEN "error" ELSE "check_archive_result"))
    /\ UNCHANGED <<checklist, sched, executing, worldVars, budgetVars, historyVars>>

\* The body's state is set before S3 is read, so the retry of a failed read
\* starts at the next step.
CheckArchiveRaises(b) ==
    /\ CountFault
    /\ Parent(b, "waited_archive")
    /\ ~TaskTimedOut(b)
    /\ Republish(b, HandleException([b EXCEPT !.state = "check_archive_result"]))
    /\ unchecked' = unchecked \cup {b.run}
    /\ UNCHANGED <<checklist, sched, executing, worldVars, plans,
                   wiped, anomalies>>

\* rest_api: checklist_update(last_completed = created_at)
Complete(b) == checklist' = [checklist EXCEPT !.last_completed = b.run]

UpdateChecklist(b) ==
    /\ Parent(b, "waited_service")
    /\ Complete(b)
    /\ Republish(b, [b EXCEPT !.state = "updated_checklist"])
    /\ UNCHANGED <<sched, executing, worldVars, budgetVars, historyVars>>

\* The request fails, before or after rest_api applied it.
UpdateChecklistInterrupted(b) ==
    /\ Parent(b, "waited_service")
    /\ \/ UNCHANGED checklist /\ Interrupted(b, {})
       \/ Complete(b) /\ Interrupted(b, {"ambiguous"})
    /\ UNCHANGED <<sched, executing, worldVars, plans, wiped, unchecked>>

-----------------------------------------------------------------------------
(* bumiworker, the last step of a task (CompleteBase).                      *)

SetSucceeded(b) ==
    /\ Parent(b, "updated_checklist")
    /\ Ack(b)
    /\ UNCHANGED <<checklist, sched, executing, worldVars, budgetVars, historyVars>>

\* Mutant of SetFailed: a failed child completes the checklist too.
SetFailedAlways(b) ==
    /\ b.state = "error"
    /\ Complete(b)
    /\ Ack(b)
    /\ UNCHANGED <<sched, executing, worldVars, budgetVars, historyVars>>

\* SetFailedNotifiable for a parent, SetFailed for a child: "child task must
\* not fail checklist".
SetFailed(b) ==
    /\ b.state = "error"
    /\ IF IsParent(b) THEN Complete(b) ELSE UNCHANGED checklist
    /\ Ack(b)
    /\ UNCHANGED <<sched, executing, worldVars, budgetVars, historyVars>>

\* CompleteBase._handle_exception: the message is put back, unless it waited
\* too long.  A child has no wait_timeout: the handler raises KeyError, and the
\* message is acked all the same.
CompleteRaises(b) ==
    \/ IsParent(b) /\ ~WaitTimedOut(b) /\ UNCHANGED queue
    \/ IsParent(b) /\ WaitTimedOut(b) /\ Ack(b)
    \/ ~IsParent(b) /\ Ack(b)

LastStepRaises(b) ==
    /\ CountFault
    /\ \/ Parent(b, "updated_checklist")
       \/ Parent(b, "error")
       \/ Child(b, "processed")
    /\ CompleteRaises(b)
    /\ UNCHANGED <<checklist, sched, executing, worldVars, historyVars>>

\* SetFailed's request was applied but its answer was lost.
SetFailedAmbiguous(b) ==
    /\ CountFault
    /\ Parent(b, "error")
    /\ Complete(b)
    /\ CompleteRaises(b)
    /\ anomalies' = anomalies \cup {"ambiguous"}
    /\ UNCHANGED <<sched, executing, worldVars, plans, wiped, unchecked>>

-----------------------------------------------------------------------------
(* bumiworker, steps of a child task (GROUP_TASKS_TRANSITIONS).             *)

\* Process, up to the call of the module.
StartModule(b) ==
    /\ Child(b, "started")
    /\ ~TaskTimedOut(b)
    /\ b.module \notin disabled
    /\ Ack(b)
    /\ executing' = executing \cup {b}
    /\ UNCHANGED <<checklist, sched, worldVars, budgetVars, historyVars>>

\* Process for a module disabled after its task was queued.
SkipDisabled(b) ==
    /\ Child(b, "started")
    /\ ~TaskTimedOut(b)
    /\ b.module \in disabled
    /\ Upload(b, "data")
    /\ Republish(b, Advance(b, "processed"))
    /\ UNCHANGED <<checklist, sched, executing, saved, disabled, edits, budgetVars,
                   historyVars>>

\* Process, from the return of the module on: its exception is a result too.
FinishModule(b) ==
    /\ \E result \in {"data", "error"} : Upload(b, result)
    /\ executing' = executing \ {b}
    /\ queue' = queue \cup {Advance(b, "processed")}
    /\ UNCHANGED <<checklist, sched, saved, disabled, edits, budgetVars, historyVars>>

\* The upload raises or the worker dies, with or without the result stored.
\* The module is run again, or the task gives up.
ProcessInterrupted(b) ==
    /\ executing' = executing \ {b}
    /\ \/ UNCHANGED s3 /\ Interrupted(b, {})
       \/ /\ \E result \in {"data", "error"} : Upload(b, result)
          /\ Interrupted(b, {"ambiguous"})
    /\ UNCHANGED <<checklist, sched, saved, disabled, edits, plans, wiped,
                   unchecked>>

\* HandleTaskTimeout.check_timeout: leave a result, with the previous data if
\* they can be read, so that the parent's wait can end; then give up.
ProcessTimesOut(b) ==
    /\ Child(b, "started")
    /\ TaskTimedOut(b)
    /\ \E result \in {"timeout", "timeout_no_data"} : Upload(b, result)
    /\ Republish(b, GiveUp(b))
    /\ UNCHANGED <<checklist, sched, executing, saved, disabled, edits, budgetVars,
                   historyVars>>

\* etcd cannot be read, or storing the timeout record fails: an ordinary
\* exception, retried.
ProcessRaises(b) ==
    /\ CountFault
    /\ Child(b, "started")
    /\ Republish(b, HandleException(b))
    /\ UNCHANGED <<checklist, sched, executing, worldVars, historyVars>>

\* Delete every result of the organization that is not of this task's run.
Cleanup(b) ==
    /\ Child(b, "processed")
    /\ s3' = [k \in Keys |-> IF k[1] = b.run THEN s3[k] ELSE Absent]
    /\ wiped' = wiped \cup
         {r \in Runs \ {b.run} : \E folder \in Folders : Present(r, folder) # {}}
    /\ Ack(b)
    /\ UNCHANGED <<checklist, sched, executing, saved, disabled, edits, budgetVars,
                   plans, unchecked, anomalies>>

-----------------------------------------------------------------------------
ParentStep(b) ==
    \/ InitializeChecklist(b) \/ InitializeArchive(b) \/ InitializeService(b)
    \/ CrashInitializing(b) \/ InitializeRaises(b)
    \/ WaitTasksResult(b) \/ WaitTimesOut(b) \/ WaitRaises(b)
    \/ CollectCheckResult(b) \/ CollectInterrupted(b)
    \/ CheckArchiveResult(b) \/ CheckArchiveRaises(b)
    \/ UpdateChecklist(b) \/ UpdateChecklistInterrupted(b)
    \/ SetSucceeded(b) \/ SetFailedAmbiguous(b)

ChildStep(b) ==
    \/ StartModule(b) \/ SkipDisabled(b) \/ ProcessTimesOut(b)
    \/ ProcessRaises(b) \/ Cleanup(b)

CommonStep(b) ==
    \/ SetStarted(b) \/ StepTimesOut(b) \/ SetFailed(b) \/ LastStepRaises(b)
    \/ PublishFails(b)

ModuleStep(b) == FinishModule(b) \/ ProcessInterrupted(b)

Worker ==
    \/ \E b \in queue : ParentStep(b) \/ ChildStep(b) \/ CommonStep(b)
    \/ \E b \in executing : ModuleStep(b)

Next ==
    \/ Scheduler
    \/ ScheduleNextRun
    \/ EditDisabled
    \/ Tick
    \/ Worker
    \/ \E b \in queue \cup executing : Redeliver(b)

Spec == Init /\ [][Next]_vars

(***************************************************************************)
(* Fairness.  Queued messages are consumed and running modules end; the    *)
(* clock advances; generate_tasks is called every /bumi_scheduler_timeout  *)
(* seconds.  MaxFaults bounds how often a call fails.                      *)
(***************************************************************************)
FairSpec ==
    /\ Spec
    /\ WF_vars(Worker)
    /\ WF_vars(Tick)
    /\ WF_vars(Scheduler)

-----------------------------------------------------------------------------
(* Properties.                                                              *)

\* A parent task that still has recommendation work to do.  From
\* waited_service and from error on, all that is left is to write
\* last_completed.
Working(b) ==
    /\ IsParent(b)
    /\ b.state \notin {"waited_service", "updated_checklist", "error"}

(***************************************************************************)
(* Mutual exclusion of runs.  generate_tasks starts a run only when        *)
(* last_completed = last_run, and bumiworker writes last_completed only    *)
(* when the parent task has nothing left to do.  So, unless the scheduler  *)
(* rescheduled a stuck checklist or the broker delivered a message twice,  *)
(* at most one parent task is working, it belongs to the last run, and     *)
(* that run is not marked completed.                                       *)
(***************************************************************************)
SingleActiveRun ==
    anomalies \cap {"rescheduled", "redelivered"} = {} =>
        \A b \in queue : Working(b) =>
            /\ b.run = checklist.last_run
            /\ checklist.last_completed # checklist.last_run
            /\ \A c \in queue : Working(c) => c = b

CollectedStates ==
    {"collected_check_result", "initialized_archive", "waited_archive",
     "check_archive_result", "initialized_service", "waited_service",
     "updated_checklist"}

(***************************************************************************)
(* WaitTasksResult compares a number of files with children_count, never   *)
(* their names.  Still, a parent task past CollectCheckResult has saved a  *)
(* result for exactly the modules it started, across retries, crashes and  *)
(* redeliveries, provided that no other run's Cleanup deleted results of   *)
(* the run and that every InitializeChecklist of the run listed the same   *)
(* modules.                                                                *)
(***************************************************************************)
CollectedComplete ==
    \A b \in queue :
        /\ IsParent(b)
        /\ b.state \in CollectedStates
        /\ b.run \notin wiped
        => \A P \in plans[b.run] :
              plans[b.run] = {P} => saved[b.run] = P

(***************************************************************************)
(* CheckArchiveResult stops a run whose archive modules failed: a parent   *)
(* task past it has no failed archive result, unless the check itself      *)
(* raised (its retry skips it), or a result was written again later        *)
(* because a message or an upload was repeated.                            *)
(***************************************************************************)
ArchiveErrorsStopRun ==
    anomalies \cap {"redelivered", "ambiguous"} = {} =>
        \A b \in queue :
            /\ IsParent(b)
            /\ b.state \in {"check_archive_result", "initialized_service",
                            "waited_service", "updated_checklist"}
            /\ b.run \notin unchecked
            => \A m \in Modules :
                  ResultOf(b, "archive", m) \in {Absent, "data"}

(***************************************************************************)
(* rest_api shows the recommendations of last_completed.  While no stuck   *)
(* checklist was rescheduled, nothing was delivered twice and no applied   *)
(* update was reported as failed, last_completed never goes back to an     *)
(* older run.                                                              *)
(***************************************************************************)
CompletionNeverRegresses ==
    [][anomalies' = {} =>
         checklist'.last_completed >= checklist.last_completed]_vars

(***************************************************************************)
(* A checklist never stays stuck: whatever happens to the tasks of a run   *)
(* (lost, failed, never published), the scheduler starts another one.      *)
(***************************************************************************)
RunsContinue ==
    \A r \in 0 .. MaxRuns :
        (checklist.last_run = r /\ r < MaxRuns) ~> (checklist.last_run > r)

(***************************************************************************)
(* Every task ends: polling, retrying and putting a message back for a     *)
(* later attempt all stop, so a run leaves no message behind.              *)
(***************************************************************************)
TasksTerminate ==
    \A r \in Runs :
        (\E b \in queue \cup executing : b.run = r)
            ~> (\A b \in queue \cup executing : b.run # r)

SameMessage(b, c) ==
    /\ b.run = c.run /\ b.copy = c.copy
    /\ b.module = c.module /\ b.module_type = c.module_type

(***************************************************************************)
(* "put msg to queue and hope that it'll gracefully finish": a last step   *)
(* that fails within wait_timeout is attempted again, so the message of a  *)
(* child leaves the queue only when Cleanup left nothing of other runs.    *)
(***************************************************************************)
GracefulFinish ==
    [][\A b \in queue :
          /\ Child(b, "processed")
          /\ \A c \in queue' : ~SameMessage(b, c)
          => \A k \in Keys : k[1] # b.run => s3'[k] = Absent]_vars

=============================================================================
