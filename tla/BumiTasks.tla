------------------------------- MODULE BumiTasks -------------------------------
(***************************************************************************)
(* The messages of the recommendation pipeline ("bumi"): task bodies, the  *)
(* two transition maps that select a handler from the body's state, and    *)
(* the retry and timeout rules every handler shares.                       *)
(*                                                                         *)
(* A body carries the timestamp last_update and the code only ever uses    *)
(* utcnow_timestamp() - last_update.  The model keeps that difference, the *)
(* age, saturated just above the larger threshold: nothing in the code     *)
(* tells two larger ages apart.  created_at is the identity of a run and   *)
(* is modelled by the run's number.                                        *)
(***************************************************************************)
EXTENDS Naturals, FiniteSets

CONSTANTS
    RecModules,         \* files of modules/recommendations
    ArchiveModules,     \* files of modules/archive (they share names with the above)
    ServiceModules,     \* files of modules/service
    NoModule,           \* body.get('module') of a parent task
    TASK_TIMEOUT,       \* bumi_worker.task_timeout
    WAIT_TIMEOUT,       \* bumi_worker.wait_timeout
    MAX_RETRIES,        \* bumi_worker.max_retries
    MaxRuns,            \* bound: runs the scheduler may create
    MaxFaults,          \* bound: calls that raise
    MaxCopies           \* bound: crashes and redeliveries of a message

Modules == RecModules \cup ArchiveModules \cup ServiceModules

ASSUME ModulesAssumption == IsFiniteSet(Modules) /\ NoModule \notin Modules
ASSUME TimeoutAssumption ==
    /\ TASK_TIMEOUT \in Nat
    /\ WAIT_TIMEOUT \in Nat
    /\ TASK_TIMEOUT =< WAIT_TIMEOUT
ASSUME BoundAssumption ==
    /\ MAX_RETRIES \in Nat
    /\ MaxRuns \in Nat
    /\ MaxFaults \in Nat
    /\ MaxCopies \in Nat

Runs == 1 .. MaxRuns
AgeCap == WAIT_TIMEOUT + 1
Folders == {"recommendations", "archive", "service"}

\* consts.TaskState; "completed" is never assigned by the worker.
TaskState ==
    {"created", "started", "initialized_checklist", "waited_checklist",
     "collected_check_result", "initialized_archive", "waited_archive",
     "check_archive_result", "initialized_service", "waited_service",
     "updated_checklist", "processed", "error"}

(***************************************************************************)
(* A task body.  module = NoModule marks the parent task of a run.  copy   *)
(* numbers the deliveries of one message: after a redelivery the broker    *)
(* holds a second, independent message with the same body.                 *)
(***************************************************************************)
Body ==
    [run : Runs, module : Modules \cup {NoModule},
     module_type : Folders \cup {"none"}, copy : 0 .. MaxCopies,
     state : TaskState, age : 0 .. AgeCap, tries_count : 0 .. MAX_RETRIES,
     children_count : 0 .. Cardinality(Modules)]

IsParent(b) == b.module = NoModule

\* The body ScheduleController.generate_tasks publishes for a new run.
ParentTask(r) ==
    [run |-> r, module |-> NoModule, module_type |-> "none", copy |-> 0,
     state |-> "created", age |-> 0, tries_count |-> 0, children_count |-> 0]

\* InitializeChildrenBase._get_child_task: a fresh body of the parent's run.
ChildTask(b, folder, module) ==
    [run |-> b.run, module |-> module, module_type |-> folder,
     copy |-> b.copy, state |-> "created", age |-> 0, tries_count |-> 0,
     children_count |-> 0]

-----------------------------------------------------------------------------
(* Which handler a body is dispatched to (transitions.py).                  *)

\* States whose handler derives from CheckTimeoutThreshold.
TimeoutSteps ==
    {"created", "started", "waited_checklist", "collected_check_result",
     "waited_archive", "check_archive_result"}

\* States whose handler derives from CheckWaitThreshold.
WaitSteps == {"initialized_checklist", "initialized_archive", "initialized_service"}

\* What a wait step polls, and the state it moves to.
WaitFolder(state) ==
    CASE state = "initialized_checklist" -> "recommendations"
      [] state = "initialized_archive"   -> "archive"
      [] state = "initialized_service"   -> "service"

WaitedState(state) ==
    CASE state = "initialized_checklist" -> "waited_checklist"
      [] state = "initialized_archive"   -> "waited_archive"
      [] state = "initialized_service"   -> "waited_service"

-----------------------------------------------------------------------------
(* The rules shared by the handlers.                                        *)

\* CheckTimeoutThreshold.check_timeout
TaskTimedOut(b) == b.age > TASK_TIMEOUT

\* Mutant of WaitTimedOut: a wait without a limit.
WaitTimedOutNever(b) == FALSE

\* CheckWaitThreshold.check_timeout
WaitTimedOut(b) == b.age > WAIT_TIMEOUT

\* UpdateTimeout._execute: a step that moves on refreshes last_update.
Advance(b, state) == [b EXCEPT !.state = state, !.age = 0]

\* Mutant of HandleException: can_continue forgets max_retries.
HandleExceptionAlways(b) == [b EXCEPT !.tries_count = @ + 1]

\* Base._handle_exception for an ordinary exception: retry the body as the
\* handler left it, or give up.  Retries are never given back between steps.
HandleException(b) ==
    IF b.tries_count < MAX_RETRIES
    THEN [b EXCEPT !.tries_count = @ + 1]
    ELSE [b EXCEPT !.state = "error"]

\* Base._handle_exception for BumiTaskTimeoutError and BumiTaskWaitError.
GiveUp(b) == [b EXCEPT !.state = "error"]

\* Time passing for one message.  The last step of a child never reads its age.
Older(b) ==
    IF b.state = "processed" \/ (b.state = "error" /\ ~IsParent(b))
    THEN b
    ELSE [b EXCEPT !.age = IF @ < AgeCap THEN @ + 1 ELSE @]

=============================================================================
