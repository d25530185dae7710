----------------------------- MODULE ReportImport -----------------------------
(***************************************************************************)
(* Billing imports of one cloud account: rest_api creates a reportimport   *)
(* row and a message for it, a diworker thread takes the message, checks   *)
(* that no other import of the account is active, imports the data and     *)
(* records the outcome, while the heartbeat thread of its process keeps    *)
(* the row's updated_at fresh.                                             *)
(*                                                                         *)
(* The unit of the clock is HEARTBEAT_INTERVAL.  Every REST call is a step *)
(* of its own, so whatever another request or another worker does may come *)
(* between two calls of the same thread.                                   *)
(***************************************************************************)
EXTENDS Naturals

CONSTANTS
    ACTIVE_IMPORT_THRESHOLD,    \* in heartbeats: 1800 s / 300 s
    NOT_PROCESSED_THRESHOLD,    \* report_imports.not_processed_threshold_secs
    MESSAGE_EXPIRATION,         \* report_imports.message_expiration_secs
    MaxImports,                 \* bound: imports created
    MaxRequests,                \* bound: schedule requests past their check
    MaxFaults,                  \* bound: calls that raise
    MaxRedeliveries             \* bound: crashes and lost connections

ASSUME ThresholdAssumption ==
    /\ ACTIVE_IMPORT_THRESHOLD \in Nat
    /\ NOT_PROCESSED_THRESHOLD \in Nat
    /\ MESSAGE_EXPIRATION \in Nat
ASSUME LimitAssumption ==
    /\ MaxImports \in Nat
    /\ MaxRequests \in Nat
    /\ MaxFaults \in Nat
    /\ MaxRedeliveries \in Nat

\* A live import may miss that many heartbeats before it looks dead.
ASSUME HeartbeatAssumption == MaxFaults + 1 =< ACTIVE_IMPORT_THRESHOLD

Imports == 1 .. MaxImports

VARIABLES
    imports,        \* the reportimport rows of the account, by creation order
    created,        \* how many of them exist
    requests,       \* schedule() calls between their check and create()
    msg,            \* the message of each import: where it is, how old
    jobs,           \* _process_task threads
    requested,      \* schedule_next_run was called for the organization
    faults,         \* calls that raised so far
    losses,         \* crashes and lost connections so far
    redelivered,    \* history: imports whose message was delivered again
    duplicated,     \* history: those whose first thread was still alive then
    halfway         \* history: imports whose completing update raised

rowVars == <<imports, created, requested>>
historyVars == <<losses, redelivered, duplicated, halfway>>
vars == <<imports, created, requests, msg, jobs, requested, faults, losses,
          redelivered, duplicated, halfway>>

ImportStates == {"none", "scheduled", "in_progress", "completed", "failed"}

\* created_at and updated_at as ages; each is kept only in the one state in
\* which the code reads it.
Row ==
    [state : ImportStates, is_recalculation : BOOLEAN,
     created_age : 0 .. NOT_PROCESSED_THRESHOLD + 1,
     updated_age : 0 .. ACTIVE_IMPORT_THRESHOLD + 1]

\* A broker keeps one message per import; n counts its deliveries.
Message ==
    [place : {"none", "queued", "held"}, age : 0 .. MESSAGE_EXPIRATION + 1,
     n : 0 .. MaxRedeliveries + 1]

\* A thread.  beat: its process sent this interval's heartbeat (followed from
\* the start of the import on; before, updated_at is not read).  holds: its
\* channel still holds the message.  rivals: what else was importing when it
\* listed the active imports (history).
Job ==
    [id : Imports, n : 1 .. MaxRedeliveries + 1,
     pc : {"received", "listed", "blocked", "importing", "imported",
           "failing", "done"},
     beat : BOOLEAN, holds : BOOLEAN, rivals : SUBSET Imports]

\* The type invariant: rows, messages and threads are well formed.
TypeOK ==
    /\ imports \in [Imports -> Row]
    /\ created \in 0 .. MaxImports
    /\ requests \in 0 .. MaxRequests
    /\ msg \in [Imports -> Message]
    /\ jobs \subseteq Job
    /\ requested \in BOOLEAN
    /\ faults \in 0 .. MaxFaults
    /\ losses \in 0 .. MaxRedeliveries
    /\ redelivered \subseteq Imports
    /\ duplicated \subseteq Imports
    /\ halfway \subseteq Imports

Init ==
    /\ imports = [i \in Imports |->
                    [state |-> "none", is_recalculation |-> FALSE,
                     created_age |-> 0, updated_age |-> 0]]
    /\ created = 0
    /\ requests = 0
    /\ msg = [i \in Imports |-> [place |-> "none", age |-> 0, n |-> 0]]
    /\ jobs = {}
    /\ requested = FALSE
    /\ faults = 0
    /\ losses = 0
    /\ redelivered = {}
    /\ duplicated = {}
    /\ halfway = {}

CountFault == faults < MaxFaults /\ faults' = faults + 1

CountLoss(i) ==
    /\ losses < MaxRedeliveries
    /\ losses' = losses + 1
    /\ redelivered' = redelivered \cup {i}

-----------------------------------------------------------------------------
(* rest_api, report_import.py                                               *)

\* Mutant of Unprocessed: a scheduled import blocks for ever.
UnprocessedForever ==
    \E i \in Imports : imports[i].state \in {"scheduled", "in_progress"}

\* check_unprocessed_imports
Unprocessed ==
    \E i \in Imports :
        \/ /\ imports[i].state = "scheduled"
           /\ imports[i].created_age =< NOT_PROCESSED_THRESHOLD
        \/ /\ imports[i].state = "in_progress"
           /\ imports[i].updated_age =< ACTIVE_IMPORT_THRESHOLD

\* ReportImportFileController.list(show_active=True)
Active ==
    {i \in Imports : /\ imports[i].state = "in_progress"
                     /\ imports[i].updated_age =< ACTIVE_IMPORT_THRESHOLD}

\* ReportImportBaseController.create: commit the row, then publish.
Create(recalculate) ==
    /\ created < MaxImports
    /\ created' = created + 1
    /\ imports' = [imports EXCEPT ![created + 1] =
                     [state |-> "scheduled", is_recalculation |-> recalculate,
                      created_age |-> 0, updated_age |-> 0]]
    /\ \/ /\ msg' = [msg EXCEPT ![created + 1] =
                       [place |-> "queued", age |-> 0, n |-> 0]]
          /\ UNCHANGED faults
       \/ CountFault /\ UNCHANGED msg
    /\ UNCHANGED <<jobs, requested, historyVars>>

\* ReportImportScheduleController.schedule reads, then creates: requests run
\* concurrently.
CheckSchedule ==
    /\ requests < MaxRequests
    /\ created + requests < MaxImports
    /\ ~Unprocessed
    /\ requests' = requests + 1
    /\ UNCHANGED <<rowVars, msg, jobs, faults, historyVars>>

\* Mutant of Schedule: the outcome of the check is not looked at.
ScheduleAnyway ==
    /\ requests' = requests - 1
    /\ Create(FALSE)

Schedule ==
    /\ requests > 0
    /\ requests' = requests - 1
    /\ Create(FALSE)

\* complete_upload creates an import of the uploaded file without a check.
CompleteUpload ==
    /\ created + requests < MaxImports
    /\ Create(FALSE)
    /\ UNCHANGED requests

\* ExpensesRecalculationScheduleController.schedule: no check either.
Recalculate ==
    /\ created + requests < MaxImports
    /\ Create(TRUE)
    /\ UNCHANGED requests

\* Mutant of IsInitial: the first import of the account, completed or not.
InitialIsFirst(i) ==
    \A k \in Imports : imports[k].state # "none" => i =< k

\* is_initial_completed_report: the completed import created first, whatever
\* its kind.
IsInitial(i) ==
    \A k \in Imports : imports[k].state = "completed" => i =< k

\* edit: updated_at = now whatever else is given.
Edited(row, state) ==
    [state |-> state, is_recalculation |-> row.is_recalculation,
     created_age |-> 0, updated_age |-> 0]
Touched(row) == [row EXCEPT !.updated_age = 0]

\* edit with a state.
Edit(i, state) == imports' = [imports EXCEPT ![i] = Edited(@, state)]

\* edit(state='completed'): the first completed import asks for a checklist
\* run, a recalculation never does.
EditCompleted(i) ==
    /\ Edit(i, "completed")
    /\ requested' =
         (requested \/ (~imports[i].is_recalculation /\ IsInitial(i)))

-----------------------------------------------------------------------------
(* diworker, main.py                                                        *)

\* What the broker does with a message.
Delivered(m) == [place |-> "held", age |-> m.age, n |-> m.n + 1]
Requeued(m) == [m EXCEPT !.place = "queued"]
Removed(m) == [place |-> "none", age |-> 0, n |-> m.n]

Move(j, pc) == jobs' = (jobs \ {j}) \cup {[j EXCEPT !.pc = pc]}

\* process_task: a thread of the pool takes the message; the broker never
\* delivers an expired one.
Receive(i) ==
    /\ msg[i].place = "queued"
    /\ msg[i].age =< MESSAGE_EXPIRATION
    /\ msg' = [msg EXCEPT ![i] = Delivered(@)]
    /\ jobs' = jobs \cup
         {[id |-> i, n |-> msg[i].n + 1, pc |-> "received", beat |-> FALSE,
           holds |-> TRUE, rivals |-> {}]}
    /\ UNCHANGED <<rowVars, requests, faults, historyVars>>

Importing == {j \in jobs : j.pc = "importing"}

Listed(j, pc, rivals) ==
    [id |-> j.id, n |-> j.n, pc |-> pc, beat |-> j.beat, holds |-> j.holds,
     rivals |-> rivals]

\* report_import_get and report_import_list(show_active=True), own id left out.
ListActive(j) ==
    /\ j.pc = "received"
    /\ jobs' = (jobs \ {j}) \cup
         {Listed(j, IF Active \ {j.id} = {} THEN "listed" ELSE "blocked",
                 {k.id : k \in Importing} \ {j.id})}
    /\ UNCHANGED <<rowVars, requests, msg, faults, historyVars>>

\* "Import cancelled due another import"
Cancel(j) ==
    /\ j.pc = "blocked"
    /\ Edit(j.id, "failed")
    /\ Move(j, "done")
    /\ UNCHANGED <<created, requested, requests, msg, faults, historyVars>>

Begin(j) ==
    /\ j.pc = "listed"
    /\ Edit(j.id, "in_progress")
    /\ Move(j, "importing")
    /\ UNCHANGED <<created, requested, requests, msg, faults, historyVars>>

\* A call before the try block raises: nothing is recorded, except that the
\* update itself may have been applied.
SetupRaises(j) ==
    /\ CountFault
    /\ j.pc \in {"received", "listed", "blocked"}
    /\ \/ UNCHANGED imports
       \/ j.pc = "listed" /\ Edit(j.id, "in_progress")
       \/ j.pc = "blocked" /\ Edit(j.id, "failed")
    /\ Move(j, "done")
    /\ UNCHANGED <<created, requested, requests, msg, historyVars>>

\* import_report returns, or raises (a disabled organization ends the same way).
Import(j) ==
    /\ j.pc = "importing"
    /\ \E pc \in {"imported", "failing"} : Move(j, pc)
    /\ UNCHANGED <<rowVars, requests, msg, faults, historyVars>>

SetCompleted(j) ==
    /\ j.pc = "imported"
    /\ EditCompleted(j.id)
    /\ Move(j, "done")
    /\ UNCHANGED <<created, requests, msg, faults, historyVars>>

\* The update raises: not applied, applied up to the commit, or applied in full
\* with its answer lost.  The except block reports a failure.
CompletedRaises(j) ==
    /\ CountFault
    /\ j.pc = "imported"
    /\ \/ UNCHANGED <<imports, requested>>
       \/ Edit(j.id, "completed") /\ UNCHANGED requested
       \/ EditCompleted(j.id)
    /\ Move(j, "failing")
    /\ halfway' = halfway \cup {j.id}
    /\ UNCHANGED <<created, requests, msg, losses, redelivered, duplicated>>

SetFailed(j) ==
    /\ j.pc = "failing"
    /\ Edit(j.id, "failed")
    /\ Move(j, "done")
    /\ UNCHANGED <<created, requested, requests, msg, faults, historyVars>>

\* The update in the except block raises: the thread ends, the row stays.
FailedRaises(j) ==
    /\ CountFault
    /\ j.pc = "failing"
    /\ Move(j, "done")
    /\ UNCHANGED <<rowVars, requests, msg, historyVars>>

\* The finally block and message.ack(), without effect on a lost channel.
Ack(j) ==
    /\ j.pc = "done"
    /\ jobs' = jobs \ {j}
    /\ msg' = IF j.holds
              THEN [msg EXCEPT ![j.id] = Removed(@)]
              ELSE msg
    /\ UNCHANGED <<rowVars, requests, faults, historyVars>>

Beating(j) == j.pc \in {"importing", "imported", "failing", "done"} /\ ~j.beat

\* Mutant of Heartbeat: the heartbeat writes the state it believes in.
HeartbeatState(j) ==
    /\ Beating(j)
    /\ jobs' = (jobs \ {j}) \cup {[j EXCEPT !.beat = TRUE]}
    /\ imports' = [imports EXCEPT ![j.id] =
                     [@ EXCEPT !.state = "in_progress", !.updated_age = 0]]
    /\ UNCHANGED <<created, requested, requests, msg, faults, historyVars>>

\* Mutant of Heartbeat: the update is not sent.
HeartbeatSilent(j) ==
    /\ Beating(j)
    /\ jobs' = (jobs \ {j}) \cup {[j EXCEPT !.beat = TRUE]}
    /\ UNCHANGED <<rowVars, requests, msg, faults, historyVars>>

\* heartbeat: report_import_update(id, {}) for the ids of the active set, read
\* before the calls, so a thread that has just finished is still touched.
Heartbeat(j) ==
    /\ Beating(j)
    /\ jobs' = (jobs \ {j}) \cup {[j EXCEPT !.beat = TRUE]}
    /\ imports' = [imports EXCEPT ![j.id] = Touched(@)]
    /\ UNCHANGED <<created, requested, requests, msg, faults, historyVars>>

\* "Heartbeat update failed": logged, the next one comes an interval later.
HeartbeatFails(j) ==
    /\ CountFault
    /\ Beating(j)
    /\ jobs' = (jobs \ {j}) \cup {[j EXCEPT !.beat = TRUE]}
    /\ UNCHANGED <<rowVars, requests, msg, historyVars>>

\* The process dies: the broker takes the message back.
Crash(j) ==
    /\ CountLoss(j.id)
    /\ jobs' = jobs \ {j}
    /\ msg' = IF j.holds THEN [msg EXCEPT ![j.id] = Requeued(@)] ELSE msg
    /\ UNCHANGED <<rowVars, requests, faults, duplicated, halfway>>

\* The consumer's connection is lost: the thread goes on without its message.
Disconnect(j) ==
    /\ j.holds
    /\ CountLoss(j.id)
    /\ jobs' = (jobs \ {j}) \cup {[j EXCEPT !.holds = FALSE]}
    /\ msg' = [msg EXCEPT ![j.id] = Requeued(@)]
    /\ duplicated' = duplicated \cup {j.id}
    /\ UNCHANGED <<rowVars, requests, faults, halfway>>

-----------------------------------------------------------------------------
\* The broker drops a message that waited too long.
Expire(i) ==
    /\ msg[i].place = "queued"
    /\ msg[i].age > MESSAGE_EXPIRATION
    /\ msg' = [msg EXCEPT ![i] = Removed(@)]
    /\ UNCHANGED <<rowVars, requests, jobs, faults, historyVars>>

Older(age, cap) == IF age < cap THEN age + 1 ELSE age

\* One heartbeat interval passes; every heartbeat thread came round in it.
Tick ==
    /\ \A j \in jobs : j.pc # "importing" \/ j.beat
    /\ jobs' = {[j EXCEPT !.beat = FALSE] : j \in jobs}
    /\ imports' = [i \in Imports |->
         CASE imports[i].state = "scheduled" ->
                [imports[i] EXCEPT !.created_age =
                   Older(@, NOT_PROCESSED_THRESHOLD + 1)]
           [] imports[i].state = "in_progress" ->
                [imports[i] EXCEPT !.updated_age =
                   Older(@, ACTIVE_IMPORT_THRESHOLD + 1)]
           [] OTHER -> imports[i]]
    /\ msg' = [i \in Imports |->
         IF msg[i].place = "none" THEN msg[i]
         ELSE [msg[i] EXCEPT !.age = Older(@, MESSAGE_EXPIRATION + 1)]]
    /\ UNCHANGED <<created, requested, requests, faults, historyVars>>

\* What a worker does of its own accord.
Thread(j) ==
    \/ ListActive(j) \/ Cancel(j) \/ Begin(j) \/ SetupRaises(j)
    \/ Import(j) \/ SetCompleted(j) \/ CompletedRaises(j)
    \/ SetFailed(j) \/ FailedRaises(j) \/ Ack(j)

Beat(j) == Heartbeat(j) \/ HeartbeatFails(j)

Broker == \E i \in Imports : Receive(i) \/ Expire(i)

RestApi == CheckSchedule \/ Schedule \/ CompleteUpload \/ Recalculate

Next ==
    \/ RestApi
    \/ Broker
    \/ \E j \in jobs : Thread(j) \/ Beat(j) \/ Crash(j) \/ Disconnect(j)
    \/ Tick

Spec == Init /\ [][Next]_vars

(***************************************************************************)
(* Fairness.  A cron job calls schedule() every import period, the broker  *)
(* delivers or expires what it queues, threads and heartbeats run and the  *)
(* clock advances.  Crashes and faults are bounded.                        *)
(***************************************************************************)
FairSpec ==
    /\ Spec
    /\ WF_vars(CheckSchedule)
    /\ WF_vars(Schedule)
    /\ WF_vars(Broker)
    /\ WF_vars(\E j \in jobs : Thread(j))
    /\ WF_vars(\E j \in jobs : Beat(j))
    /\ WF_vars(Tick)

-----------------------------------------------------------------------------
(* Properties.                                                              *)

(***************************************************************************)
(* The check of the active imports misses no live import: a thread goes on *)
(* only if nothing else of the account was importing at the moment of its  *)
(* check, although it looks at the age of a timestamp only and heartbeats  *)
(* may be missed.  (The row of a thread that lost its connection may be    *)
(* finished by the second delivery, so such imports are left out.)         *)
(***************************************************************************)
CheckSeesLiveImports ==
    \A j \in jobs :
        j.pc \in {"listed", "importing", "imported"} =>
            j.rivals \subseteq duplicated

(***************************************************************************)
(* The organization's first imported data get a checklist run: once a      *)
(* regular import is completed, schedule_next_run was called, unless a     *)
(* recalculation was the first to complete, an import was done more than   *)
(* once, or an update that completes an import failed half way.            *)
(***************************************************************************)
FirstImportRequestsRun ==
    \A i \in Imports :
        /\ imports[i].state = "completed"
        /\ ~imports[i].is_recalculation
        /\ \A k \in Imports :
              imports[k].is_recalculation => imports[k].state # "completed"
        /\ redelivered = {}
        /\ halfway = {}
        => requested

OutcomeKept ==
    \A i \in Imports \ redelivered' :
        /\ imports[i].state = "failed" => imports'[i].state = "failed"
        /\ imports[i].state = "completed" =>
              imports'[i].state \in {"completed", "failed"}

(***************************************************************************)
(* The outcome of an import is final: no late update, heartbeat or second  *)
(* worker reopens it, unless its message was delivered again; the only     *)
(* correction is that a half-failed completion becomes a failure.          *)
(***************************************************************************)
OutcomeIsFinal == [][OutcomeKept]_vars

(***************************************************************************)
(* Imports go on: whatever happens to the rows, messages and workers       *)
(* (lost, expired, crashed, never published), the account gets another     *)
(* import.                                                                 *)
(***************************************************************************)
ImportsContinue ==
    \A n \in 0 .. MaxImports :
        (created = n /\ n < MaxImports) ~> (created > n)

=============================================================================
