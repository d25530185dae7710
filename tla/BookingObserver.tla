-------------------------- MODULE BookingObserver --------------------------
(***************************************************************************)
(* docker_images/booking_observer: a cron job and rest_api publish         *)
(* observation tasks, one worker takes them from the queue, announces the  *)
(* bookings that began or ended since the last observation and records the *)
(* time of the task as observed.  Composed with Bookings, whose commits    *)
(* happen between any two steps of the worker.                             *)
(***************************************************************************)
EXTENDS Bookings, Sequences

CONSTANTS MaxQueue,   \* bound: tasks in the queue
          MaxFaults   \* bound: failed calls and crashes of the worker

ASSUME ObserverAssumption == MaxQueue \in Nat \ {0} /\ MaxFaults \in Nat

VARIABLES
  queue,      \* observe_time of the tasks, oldest first; the head is being worked on
  observed,   \* observe_time of the organization in webhook_observer
  worker,     \* the task in progress
  disabled,   \* the organization is disabled
  announced,  \* history: events published as activities
  skipped,    \* history: instants observed while the organization was disabled
  late,       \* history: events that were committed after they were observed
  faults

observerVars == <<queue, observed, worker, disabled, announced, skipped, late, faults>>
allVars == <<vars, observerVars>>

Actions == {"acquire", "release"}
Worker == [pc : {"idle", "list", "publish", "finish"}, start : 0..MaxTime,
           end : 0..MaxTime, todo : SUBSET (BookingIds \X Actions \X Times)]
NoTask == [pc |-> "idle", start |-> 0, end |-> 0, todo |-> {}]

\* The acquired_since and released_at of the bookings that are not deleted.
EventsOf(rows) ==
  {e \in BookingIds \X Actions \X Times :
     /\ rows[e[1]].status = "booked"
     /\ e[3] = IF e[2] = "acquire" THEN rows[e[1]].since ELSE rows[e[1]].until}

(***************************************************************************)
(* Tasks: from cron, and from rest_api after a release.                    *)
(***************************************************************************)
Schedule ==
  /\ ~disabled
  /\ Booked # {}
  /\ Len(queue) < MaxQueue
  /\ queue' = Append(queue, now)
  /\ UNCHANGED <<vars, observed, worker, disabled, announced, skipped, late, faults>>

PublishTask(r) ==
  /\ Publish(r)
  /\ Len(queue) < MaxQueue
  /\ queue' = Append(queue, now)
  /\ UNCHANGED <<observed, worker, disabled, announced, skipped, late, faults>>

(***************************************************************************)
(* The worker.                                                             *)
(***************************************************************************)
\* Mutant of Begin: a worker that does not wait for a task.
BeginUnprompted ==
  /\ worker.pc = "idle"
  /\ worker' = [pc |-> "list", start |-> observed, end |-> now, todo |-> {}]
  /\ UNCHANGED <<vars, queue, observed, disabled, announced, skipped, late, faults>>

Begin ==
  /\ worker.pc = "idle"
  /\ queue # <<>>
  /\ worker' = [pc |-> "list", start |-> observed, end |-> now, todo |-> {}]
  /\ UNCHANGED <<vars, queue, observed, disabled, announced, skipped, late, faults>>

\* Mutant of Window: the end is left to the query.
WindowUnending(start, end) == {t \in Times : start < t}

\* start_date < value <= end_date
Window(start, end) == {t \in Times : start < t /\ t <= end}

List ==
  /\ worker.pc = "list" /\ ~disabled
  /\ worker' = [worker EXCEPT !.pc = "publish",
                  !.todo = {e \in EventsOf(booking) : e[3] \in Window(worker.start, worker.end)}]
  /\ UNCHANGED <<vars, queue, observed, disabled, announced, skipped, late, faults>>

Announce(e) ==
  /\ worker.pc = "publish"
  /\ e \in worker.todo
  /\ announced' = announced \cup {e}
  /\ worker' = [worker EXCEPT !.todo = @ \ {e}]
  /\ UNCHANGED <<vars, queue, observed, disabled, skipped, late, faults>>

\* Mutant of Observed: everything up to the listing counts as observed.
ObservedUpToEnd == worker.end

\* _update_observe_time, whatever the stored time is.
Observed == Head(queue)

Finish ==
  /\ worker.pc = "publish" /\ worker.todo = {}
  /\ observed' = Observed
  /\ queue' = Tail(queue)
  /\ worker' = NoTask
  /\ UNCHANGED <<vars, disabled, announced, skipped, late, faults>>

SkipDisabled ==
  /\ worker.pc = "list" /\ disabled
  /\ observed' = Observed
  /\ skipped' = skipped \cup Window(worker.start, Head(queue))
  /\ queue' = Tail(queue)
  /\ worker' = NoTask
  /\ UNCHANGED <<vars, disabled, announced, late, faults>>

\* Mutant of AfterFailure: the task is taken for done.
AfterFailureDone == Observed

\* process_task logs the exception and acknowledges: the next task starts from
\* where the last complete one stopped.
AfterFailure == observed

Fail ==
  /\ worker.pc \in {"list", "publish"}
  /\ faults < MaxFaults
  /\ faults' = faults + 1
  /\ observed' = AfterFailure
  /\ queue' = Tail(queue)
  /\ worker' = NoTask
  /\ UNCHANGED <<vars, disabled, announced, skipped, late>>

\* The process dies, or the connection is lost, before the acknowledgement; it may
\* have recorded the observation already.
Crash ==
  /\ worker.pc \in {"list", "publish"}
  /\ faults < MaxFaults
  /\ faults' = faults + 1
  /\ observed' \in {observed} \cup
        {t \in Times : worker.pc = "publish" /\ worker.todo = {} /\ t = Observed}
  /\ worker' = NoTask
  /\ UNCHANGED <<vars, queue, disabled, announced, skipped, late>>

(***************************************************************************)
(* The bookings, seen by the observer.                                     *)
(***************************************************************************)
\* Instants that no listing still to come will cover.
Listed == Window(0, observed)
          \cup IF worker.pc = "publish" THEN Window(0, Head(queue)) ELSE {}

\* A commit that puts an event where the observation has already been.
Write(r) ==
  /\ Commit(r)
  /\ late' = late \cup {e \in EventsOf(booking') \ EventsOf(booking) : e[3] \in Listed}
  /\ UNCHANGED <<queue, observed, worker, disabled, announced, skipped, faults>>

Toggle == /\ disabled' = ~disabled
          /\ UNCHANGED <<vars, queue, observed, worker, announced, skipped, late, faults>>

Silent == /\ \/ Tick
             \/ \E r \in Requests : Ask(r) \/ Abort(r)
             \/ \E b \in BookingIds : \/ \E i \in Issues : Attach(b, i)
                                    \/ \E isAdmin \in BOOLEAN : Delete(b, isAdmin)
          /\ UNCHANGED observerVars

ObserverInit ==
  /\ Init
  /\ queue = <<>> /\ observed = 0 /\ worker = NoTask /\ disabled = FALSE
  /\ announced = {} /\ skipped = {} /\ late = {} /\ faults = 0

Work == Begin \/ List \/ (\E e \in worker.todo : Announce(e)) \/ Finish \/ SkipDisabled

ObserverNext ==
  \/ Silent \/ Toggle \/ Schedule \/ Work \/ Fail \/ Crash
  \/ \E r \in Requests : Write(r) \/ PublishTask(r)

ObserverSpec == ObserverInit /\ [][ObserverNext]_allVars

\* The worker is a running consumer and the cron job runs again and again; no
\* fairness is asked of users, of the clock or of the switch of the organization.
FairObserverSpec == ObserverSpec /\ WF_allVars(Work) /\ WF_allVars(Schedule)

-----------------------------------------------------------------------------
\* Every variable has its type, and only a worker with a task holds the queue.
ObserverTypeOK ==
  /\ queue \in Seq(Times) /\ Len(queue) <= MaxQueue
  /\ observed \in 0..MaxTime
  /\ worker \in Worker
  /\ worker.pc # "idle" => queue # <<>>
  /\ disabled \in BOOLEAN
  /\ announced \subseteq BookingIds \X Actions \X Times
  /\ skipped \subseteq Times /\ late \subseteq BookingIds \X Actions \X Times
  /\ faults \in 0..MaxFaults

\* Whatever the worker has put behind it has been announced: an acquisition or a
\* release at or before the observed time, whose booking was written before the
\* observation read the bookings, is among the published activities, through
\* failures, redeliveries, tasks out of order and releases announced by rest_api.
NothingMissed ==
  \A e \in EventsOf(booking) :
    e[3] <= observed /\ e[3] \notin skipped /\ e \notin late => e \in announced

\* An activity is never published before its time: nobody is told that a booking
\* has begun or ended while it lies in the future.
NothingEarly == \A e \in announced : e[3] <= now

Pending(e) == /\ e \in EventsOf(booking) \ (late \cup announced)
              /\ e[3] <= now /\ e[3] \notin skipped

\* A begin or an end that is due gets announced, if its booking stays as it is and
\* the organization is not disabled: failed and lost tasks are made up for by later
\* ones.
EventuallyAnnounced ==
  \A e \in BookingIds \X Actions \X Times :
    Pending(e) ~> ~Pending(e) \/ disabled
=============================================================================
