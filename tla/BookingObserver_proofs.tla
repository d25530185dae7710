----------------------- MODULE BookingObserver_proofs -----------------------
(***************************************************************************)
(* Proofs about the booking observer, composed with the bookings: types,   *)
(* and that it announces neither too early nor too little.                 *)
(***************************************************************************)
EXTENDS BookingObserver, Bookings_proofs, SequenceTheorems

-----------------------------------------------------------------------------
(***************************************************************************)
(* Events.                                                                 *)
(***************************************************************************)
LEMMA EventParts ==
  ASSUME NEW rows, NEW e \in EventsOf(rows)
  PROVE  /\ e \in BookingIds \X Actions \X Times
         /\ rows[e[1]].status = "booked"
         /\ e[3] = IF e[2] = "acquire" THEN rows[e[1]].since ELSE rows[e[1]].until
  BY DEF EventsOf
\* An event is still one if its booking was not changed.
LEMMA EventStays ==
  ASSUME NEW rows, NEW next, NEW e \in EventsOf(next), next[e[1]] = rows[e[1]]
  PROVE  e \in EventsOf(rows)
  BY DEF EventsOf

-----------------------------------------------------------------------------
(***************************************************************************)
(* The queue.                                                              *)
(***************************************************************************)
LEMMA TakenQueue ==
  ASSUME NEW q \in Seq(Times), q # <<>>
  PROVE  /\ Head(q) \in Times /\ Head(q) = q[1] /\ Len(q) \in Nat /\ Len(q) >= 1
         /\ Tail(q) \in Seq(Times) /\ Len(Tail(q)) = Len(q) - 1
         /\ \A k \in 1..Len(Tail(q)) : k + 1 \in 1..Len(q) /\ Tail(q)[k] = q[k + 1]
<1>1. Len(q) \in Nat /\ Len(q) >= 1
  BY EmptySeq, LenProperties
<1>2. /\ Head(q) \in Times /\ Tail(q) \in Seq(Times) /\ Len(Tail(q)) = Len(q) - 1
  BY HeadTailProperties
<1>3. Head(q) = q[1]
  OBVIOUS
<1>4. ASSUME NEW k \in 1..Len(Tail(q))  PROVE k + 1 \in 1..Len(q) /\ Tail(q)[k] = q[k + 1]
  <2>1. k + 1 \in 1..Len(q)
    BY <1>1, <1>2
  <2>2. Tail(q)[k] = q[k + 1]
    BY <1>1, <1>2
  <2> QED  BY <2>1, <2>2
<1> QED  BY <1>1, <1>2, <1>3, <1>4

LEMMA GrownQueue ==
  ASSUME NEW q \in Seq(Times), NEW t \in Times
  PROVE  /\ Append(q, t) \in Seq(Times) /\ Append(q, t) # <<>>
         /\ Len(q) \in Nat /\ Len(Append(q, t)) = Len(q) + 1
         /\ \A k \in 1..Len(q) : Append(q, t)[k] = q[k]
         /\ Append(q, t)[Len(q) + 1] = t
         /\ q # <<>> => Head(Append(q, t)) = Head(q)
<1>1. /\ Append(q, t) \in Seq(Times) /\ Append(q, t) # <<>>
      /\ Len(q) \in Nat /\ Len(Append(q, t)) = Len(q) + 1
      /\ \A k \in 1..Len(q) : Append(q, t)[k] = q[k]
      /\ Append(q, t)[Len(q) + 1] = t
  BY AppendProperties, LenProperties
<1>2. ASSUME q # <<>>  PROVE Head(Append(q, t)) = Head(q)
  <2>1. 1 \in 1..Len(q)
    BY <1>2, TakenQueue
  <2>2. Head(q) = q[1] /\ Head(Append(q, t)) = Append(q, t)[1]
    BY <1>1, <1>2, TakenQueue
  <2> QED  BY <1>1, <2>1, <2>2
<1> QED  BY <1>1, <1>2

-----------------------------------------------------------------------------
(***************************************************************************)
(* The bookings go on as they do without an observer.                      *)
(***************************************************************************)
LEMMA BookingsGoOn ==
  ASSUME [ObserverNext]_allVars
  PROVE  [Next]_vars
<1>1. CASE Silent
  BY <1>1 DEF Silent, Next
<1>2. ASSUME NEW r \in Requests, Write(r) \/ PublishTask(r)  PROVE Next
  BY <1>2 DEF Write, PublishTask, Next
<1>3. CASE Toggle \/ Schedule \/ Work \/ Fail \/ Crash \/ UNCHANGED allVars
  BY <1>3 DEF Toggle, Schedule, Work, Begin, List, Announce, Finish, SkipDisabled,
              Fail, Crash, allVars
<1> QED  BY <1>1, <1>2, <1>3 DEF ObserverNext

\* The bookings change in a commit and when one is deleted, and lose only events
\* in the latter.
LEMMA DeletedEvents ==
  ASSUME TypeOK, NEW b \in BookingIds, NEW isAdmin \in BOOLEAN, Delete(b, isAdmin)
  PROVE  \A e \in EventsOf(booking') : e \in EventsOf(booking)
<1>1. /\ booking'[b].status = "deleted"
      /\ \A c \in BookingIds \ {b} : booking'[c] = booking[c]
  BY DeleteEffect
<1>2. ASSUME NEW e \in EventsOf(booking')  PROVE e \in EventsOf(booking)
  <2>1. e[1] \in BookingIds /\ booking'[e[1]].status = "booked"
    BY EventParts
  <2>2. booking'[e[1]] = booking[e[1]]
    BY <1>1, <2>1
  <2> QED  BY <2>2, EventStays
<1> QED  BY <1>2

LEMMA SilentEffect ==
  ASSUME TypeOK, Silent
  PROVE  /\ UNCHANGED observerVars /\ now <= now'
         /\ \A e \in EventsOf(booking') : e \in EventsOf(booking)
<1>1. now \in Nat
  BY DEF TypeOK, Times
<1>2. ASSUME Tick
      PROVE  now <= now' /\ \A e \in EventsOf(booking') : e \in EventsOf(booking)
  BY <1>1, <1>2 DEF Tick
<1>3. ASSUME NEW r \in Requests, Ask(r) \/ Abort(r)
      PROVE  UNCHANGED <<now, booking>>
  <2>1. CASE Ask(r)
    <3>1. PICK op \in Op : Decides(r, op)
      BY <2>1, AskEffect
    <3> QED  BY <3>1 DEF Decides
  <2>2. CASE Abort(r)
    BY <2>2 DEF Abort
  <2> QED  BY <1>3, <2>1, <2>2
<1>4. ASSUME NEW b \in BookingIds, NEW i \in Issues, Attach(b, i)
      PROVE  UNCHANGED <<now, booking>>
  BY <1>4 DEF Attach
<1>5. ASSUME NEW b \in BookingIds, NEW isAdmin \in BOOLEAN, Delete(b, isAdmin)
      PROVE  now' = now /\ \A e \in EventsOf(booking') : e \in EventsOf(booking)
  BY <1>5, DeletedEvents DEF Delete
<1>6. ASSUME UNCHANGED <<now, booking>>
      PROVE  now <= now' /\ \A e \in EventsOf(booking') : e \in EventsOf(booking)
  BY <1>1, <1>6
<1>7. now <= now' /\ \A e \in EventsOf(booking') : e \in EventsOf(booking)
  <2>1. CASE Tick
    BY <1>2, <2>1
  <2>2. CASE \E r \in Requests : Ask(r) \/ Abort(r)
    BY <1>3, <1>6, <2>2
  <2>3. CASE \E b \in BookingIds, i \in Issues : Attach(b, i)
    BY <1>4, <1>6, <2>3
  <2>4. CASE \E b \in BookingIds, isAdmin \in BOOLEAN : Delete(b, isAdmin)
    BY <1>1, <1>5, <2>4
  <2> QED  BY <2>1, <2>2, <2>3, <2>4 DEF Silent
<1> QED  BY <1>7 DEF Silent

\* A step that is not a write, of the users or of the clock, leaves the rows alone.
LEMMA RestEffect ==
  ASSUME \/ Toggle \/ Schedule \/ Work \/ Fail \/ Crash \/ UNCHANGED allVars
         \/ \E r \in Requests : PublishTask(r)
  PROVE  UNCHANGED <<now, booking>>
<1>1. ASSUME NEW r \in Requests, PublishTask(r)  PROVE UNCHANGED <<now, booking>>
  BY <1>1 DEF PublishTask, Publish
<1>2. CASE Toggle \/ Schedule \/ Work \/ Fail \/ Crash \/ UNCHANGED allVars
  BY <1>2 DEF Toggle, Schedule, Work, Begin, List, Announce, Finish, SkipDisabled,
              Fail, Crash, allVars, vars
<1> QED  BY <1>1, <1>2

\* What a task of the worker may be.
LEMMA WorkerParts ==
  ASSUME NEW w \in Worker
  PROVE  /\ w.pc \in {"idle", "list", "publish", "finish"}
         /\ w.start \in 0..MaxTime /\ w.end \in 0..MaxTime
         /\ w.todo \subseteq BookingIds \X Actions \X Times
  BY DEF Worker

LEMMA NoTaskParts ==
  /\ NoTask \in Worker /\ NoTask.pc = "idle" /\ NoTask.start = 0 /\ NoTask.end = 0
  /\ NoTask.todo = {}
  BY BookingsAssumption DEF NoTask, Worker

LEMMA BeginEffect ==
  ASSUME TypeOK, ObserverTypeOK, Begin
  PROVE  /\ worker' \in Worker /\ worker'.pc = "list" /\ worker'.todo = {}
         /\ worker'.start = observed /\ worker'.end = now /\ queue # <<>>
<1>1. now \in 0..MaxTime /\ observed \in 0..MaxTime
  BY DEF TypeOK, Times, ObserverTypeOK
<1> QED  BY <1>1 DEF Begin, Worker

LEMMA ListEffect ==
  ASSUME ObserverTypeOK, List
  PROVE  /\ worker' \in Worker /\ worker'.pc = "publish"
         /\ worker'.start = worker.start /\ worker'.end = worker.end
         /\ worker'.todo = {e \in EventsOf(booking) : e[3] \in Window(worker.start, worker.end)}
<1>1. PICK todo : todo = {e \in EventsOf(booking) : e[3] \in Window(worker.start, worker.end)}
  OBVIOUS
<1>2. todo \in SUBSET (BookingIds \X Actions \X Times)
  BY <1>1, EventParts
<1>3. worker' = [worker EXCEPT !.pc = "publish", !.todo = todo] /\ worker \in Worker
  BY <1>1 DEF List, ObserverTypeOK
<1>4. /\ worker' \in Worker /\ worker'.pc = "publish" /\ worker'.start = worker.start
      /\ worker'.end = worker.end /\ worker'.todo = todo
  BY <1>2, <1>3 DEF Worker
<1> QED  BY <1>1, <1>4

LEMMA AnnounceEffect ==
  ASSUME ObserverTypeOK, NEW e \in worker.todo, Announce(e)
  PROVE  /\ worker' \in Worker /\ worker'.pc = "publish" /\ worker.pc = "publish"
         /\ worker'.start = worker.start /\ worker'.end = worker.end
         /\ worker'.todo = worker.todo \ {e}
<1>1. PICK todo : todo = worker.todo \ {e}
  OBVIOUS
<1>2. worker' = [worker EXCEPT !.todo = todo] /\ worker \in Worker /\ worker.pc = "publish"
  BY <1>1 DEF Announce, ObserverTypeOK
<1>3. todo \in SUBSET (BookingIds \X Actions \X Times)
  BY <1>1, <1>2 DEF Worker
<1>4. /\ worker' \in Worker /\ worker'.pc = "publish" /\ worker'.start = worker.start
      /\ worker'.end = worker.end /\ worker'.todo = todo
  BY <1>2, <1>3 DEF Worker
<1> QED  BY <1>1, <1>2, <1>4

-----------------------------------------------------------------------------
(***************************************************************************)
(* Types.                                                                  *)
(***************************************************************************)
LEMMA TaskTaken ==
  ASSUME ObserverTypeOK, queue # <<>>
  PROVE  /\ Observed \in Times /\ Head(queue) = queue[1] /\ 1 \in 1..Len(queue)
         /\ Tail(queue) \in Seq(Times) /\ Len(Tail(queue)) <= MaxQueue
         /\ \A k \in 1..Len(Tail(queue)) :
              k + 1 \in 1..Len(queue) /\ Tail(queue)[k] = queue[k + 1]
<1>1. queue \in Seq(Times) /\ Len(queue) <= MaxQueue /\ MaxQueue \in Nat
  BY ObserverAssumption DEF ObserverTypeOK
<1>2. /\ Head(queue) \in Times /\ Head(queue) = queue[1] /\ Len(queue) \in Nat
      /\ Len(queue) >= 1 /\ Tail(queue) \in Seq(Times) /\ Len(Tail(queue)) = Len(queue) - 1
      /\ \A k \in 1..Len(Tail(queue)) :
           k + 1 \in 1..Len(queue) /\ Tail(queue)[k] = queue[k + 1]
  BY <1>1, TakenQueue
<1> QED  BY <1>1, <1>2 DEF Observed

LEMMA TaskAdded ==
  ASSUME TypeOK, ObserverTypeOK, Len(queue) < MaxQueue, queue' = Append(queue, now)
  PROVE  /\ queue' \in Seq(Times) /\ Len(queue') <= MaxQueue /\ queue' # <<>>
         /\ \A k \in 1..Len(queue') : queue'[k] = now \/ (k \in 1..Len(queue) /\ queue'[k] = queue[k])
         /\ queue # <<>> => Head(queue') = Head(queue)
<1>1. queue \in Seq(Times) /\ MaxQueue \in Nat /\ now \in Times
  BY ObserverAssumption DEF ObserverTypeOK, TypeOK
<1>2. /\ queue' \in Seq(Times) /\ queue' # <<>>
      /\ Len(queue) \in Nat /\ Len(queue') = Len(queue) + 1
      /\ \A k \in 1..Len(queue) : queue'[k] = queue[k]
      /\ queue'[Len(queue) + 1] = now
      /\ queue # <<>> => Head(queue') = Head(queue)
  BY <1>1, GrownQueue
<1>3. ASSUME NEW k \in 1..Len(queue')
      PROVE  queue'[k] = now \/ (k \in 1..Len(queue) /\ queue'[k] = queue[k])
  <2>1. k = Len(queue) + 1 \/ k \in 1..Len(queue)
    BY <1>2
  <2> QED  BY <1>2, <2>1
<1>4. Len(queue') <= MaxQueue
  BY <1>1, <1>2
<1> QED  BY <1>2, <1>3, <1>4

LEMMA ObserverTypeStep ==
  ASSUME TypeOK, ObserverTypeOK, [ObserverNext]_allVars
  PROVE  ObserverTypeOK'
<1>1. CASE Silent \/ UNCHANGED allVars
  BY <1>1 DEF Silent, allVars, observerVars, ObserverTypeOK
<1>2. CASE Toggle
  BY <1>2 DEF Toggle, ObserverTypeOK
<1>3. CASE Schedule \/ \E r \in Requests : PublishTask(r)
  <2>1. /\ Len(queue) < MaxQueue /\ queue' = Append(queue, now)
        /\ UNCHANGED <<observed, worker, disabled, announced, skipped, late, faults>>
    BY <1>3 DEF Schedule, PublishTask
  <2>2. queue' \in Seq(Times) /\ Len(queue') <= MaxQueue /\ queue' # <<>>
    BY <2>1, TaskAdded
  <2> QED  BY <2>1, <2>2 DEF ObserverTypeOK
<1>4. CASE Begin
  <2>1. worker' \in Worker /\ queue # <<>>
    BY <1>4, BeginEffect
  <2>2. UNCHANGED <<queue, observed, disabled, announced, skipped, late, faults>>
    BY <1>4 DEF Begin
  <2> QED  BY <2>1, <2>2 DEF ObserverTypeOK
<1>5. CASE List
  <2>1. worker' \in Worker
    BY <1>5, ListEffect
  <2>2. /\ UNCHANGED <<queue, observed, disabled, announced, skipped, late, faults>>
        /\ queue # <<>>
    BY <1>5 DEF List, ObserverTypeOK
  <2> QED  BY <2>1, <2>2 DEF ObserverTypeOK
<1>6. ASSUME NEW e \in worker.todo, Announce(e)  PROVE ObserverTypeOK'
  <2>1. worker' \in Worker /\ worker.pc = "publish"
    BY <1>6, AnnounceEffect
  <2>2. /\ UNCHANGED <<queue, observed, disabled, skipped, late, faults>>
        /\ announced' = announced \cup {e}
    BY <1>6 DEF Announce
  <2>3. queue # <<>> /\ e \in BookingIds \X Actions \X Times
    BY <1>6, <2>1 DEF ObserverTypeOK, Worker
  <2> QED  BY <2>1, <2>2, <2>3 DEF ObserverTypeOK
<1>7. CASE Finish \/ SkipDisabled \/ Fail
  <2>1. /\ worker.pc # "idle" /\ queue' = Tail(queue) /\ worker' = NoTask
        /\ observed' \in {observed, Observed}
        /\ UNCHANGED <<disabled, announced, late>>
    BY <1>7 DEF Finish, SkipDisabled, Fail, AfterFailure
  <2>2. queue # <<>>
    BY <2>1 DEF ObserverTypeOK
  <2>3. Observed \in Times /\ Tail(queue) \in Seq(Times) /\ Len(Tail(queue)) <= MaxQueue
    BY <2>2, TaskTaken
  <2>4. observed' \in 0..MaxTime
    BY <2>1, <2>3 DEF ObserverTypeOK, Times
  <2>5. skipped' \subseteq Times
    BY <1>7 DEF Finish, SkipDisabled, Fail, ObserverTypeOK, Window
  <2>6. faults' \in 0..MaxFaults
    BY <1>7, ObserverAssumption DEF Finish, SkipDisabled, Fail, ObserverTypeOK
  <2> QED  BY <2>1, <2>3, <2>4, <2>5, <2>6, NoTaskParts DEF ObserverTypeOK
<1>8. CASE Crash
  <2>1. /\ worker.pc # "idle" /\ worker' = NoTask
        /\ observed' \in {observed} \cup Times
        /\ UNCHANGED <<queue, disabled, announced, skipped, late>>
    BY <1>8 DEF Crash
  <2>2. observed' \in 0..MaxTime
    BY <2>1 DEF ObserverTypeOK, Times
  <2>3. faults' \in 0..MaxFaults
    BY <1>8, ObserverAssumption DEF Crash, ObserverTypeOK
  <2> QED  BY <2>1, <2>2, <2>3, NoTaskParts DEF ObserverTypeOK
<1>9. ASSUME NEW r \in Requests, Write(r)  PROVE ObserverTypeOK'
  <2>1. late' \subseteq BookingIds \X Actions \X Times
    BY <1>9, EventParts DEF Write, ObserverTypeOK
  <2>2. UNCHANGED <<queue, observed, worker, disabled, announced, skipped, faults>>
    BY <1>9 DEF Write
  <2> QED  BY <2>1, <2>2 DEF ObserverTypeOK
<1> QED
  BY <1>1, <1>2, <1>3, <1>4, <1>5, <1>6, <1>7, <1>8, <1>9 DEF ObserverNext, Work

LEMMA ObserverInitial == ObserverInit => TypeOK /\ ObserverTypeOK
<1>1. ASSUME ObserverInit  PROVE TypeOK
  BY <1>1, BookingsTypeInit DEF ObserverInit
<1>2. <<>> \in Seq(Times) /\ Len(<<>>) = 0 /\ 0 <= MaxQueue /\ 0 \in 0..MaxFaults
      /\ 0 \in 0..MaxTime
  BY EmptySeq, BookingsAssumption, ObserverAssumption
<1>3. ASSUME ObserverInit  PROVE ObserverTypeOK
  BY <1>2, <1>3, NoTaskParts DEF ObserverInit, ObserverTypeOK
<1> QED  BY <1>1, <1>3

\* The queue, the worker and the histories keep their types, and only a worker that
\* holds a task of the queue works (booking_observer_worker).
THEOREM ObserverTypeCorrect == ObserverSpec => [](TypeOK /\ ObserverTypeOK)
<1>1. TypeOK /\ ObserverTypeOK /\ [ObserverNext]_allVars => TypeOK' /\ ObserverTypeOK'
  BY BookingsGoOn, BookingsTypeStep, ObserverTypeStep
<1> QED  BY <1>1, ObserverInitial, PTL DEF ObserverSpec

-----------------------------------------------------------------------------
(***************************************************************************)
(* Not too early.                                                          *)
(***************************************************************************)
\* The tasks of the queue, and what is being listed, lie in the past; a task
\* starts where the observation stands and ends no earlier than its own time.
TaskTimes ==
  /\ \A k \in 1..Len(queue) : queue[k] <= now
  /\ worker.end <= now
  /\ worker.pc # "idle" => worker.start = observed /\ Head(queue) <= worker.end

\* What is still to be announced was listed, so its time has come.
TodoInv == \A e \in worker.todo : e[3] <= worker.end

LEMMA ClockMovesOn ==
  ASSUME TypeOK, [ObserverNext]_allVars
  PROVE  now \in Nat /\ now' \in Nat /\ now <= now'
<1>1. now \in Nat
  BY DEF TypeOK, Times
<1>2. CASE Silent
  BY <1>1, <1>2, SilentEffect, BookingsGoOn, BookingsTypeStep DEF TypeOK, Times
<1>3. ASSUME NEW r \in Requests, Write(r)  PROVE now' = now
  BY <1>3 DEF Write, Commit, CommitCreate, CommitRelease, CommitDetach
<1>4. CASE \/ Toggle \/ Schedule \/ Work \/ Fail \/ Crash \/ UNCHANGED allVars
           \/ \E r \in Requests : PublishTask(r)
  BY <1>1, <1>4, RestEffect
<1> QED  BY <1>1, <1>2, <1>3, <1>4 DEF ObserverNext

\* Earlier times stay earlier.
LEMMA StillPast ==
  ASSUME NEW t \in Nat, now \in Nat, now' \in Nat, now <= now', t <= now
  PROVE  t <= now'
  OBVIOUS

LEMMA TasksArePast ==
  ASSUME TypeOK, ObserverTypeOK, TaskTimes, [ObserverNext]_allVars
  PROVE  TaskTimes'
<1>t. /\ now \in Nat /\ now' \in Nat /\ now <= now' /\ queue \in Seq(Times)
      /\ worker \in Worker /\ worker.end \in Nat /\ observed \in Nat
  BY ClockMovesOn, WorkerParts, BookingsAssumption DEF ObserverTypeOK
<1>q. ASSUME queue' = queue  PROVE \A k \in 1..Len(queue') : queue'[k] <= now'
  <2>1. ASSUME NEW k \in 1..Len(queue)  PROVE queue[k] <= now'
    <3>1. PICK t \in Times : t = queue[k]
      BY <1>t, ElementOfSeq
    <3>2. t \in Nat /\ t <= now
      BY <3>1 DEF TaskTimes, Times
    <3> QED  BY <1>t, <3>1, <3>2, StillPast
  <2> QED  BY <1>q, <2>1
<1>w. ASSUME worker' = worker  PROVE worker'.end <= now'
  BY <1>t, <1>w, StillPast DEF TaskTimes
<1>1. CASE \/ Silent \/ Toggle \/ UNCHANGED allVars
           \/ \E r \in Requests : Write(r)
  <2>1. UNCHANGED <<queue, worker, observed>>
    BY <1>1 DEF Silent, Toggle, Write, allVars, observerVars
  <2> QED  BY <1>q, <1>w, <2>1 DEF TaskTimes
<1>2. CASE Schedule \/ \E r \in Requests : PublishTask(r)
  <2>1. /\ Len(queue) < MaxQueue /\ queue' = Append(queue, now)
        /\ UNCHANGED <<now, worker, observed>>
    BY <1>2, RestEffect DEF Schedule, PublishTask
  <2>2. /\ \A k \in 1..Len(queue') : queue'[k] = now \/ (k \in 1..Len(queue) /\ queue'[k] = queue[k])
        /\ queue # <<>> => Head(queue') = Head(queue)
    BY <2>1, TaskAdded
  <2>3. \A k \in 1..Len(queue') : queue'[k] <= now'
    BY <1>t, <2>1, <2>2 DEF TaskTimes
  <2>4. worker.pc # "idle" => queue # <<>>
    BY DEF ObserverTypeOK
  <2> QED  BY <1>w, <2>1, <2>2, <2>3, <2>4 DEF TaskTimes
<1>3. CASE Begin
  <2>1. UNCHANGED <<now, queue, observed>>
    BY <1>3, RestEffect DEF Begin, Work
  <2>2. worker'.start = observed /\ worker'.end = now /\ queue # <<>>
    BY <1>3, BeginEffect
  <2>3. Head(queue) <= now
    BY <2>2, TaskTaken DEF TaskTimes
  <2> QED  BY <1>t, <1>q, <2>1, <2>2, <2>3 DEF TaskTimes
<1>4. CASE List \/ \E e \in worker.todo : Announce(e)
  <2>1. UNCHANGED <<now, queue, observed>>
    BY <1>4, RestEffect DEF List, Announce, Work
  <2>2. /\ worker.pc # "idle" /\ worker'.pc # "idle"
        /\ worker'.start = worker.start /\ worker'.end = worker.end
    <3>1. CASE List
      BY <3>1, ListEffect DEF List
    <3>2. ASSUME NEW e \in worker.todo, Announce(e)
          PROVE  /\ worker.pc # "idle" /\ worker'.pc # "idle"
                 /\ worker'.start = worker.start /\ worker'.end = worker.end
      BY <3>2, AnnounceEffect
    <3> QED  BY <1>4, <3>1, <3>2
  <2> QED  BY <1>q, <2>1, <2>2 DEF TaskTimes
<1>5. CASE Finish \/ SkipDisabled \/ Fail
  <2>1. worker.pc # "idle" /\ queue' = Tail(queue) /\ worker' = NoTask /\ now' = now
    BY <1>5, RestEffect DEF Finish, SkipDisabled, Fail, Work
  <2>2. queue # <<>>
    BY <2>1 DEF ObserverTypeOK
  <2>3. \A k \in 1..Len(queue') : queue'[k] <= now'
    BY <2>1, <2>2, TaskTaken DEF TaskTimes
  <2> QED  BY <1>t, <2>1, <2>3, NoTaskParts DEF TaskTimes
<1>6. CASE Crash
  <2>1. worker' = NoTask /\ queue' = queue
    BY <1>6 DEF Crash
  <2> QED  BY <1>t, <1>q, <2>1, NoTaskParts DEF TaskTimes
<1> QED  BY <1>1, <1>2, <1>3, <1>4, <1>5, <1>6 DEF ObserverNext, Work

LEMMA TodoIsPast ==
  ASSUME TypeOK, ObserverTypeOK, TodoInv, [ObserverNext]_allVars
  PROVE  TodoInv'
<1>1. CASE \/ Silent \/ Toggle \/ Schedule \/ UNCHANGED allVars
           \/ \E r \in Requests : Write(r) \/ PublishTask(r)
  <2>1. worker' = worker
    BY <1>1 DEF Silent, Toggle, Schedule, Write, PublishTask, allVars, observerVars
  <2> QED  BY <2>1 DEF TodoInv
<1>2. CASE Begin
  BY <1>2, BeginEffect DEF TodoInv
<1>3. CASE List
  <2>1. \A e \in worker'.todo : e[3] \in Window(worker.start, worker.end)
    BY <1>3, ListEffect
  <2> QED  BY <1>3, <2>1, ListEffect DEF TodoInv, Window
<1>4. ASSUME NEW e \in worker.todo, Announce(e)  PROVE TodoInv'
  BY <1>4, AnnounceEffect DEF TodoInv
<1>5. CASE Finish \/ SkipDisabled \/ Fail \/ Crash
  <2>1. worker' = NoTask
    BY <1>5 DEF Finish, SkipDisabled, Fail, Crash
  <2> QED  BY <2>1, NoTaskParts DEF TodoInv
<1> QED  BY <1>1, <1>2, <1>3, <1>4, <1>5 DEF ObserverNext, Work

LEMMA NothingEarlyStep ==
  ASSUME TypeOK, ObserverTypeOK, TaskTimes, TodoInv, NothingEarly, [ObserverNext]_allVars
  PROVE  NothingEarly'
<1>t. /\ now \in Nat /\ now' \in Nat /\ now <= now'
      /\ \A e \in announced : e[3] \in Nat
  BY ClockMovesOn DEF ObserverTypeOK, Times
<1>1. ASSUME announced' = announced  PROVE NothingEarly'
  BY <1>t, <1>1, StillPast DEF NothingEarly
<1>2. ASSUME NEW e \in worker.todo, Announce(e)  PROVE NothingEarly'
  <2>1. announced' = announced \cup {e} /\ now' = now
    BY <1>2, RestEffect DEF Announce, Work
  <2>2. e[3] \in Nat /\ worker.end \in Nat
    BY WorkerParts, BookingsAssumption DEF ObserverTypeOK, Times
  <2>3. e[3] <= now
    BY <1>t, <2>2 DEF TodoInv, TaskTimes
  <2> QED  BY <2>1, <2>3 DEF NothingEarly
<1>3. CASE \/ Silent \/ Toggle \/ Schedule \/ Begin \/ List \/ Finish \/ SkipDisabled
           \/ Fail \/ Crash \/ UNCHANGED allVars
           \/ \E r \in Requests : Write(r) \/ PublishTask(r)
  BY <1>1, <1>3 DEF Silent, Toggle, Schedule, Begin, List, Finish, SkipDisabled, Fail, Crash,
                    Write, PublishTask, allVars, observerVars
<1> QED  BY <1>2, <1>3 DEF ObserverNext, Work

LEMMA TimesInitial == ObserverInit => TaskTimes /\ TodoInv /\ NothingEarly
<1>1. ASSUME ObserverInit  PROVE TaskTimes
  BY <1>1, NoTaskParts, EmptySeq DEF ObserverInit, Init, TaskTimes
<1>2. ASSUME ObserverInit  PROVE TodoInv /\ NothingEarly
  BY <1>2, NoTaskParts DEF ObserverInit, TodoInv, NothingEarly
<1> QED  BY <1>1, <1>2

\* Nothing is announced before its time: a task of the queue lies in the past, its
\* listing is bounded by its end, and the clock never goes back (_process_bookings).
THEOREM NeverAnnouncedEarly == ObserverSpec => []NothingEarly
<1>1. TypeOK /\ TaskTimes /\ TodoInv /\ NothingEarly /\ ObserverTypeOK /\ [ObserverNext]_allVars
        => TaskTimes' /\ TodoInv' /\ NothingEarly'
  BY TasksArePast, TodoIsPast, NothingEarlyStep
<1> QED  BY <1>1, TimesInitial, ObserverTypeCorrect, PTL DEF ObserverSpec

-----------------------------------------------------------------------------
(***************************************************************************)
(* Not too little.                                                         *)
(***************************************************************************)
\* While the worker publishes, every event between its start and the time of its
\* task is announced or still to be announced, unless it was committed too late.
ListedInv ==
  worker.pc = "publish" =>
    \A e \in EventsOf(booking) :
      worker.start < e[3] /\ e[3] <= Head(queue) /\ e \notin late
        => e \in announced \cup worker.todo

LEMMA EventTime ==
  ASSUME NEW rows, NEW e \in EventsOf(rows)
  PROVE  e[3] \in Times /\ e[3] \in Nat /\ 0 < e[3]
<1>1. e[3] \in Times
  BY EventParts
<1> QED  BY <1>1 DEF Times

LEMMA WorkTimes ==
  ASSUME TypeOK, ObserverTypeOK, TaskTimes
  PROVE  /\ observed \in Nat /\ worker.start \in Nat /\ worker.end \in Nat
         /\ worker.pc # "idle" =>
              /\ queue # <<>> /\ Head(queue) \in Times /\ Head(queue) \in Nat
              /\ worker.start = observed /\ Head(queue) <= worker.end
<1>1. observed \in Nat /\ worker.start \in Nat /\ worker.end \in Nat
  BY WorkerParts, BookingsAssumption DEF ObserverTypeOK
<1>2. ASSUME worker.pc # "idle"
      PROVE  queue # <<>> /\ Head(queue) \in Times /\ Head(queue) \in Nat
  <2>1. queue # <<>>
    BY <1>2 DEF ObserverTypeOK
  <2>2. Head(queue) \in Times
    BY <2>1, TaskTaken DEF Observed
  <2> QED  BY <2>1, <2>2 DEF Times
<1> QED  BY <1>1, <1>2 DEF TaskTimes

\* A commit adds only events that are marked, if the observation has passed them.
LEMMA WriteEffect ==
  ASSUME NEW r \in Requests, Write(r), NEW e \in EventsOf(booking'), e \notin late'
  PROVE  e \notin late /\ (e \in EventsOf(booking) \/ e[3] \notin Listed)
  BY DEF Write

LEMMA ListedStep ==
  ASSUME TypeOK, ObserverTypeOK, TaskTimes, ListedInv, [ObserverNext]_allVars
  PROVE  ListedInv'
<1>1. CASE \/ Silent \/ Toggle \/ Schedule \/ UNCHANGED allVars
           \/ \E r \in Requests : PublishTask(r)
  <2>1. UNCHANGED <<worker, late, announced>>
    BY <1>1 DEF Silent, Toggle, Schedule, PublishTask, allVars, observerVars
  <2>2. \A e \in EventsOf(booking') : e \in EventsOf(booking)
    BY <1>1, SilentEffect, RestEffect
  <2>3. ASSUME worker.pc = "publish"  PROVE Head(queue') = Head(queue)
    <3>1. queue # <<>>
      BY <2>3 DEF ObserverTypeOK
    <3>2. CASE Schedule \/ \E r \in Requests : PublishTask(r)
      BY <3>1, <3>2, TaskAdded DEF Schedule, PublishTask
    <3>3. CASE Silent \/ Toggle \/ UNCHANGED allVars
      BY <3>3 DEF Silent, Toggle, allVars, observerVars
    <3> QED  BY <1>1, <3>2, <3>3
  <2> QED  BY <2>1, <2>2, <2>3 DEF ListedInv
<1>2. CASE Begin
  BY <1>2, BeginEffect DEF ListedInv
<1>3. CASE List
  <2>1. UNCHANGED <<booking, queue, late, announced>> /\ worker.pc # "idle"
    BY <1>3 DEF List, vars
  <2>2. /\ worker'.start = worker.start
        /\ worker'.todo = {e \in EventsOf(booking) : e[3] \in Window(worker.start, worker.end)}
    BY <1>3, ListEffect
  <2>3. ASSUME NEW e \in EventsOf(booking), worker.start < e[3], e[3] <= Head(queue)
        PROVE  e \in worker'.todo
    <3>1. e[3] \in Times /\ e[3] <= worker.end
      BY <2>1, <2>3, EventTime, WorkTimes
    <3> QED  BY <2>2, <2>3, <3>1 DEF Window
  <2> QED  BY <2>1, <2>2, <2>3 DEF ListedInv
<1>4. ASSUME NEW e \in worker.todo, Announce(e)  PROVE ListedInv'
  <2>1. UNCHANGED <<booking, queue, late>> /\ announced' = announced \cup {e}
    BY <1>4 DEF Announce, vars
  <2>2. /\ worker.pc = "publish" /\ worker'.start = worker.start
        /\ worker'.todo = worker.todo \ {e}
    BY <1>4, AnnounceEffect
  <2> QED  BY <2>1, <2>2 DEF ListedInv
<1>5. CASE Finish \/ SkipDisabled \/ Fail \/ Crash
  <2>1. worker' = NoTask
    BY <1>5 DEF Finish, SkipDisabled, Fail, Crash
  <2> QED  BY <2>1, NoTaskParts DEF ListedInv
<1>6. ASSUME NEW r \in Requests, Write(r)  PROVE ListedInv'
  <2>1. UNCHANGED <<worker, queue, announced>>
    BY <1>6 DEF Write
  <2>2. ASSUME worker.pc = "publish", NEW e \in EventsOf(booking'),
               worker.start < e[3], e[3] <= Head(queue), e \notin late'
        PROVE  e \in announced \cup worker.todo
    <3>1. e \notin late /\ (e \in EventsOf(booking) \/ e[3] \notin Listed)
      BY <1>6, <2>2, WriteEffect
    <3>2. e[3] \in Listed
      <4>1. e[3] \in Times /\ 0 < e[3]
        BY <2>2, EventTime
      <4> QED  BY <2>2, <4>1 DEF Listed, Window
    <3> QED  BY <2>2, <3>1, <3>2 DEF ListedInv
  <2> QED  BY <2>1, <2>2 DEF ListedInv
<1> QED  BY <1>1, <1>2, <1>3, <1>4, <1>5, <1>6 DEF ObserverNext, Work

LEMMA NothingMissedStep ==
  ASSUME TypeOK, ObserverTypeOK, TaskTimes, ListedInv, NothingMissed, [ObserverNext]_allVars
  PROVE  NothingMissed'
<1>1. CASE \/ Silent \/ Toggle \/ Schedule \/ Begin \/ List \/ UNCHANGED allVars
           \/ \E r \in Requests : PublishTask(r)
  <2>1. UNCHANGED <<observed, skipped, late, announced>>
    BY <1>1 DEF Silent, Toggle, Schedule, Begin, List, PublishTask, allVars, observerVars
  <2>2. \A e \in EventsOf(booking') : e \in EventsOf(booking)
    BY <1>1, SilentEffect, RestEffect DEF Work
  <2> QED  BY <2>1, <2>2 DEF NothingMissed
<1>2. ASSUME NEW e \in worker.todo, Announce(e)  PROVE NothingMissed'
  BY <1>2 DEF Announce, vars, NothingMissed
<1>3. ASSUME NEW r \in Requests, Write(r)  PROVE NothingMissed'
  <2>1. UNCHANGED <<observed, skipped, announced>>
    BY <1>3 DEF Write
  <2>2. ASSUME NEW e \in EventsOf(booking'), e[3] <= observed, e[3] \notin skipped, e \notin late'
        PROVE  e \in announced
    <3>1. e \notin late /\ (e \in EventsOf(booking) \/ e[3] \notin Listed)
      BY <1>3, <2>2, WriteEffect
    <3>2. e[3] \in Listed
      <4>1. e[3] \in Times /\ 0 < e[3]
        BY <2>2, EventTime
      <4> QED  BY <2>2, <4>1 DEF Listed, Window
    <3> QED  BY <2>2, <3>1, <3>2 DEF NothingMissed
  <2> QED  BY <2>1, <2>2 DEF NothingMissed
<1>4. CASE Finish \/ Fail \/ Crash
  <2>1. /\ UNCHANGED <<booking, skipped, late, announced>>
        /\ \/ observed' = observed
           \/ worker.pc = "publish" /\ worker.todo = {} /\ observed' = Head(queue)
    BY <1>4 DEF Finish, Fail, Crash, AfterFailure, Observed, vars
  <2>2. ASSUME worker.pc = "publish", worker.todo = {}, NEW e \in EventsOf(booking),
               e[3] <= Head(queue), e[3] \notin skipped, e \notin late
        PROVE  e \in announced
    <3>1. e[3] <= observed \/ worker.start < e[3]
      BY <2>2, EventTime, WorkTimes
    <3> QED  BY <2>2, <3>1 DEF NothingMissed, ListedInv
  <2> QED  BY <2>1, <2>2 DEF NothingMissed
<1>5. CASE SkipDisabled
  <2>1. /\ UNCHANGED <<booking, late, announced>> /\ worker.pc # "idle"
        /\ observed' = Head(queue)
        /\ skipped' = skipped \cup Window(worker.start, Head(queue))
    BY <1>5 DEF SkipDisabled, Observed, vars
  <2>2. ASSUME NEW e \in EventsOf(booking), e[3] <= Head(queue), e[3] \notin skipped', e \notin late
        PROVE  e \in announced
    <3>1. e[3] <= observed \/ (e[3] \in Times /\ worker.start < e[3])
      BY <2>1, <2>2, EventTime, WorkTimes
    <3>2. ~(e[3] \in Times /\ worker.start < e[3])
      BY <2>1, <2>2 DEF Window
    <3> QED  BY <2>1, <2>2, <3>1, <3>2 DEF NothingMissed
  <2> QED  BY <2>1, <2>2 DEF NothingMissed
<1> QED  BY <1>1, <1>2, <1>3, <1>4, <1>5 DEF ObserverNext, Work

LEMMA ListedInitial == ObserverInit => ListedInv /\ NothingMissed
<1>1. ASSUME ObserverInit  PROVE ListedInv
  BY <1>1, NoTaskParts DEF ObserverInit, ListedInv
<1>2. ASSUME ObserverInit, NEW e \in EventsOf(booking)  PROVE ~(e[3] <= observed)
  BY <1>2, EventTime DEF ObserverInit
<1> QED  BY <1>1, <1>2 DEF NothingMissed

\* Whatever the observation has passed is announced, for any number of bookings,
\* tasks, failures and crashes: a task starts where the last complete one stopped,
\* reads the bookings once and records its own time, never that of its listing
\* (process_task, _update_observe_time).
THEOREM NeverMissed == ObserverSpec => []NothingMissed
<1>1. TypeOK /\ ObserverTypeOK /\ TaskTimes /\ ListedInv /\ NothingMissed
        /\ [ObserverNext]_allVars => TaskTimes' /\ ListedInv' /\ NothingMissed'
  BY TasksArePast, ListedStep, NothingMissedStep
<1> QED
  BY <1>1, TimesInitial, ListedInitial, ObserverTypeCorrect, PTL DEF ObserverSpec
=============================================================================
