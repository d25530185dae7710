------------------------------ MODULE Bookings ------------------------------
(***************************************************************************)
(* Bookings of one shareable resource in rest_api                          *)
(* (controllers/shareable_resource.py) and the Jira issues attached to     *)
(* them (controllers/jira_issue_attachment.py).                            *)
(*                                                                         *)
(* Every request reads the bookings, may call the calendar and commits     *)
(* some time later, in a database session of its own: a request is one     *)
(* step that reads and decides and one step that commits.                  *)
(***************************************************************************)
EXTENDS Naturals, FiniteSets

CONSTANTS BookingIds, Issues, Requests,
          Autos,        \* the values of jira_auto_release that are used
          MaxTime,      \* bound: the last instant of the clock
          MaxAsked,     \* bound: what the clients ask for
          Default,      \* acquired_since is not given: the time of the insert
          Idle

ASSUME BookingsAssumption ==
  /\ MaxTime \in Nat \ {0} /\ MaxAsked \in Nat
  /\ Default \notin Nat
  /\ Autos \subseteq BOOLEAN

VARIABLES
  now,       \* the clock, in the unit of the time stamps
  asked,     \* what the clients have asked for so far
  booking,   \* the rows of shareable_booking for this resource
  attached,  \* pairs <<booking, issue>> of live jira_issue_attachment rows
  emptied,   \* history: bookings whose last issue has been detached
  req,       \* what each request is about to commit
  raced,     \* history: bookings written from a read that was no longer true
  hollow     \* history: bookings that have covered no instant at all

vars == <<now, asked, booking, attached, emptied, req, raced, hollow>>

Times == 1..MaxTime

\* until = 0: not released.
Row == [status : {"none", "booked", "deleted"}, since : 0..MaxTime,
        until : 0..MaxTime, auto : BOOLEAN]
NoRow == [status |-> "none", since |-> 0, until |-> 0, auto |-> FALSE]

\* What a request has decided: the booking it writes, with the new times, the
\* attachments it drops, whether another request committed since it read, and
\* whether a new end was in the past when it read (is_booking_release).
Op == [kind : {"create", "release", "detach", "publish"}, id : BookingIds,
       since : Times \cup {0, Default}, until : 0..MaxTime, auto : BOOLEAN,
       issue : SUBSET Issues, stale : BOOLEAN,
       due : BOOLEAN]

\* A client's request is one of the bounded number.
Asked == asked < MaxAsked /\ asked' = asked + 1

\* Mutant of Booked: a booking is written without being looked up.
BookedUnchecked == BookingIds

\* The bookings of the resource that are not deleted.
Booked == {b \in BookingIds : booking[b].status = "booked"}

(***************************************************************************)
(* The interval of a booking.                                              *)
(***************************************************************************)
\* ShareableBooking.is_active: the end is not part of the interval.
IsActive(row, t) == row.since <= t /\ (row.until = 0 \/ t < row.until)

\* Released no later than acquired: an empty interval, which both checks allow.
Hollow(row) == row.status = "booked" /\ row.until # 0 /\ row.until <= row.since

Overlap(r1, r2) == \E t \in Times : IsActive(r1, t) /\ IsActive(r2, t)

\* _check_slots_with_existing
SlotTaken(since, until) ==
  \E b \in Booked : \/ IsActive(booking[b], since)
                    \/ /\ since < booking[b].since
                       /\ until = 0 \/ until > booking[b].since

\* _check_dates
Backwards(since, until) == since > until /\ until # 0

(***************************************************************************)
(* Creating a booking.                                                     *)
(***************************************************************************)
Given(since) == IF since = Default THEN now ELSE since

Create(r, b, since, until, auto, isAdmin) ==
  /\ Asked /\ req[r] = Idle
  /\ booking[b].status = "none"
  /\ \A q \in Requests : req[q] # Idle => req[q].kind # "create" \/ req[q].id # b
  /\ since # Default => ~Backwards(since, until)
  /\ ~SlotTaken(Given(since), until)
  /\ isAdmin \/ Given(since) >= now
  /\ req' = [req EXCEPT ![r] = [kind |-> "create", id |-> b, since |-> since,
                 until |-> until, auto |-> auto, issue |-> {}, stale |-> FALSE,
                 due |-> FALSE]]
  /\ UNCHANGED <<now, booking, attached, emptied, raced, hollow>>

(***************************************************************************)
(* Releasing a booking, and changing its end.                              *)
(***************************************************************************)
\* Mutant of EndTaken: only the bookings that are active at the end count.
EndTakenAt(b, until) ==
  \E c \in Booked \ {b} : IsActive(booking[c], until) /\ until # booking[c].since

EndTaken(b, until) ==
  \E c \in Booked \ {b} :
    /\ booking[c].since > booking[b].since
    /\ booking[c].since < until \/ until = 0

CanRelease(b, until, isAdmin) ==
  /\ ~Backwards(booking[b].since, until)
  /\ ~EndTaken(b, until)
  /\ isAdmin \/ until <= now

Releasing(b, until, issues) ==
  [kind |-> "release", id |-> b, since |-> booking[b].since, until |-> until,
   auto |-> FALSE, issue |-> issues, stale |-> FALSE,
   due |-> until <= now]

Release(r, b, until, isAdmin) ==
  /\ Asked /\ req[r] = Idle
  /\ b \in Booked
  /\ CanRelease(b, until, isAdmin)
  /\ req' = [req EXCEPT ![r] = Releasing(b, until, {})]
  /\ UNCHANGED <<now, booking, attached, emptied, raced, hollow>>

(***************************************************************************)
(* Issues: attached, and detached by hand or by their status.              *)
(***************************************************************************)
Attach(b, i) ==
  /\ Asked /\ b \in Booked
  /\ <<b, i>> \notin attached
  /\ attached' = attached \cup {<<b, i>>}
  /\ emptied' = emptied \ {b}
  /\ UNCHANGED <<now, booking, req, raced, hollow>>

Others(b, i) == {j \in Issues : <<b, j>> \in attached} \ {i}

\* Mutant of AutoReleases: the attachment being deleted still counts.
AutoReleasesLate(b, i) == booking[b].auto /\ ~\E j \in Issues : <<b, j>> \in attached

\* check_autorelease, in the session that has just deleted the attachment.
AutoReleases(b, i) == booking[b].auto /\ Others(b, i) = {}

\* delete: when the release is refused the exception takes the whole request.
Detach(r, b, i) ==
  /\ Asked /\ req[r] = Idle
  /\ b \in Booked
  /\ <<b, i>> \in attached
  /\ IF AutoReleases(b, i)
     THEN /\ CanRelease(b, now, TRUE)
          /\ req' = [req EXCEPT ![r] = Releasing(b, now, {i})]
     ELSE req' = [req EXCEPT ![r] = [Releasing(b, 0, {i}) EXCEPT !.kind = "detach"]]
  /\ UNCHANGED <<now, booking, attached, emptied, raced, hollow>>

(***************************************************************************)
(* Commits.                                                                *)
(***************************************************************************)
\* The other requests in flight have read what is no longer so.
Outdated(r, next) ==
  [q \in Requests |-> IF q # r /\ req[q] # Idle /\ req[q].kind # "publish"
                      THEN [req[q] EXCEPT !.stale = TRUE] ELSE IF q = r THEN next ELSE req[q]]

Race(r) == /\ raced' = IF req[r].stale THEN raced \cup {req[r].id} ELSE raced
           /\ hollow' = hollow \cup {b \in BookingIds : Hollow(booking'[b])}

\* The default of acquired_since is evaluated when the row is inserted.
CommitCreate(r) ==
  LET op == req[r] IN
  /\ op # Idle /\ op.kind = "create"
  /\ booking' = [booking EXCEPT ![op.id] = [status |-> "booked", since |-> Given(op.since),
                                            until |-> op.until, auto |-> op.auto]]
  /\ req' = Outdated(r, Idle)
  /\ Race(r)
  /\ UNCHANGED <<now, asked, attached, emptied>>

\* released_at is overwritten whatever the row is by then; all the attachments
\* go; a release that is due is announced to the observer after the commit.
CommitRelease(r) ==
  LET op == req[r] IN
  /\ op # Idle /\ op.kind = "release"
  /\ booking' = [booking EXCEPT ![op.id].until = op.until]
  /\ attached' = {p \in attached : p[1] # op.id}
  /\ req' = Outdated(r, IF op.due THEN [op EXCEPT !.kind = "publish"] ELSE Idle)
  /\ emptied' = IF op.issue = {} THEN emptied \ {op.id} ELSE emptied \cup {op.id}
  /\ Race(r)
  /\ UNCHANGED <<now, asked>>

CommitDetach(r) ==
  LET op == req[r] IN
  /\ op # Idle /\ op.kind = "detach"
  /\ attached' = attached \ {<<op.id, i>> : i \in op.issue}
  /\ emptied' = IF \E p \in attached' : p[1] = op.id THEN emptied ELSE emptied \cup {op.id}
  /\ req' = Outdated(r, Idle)
  /\ UNCHANGED <<now, asked, booking>>
  /\ Race(r)

\* publish_task, or the request fails before it.
Publish(r) ==
  /\ req[r] # Idle /\ req[r].kind = "publish"
  /\ req' = [req EXCEPT ![r] = Idle]
  /\ UNCHANGED <<now, asked, booking, attached, emptied, raced, hollow>>

\* A calendar error or a failed commit: the session is rolled back.
Abort(r) ==
  /\ req[r] # Idle
  /\ req' = [req EXCEPT ![r] = Idle]
  /\ UNCHANGED <<now, asked, booking, attached, emptied, raced, hollow>>

\* delete, its check and its commit as one step: nothing else depends on them.
\* An admin deletes any booking, its owner only one that has not begun.
Delete(b, isAdmin) ==
  /\ Asked /\ b \in Booked
  /\ \/ isAdmin
     \/ /\ ~IsActive(booking[b], now)
        /\ booking[b].until = 0 \/ now <= booking[b].until
  /\ booking' = [booking EXCEPT ![b].status = "deleted"]
  /\ req' = [q \in Requests |-> IF req[q] # Idle /\ req[q].kind # "publish"
                                THEN [req[q] EXCEPT !.stale = TRUE] ELSE req[q]]
  /\ UNCHANGED <<now, attached, emptied, raced, hollow>>

Tick ==
  /\ now < MaxTime
  /\ now' = now + 1
  /\ UNCHANGED <<asked, booking, attached, emptied, req, raced, hollow>>

Init ==
  /\ now = 1 /\ asked = 0
  /\ booking = [b \in BookingIds |-> NoRow]
  /\ attached = {} /\ emptied = {}
  /\ req = [r \in Requests |-> Idle]
  /\ raced = {} /\ hollow = {}

Commit(r) == CommitCreate(r) \/ CommitRelease(r) \/ CommitDetach(r)

Ask(r) ==
  \E b \in BookingIds :
    \/ \E since \in Times \cup {Default}, until \in 0..MaxTime, auto \in Autos, isAdmin \in BOOLEAN :
         Create(r, b, since, until, auto, isAdmin)
    \/ \E until \in 0..MaxTime, isAdmin \in BOOLEAN : Release(r, b, until, isAdmin)
    \/ \E i \in Issues : Detach(r, b, i)

Next == \/ Tick
        \/ \E r \in Requests : Ask(r) \/ Commit(r) \/ Publish(r) \/ Abort(r)
        \/ \E b \in BookingIds : \/ \E i \in Issues : Attach(b, i)
                                 \/ \E isAdmin \in BOOLEAN : Delete(b, isAdmin)

Spec == Init /\ [][Next]_vars

-----------------------------------------------------------------------------
\* Every variable has its type, and a request writes a booking that exists.
TypeOK ==
  /\ now \in Times /\ asked \in 0..MaxAsked
  /\ booking \in [BookingIds -> Row]
  /\ attached \subseteq BookingIds \X Issues
  /\ emptied \subseteq BookingIds
  /\ req \in [Requests -> Op \cup {Idle}]
  /\ raced \subseteq BookingIds /\ hollow \subseteq BookingIds
  /\ \A r \in Requests : req[r] # Idle /\ req[r].kind # "create"
       => booking[req[r].id].status # "none"

\* Two bookings of the resource never cover the same instant, through creations
\* with and without an end, releases into the past and the future and deletions,
\* unless one of them was committed from a read that another request had made
\* untrue in between, or one of them was empty before its end was moved: the check
\* of the new end looks at the bookings that begin later, and at no other.
NoOverlapUnlessRaced ==
  \A b, c \in Booked :
    b # c /\ Overlap(booking[b], booking[c])
      => {b, c} \cap (raced \cup hollow) # {}

\* Not yet released at this instant.
Live(b) == b \in Booked /\ (booking[b].until = 0 \/ booking[b].until > now)

\* An auto-released booking that has lost its last issue is released: it does not
\* stay live without issues, unless two requests were committed across each other
\* (jira_auto_release: "Release without attachmets", handlers/v2/shareable_resources.py).
AutoReleasedUnlessRaced ==
  \A b \in emptied : Live(b) /\ booking[b].auto /\ b \notin raced
                   => \E i \in Issues : <<b, i>> \in attached
=============================================================================
