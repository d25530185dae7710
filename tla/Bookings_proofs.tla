-------------------------- MODULE Bookings_proofs --------------------------
(***************************************************************************)
(* Proofs about the bookings of a shareable resource: types, intervals     *)
(* that do not overlap, and bookings that are released with their last     *)
(* issue.  All three hold of any number of bookings, requests and issues.  *)
(***************************************************************************)
EXTENDS Bookings, TLAPS

-----------------------------------------------------------------------------
(***************************************************************************)
(* What a commit does to the other requests.                               *)
(***************************************************************************)
\* The request is what it was, or is over.
SameDecision(q) ==
  req'[q] # Idle =>
    /\ req[q] # Idle
    /\ req'[q].kind = req[q].kind /\ req'[q].id = req[q].id
    /\ req'[q].since = req[q].since /\ req'[q].until = req[q].until
    /\ req'[q].issue = req[q].issue

\* It knows that its read is no longer so, unless nothing depends on it.
Overtaken(q) ==
  /\ SameDecision(q)
  /\ req'[q] # Idle => req'[q].kind = "publish" \/ req'[q].stale

LEMMA StaleOp ==
  ASSUME NEW op \in Op
  PROVE  LET s == [op EXCEPT !.stale = TRUE]
         IN  /\ s \in Op /\ s.stale
             /\ s.kind = op.kind /\ s.id = op.id /\ s.since = op.since
             /\ s.until = op.until /\ s.issue = op.issue
  BY DEF Op

LEMMA MarkedStale ==
  ASSUME TypeOK, NEW q \in Requests,
         req'[q] = IF req[q] # Idle /\ req[q].kind # "publish"
                   THEN [req[q] EXCEPT !.stale = TRUE] ELSE req[q]
  PROVE  req'[q] \in Op \cup {Idle} /\ Overtaken(q)
<1>1. CASE req[q] = Idle
  BY <1>1 DEF Overtaken, SameDecision
<1>2. CASE req[q] # Idle /\ req[q].kind = "publish"
  <2>1. req'[q] = req[q] /\ req[q] \in Op
    BY <1>2 DEF TypeOK
  <2> QED  BY <1>2, <2>1 DEF Overtaken, SameDecision
<1>3. CASE req[q] # Idle /\ req[q].kind # "publish"
  <2>1. req[q] \in Op /\ req'[q] = [req[q] EXCEPT !.stale = TRUE]
    BY <1>3 DEF TypeOK
  <2> QED  BY <1>3, <2>1, StaleOp DEF Overtaken, SameDecision
<1> QED  BY <1>1, <1>2, <1>3

LEMMA OutdatedEffect ==
  ASSUME TypeOK, NEW r \in Requests, NEW next \in Op \cup {Idle}, req' = Outdated(r, next)
  PROVE  /\ req' \in [Requests -> Op \cup {Idle}]
         /\ req'[r] = next
         /\ \A q \in Requests \ {r} : Overtaken(q)
<1>1. req'[r] = next
  BY DEF Outdated
<1>2. ASSUME NEW q \in Requests \ {r}  PROVE req'[q] \in Op \cup {Idle} /\ Overtaken(q)
  <2>1. req'[q] = IF req[q] # Idle /\ req[q].kind # "publish"
                  THEN [req[q] EXCEPT !.stale = TRUE] ELSE req[q]
    BY DEF Outdated
  <2> QED  BY <2>1, MarkedStale
<1>3. \A q \in Requests : req'[q] \in Op \cup {Idle}
  BY <1>1, <1>2
<1>4. req' = [q \in Requests |-> req'[q]]
  BY DEF Outdated
<1> QED  BY <1>1, <1>2, <1>3, <1>4

\* Publish and Abort end a request; asking begins one.

LEMMA OneRequest ==
  ASSUME TypeOK, NEW r \in Requests, NEW next \in Op \cup {Idle},
         req' = [req EXCEPT ![r] = next]
  PROVE  /\ req' \in [Requests -> Op \cup {Idle}]
         /\ req'[r] = next /\ \A q \in Requests \ {r} : req'[q] = req[q]
  BY DEF TypeOK

-----------------------------------------------------------------------------
(***************************************************************************)
(* Types.                                                                  *)
(***************************************************************************)

\* A booking that exists does not cease to.
LEMMA RowsStay ==
  ASSUME TypeOK,
         \A b \in BookingIds : booking[b].status # "none" => booking'[b].status # "none",
         \A q \in Requests : SameDecision(q)
  PROVE  \A q \in Requests : req'[q] # Idle /\ req'[q].kind # "create"
                               => booking'[req'[q].id].status # "none"
<1>1. ASSUME NEW q \in Requests, req'[q] # Idle, req'[q].kind # "create"
      PROVE  booking'[req'[q].id].status # "none"
  <2>1. req[q] # Idle /\ req[q].kind # "create" /\ req'[q].id = req[q].id
    BY <1>1 DEF SameDecision
  <2>2. req[q].id \in BookingIds
    BY <2>1 DEF TypeOK, Op
  <2> QED  BY <2>1, <2>2 DEF TypeOK
<1> QED  BY <1>1

\* A request that has just been taken names a booking that exists, unless it
\* creates one.

LEMMA AskedType ==
  ASSUME TypeOK, NEW r \in Requests, NEW op \in Op, req' = [req EXCEPT ![r] = op],
         op.kind # "create" => booking[op.id].status # "none",
         Asked, UNCHANGED <<now, booking, attached, emptied, raced, hollow>>
  PROVE  TypeOK'
<1>1. /\ req' \in [Requests -> Op \cup {Idle}]
      /\ req'[r] = op /\ \A q \in Requests \ {r} : req'[q] = req[q]
  BY OneRequest
<1>2. asked' \in 0..MaxAsked
  BY BookingsAssumption DEF TypeOK, Asked
<1>3. \A q \in Requests : req'[q] # Idle /\ req'[q].kind # "create"
                            => booking'[req'[q].id].status # "none"
  BY <1>1 DEF TypeOK
<1> QED  BY <1>1, <1>2, <1>3 DEF TypeOK

\* A commit whose request is over or announces its release.

LEMMA CommittedType ==
  ASSUME TypeOK, NEW r \in Requests, NEW next \in Op \cup {Idle},
         req[r] # Idle, req' = Outdated(r, next),
         next # Idle => next.kind # "create" /\ booking'[next.id].status # "none",
         booking' \in [BookingIds -> Row],
         \A b \in BookingIds : booking[b].status # "none" => booking'[b].status # "none",
         attached' \subseteq attached, emptied' \subseteq emptied \cup {req[r].id},
         UNCHANGED <<now, asked>>, Race(r)
  PROVE  TypeOK'
<1>1. /\ req' \in [Requests -> Op \cup {Idle}]
      /\ req'[r] = next /\ \A q \in Requests \ {r} : Overtaken(q)
  BY OutdatedEffect
<1>2. req[r].id \in BookingIds
  BY DEF TypeOK, Op
<1>3. raced' \subseteq BookingIds /\ hollow' \subseteq BookingIds
  BY <1>2 DEF TypeOK, Race
<1>4. ASSUME NEW q \in Requests, req'[q] # Idle, req'[q].kind # "create"
      PROVE  booking'[req'[q].id].status # "none"
  <2>1. CASE q = r
    BY <1>1, <1>4, <2>1
  <2>2. CASE q # r
    <3>1. req[q] # Idle /\ req[q].kind # "create" /\ req'[q].id = req[q].id
      BY <1>1, <1>4, <2>2 DEF Overtaken, SameDecision
    <3>2. req[q].id \in BookingIds /\ booking[req[q].id].status # "none"
      BY <3>1 DEF TypeOK, Op
    <3> QED  BY <3>1, <3>2
  <2> QED  BY <2>1, <2>2
<1> QED  BY <1>1, <1>2, <1>3, <1>4 DEF TypeOK

LEMMA ReleasingType ==
  ASSUME TypeOK, NEW b \in BookingIds, NEW until \in 0..MaxTime, NEW issues \in SUBSET Issues
  PROVE  LET op == Releasing(b, until, issues)
         IN  /\ op \in Op /\ op.kind = "release" /\ op.id = b
             /\ op.until = until /\ op.issue = issues
<1>1. booking[b].since \in Times \cup {0, Default}
  <2>1. booking[b] \in Row
    BY DEF TypeOK
  <2>2. booking[b].since \in 0..MaxTime
    BY <2>1 DEF Row
  <2> QED  BY <2>2, BookingsAssumption DEF Times
<1>2. (until <= now) \in BOOLEAN
  OBVIOUS
<1> QED  BY <1>1, <1>2 DEF Releasing, Op

LEMMA DetachingType ==
  ASSUME TypeOK, NEW b \in BookingIds, NEW issues \in SUBSET Issues
  PROVE  LET op == [Releasing(b, 0, issues) EXCEPT !.kind = "detach"]
         IN  /\ op \in Op /\ op.kind = "detach" /\ op.id = b /\ op.issue = issues
<1>1. 0 \in 0..MaxTime
  BY BookingsAssumption
<1>2. Releasing(b, 0, issues) \in Op
  BY <1>1, ReleasingType
<1> QED  BY <1>2 DEF Op, Releasing

LEMMA CreatingType ==
  ASSUME NEW b \in BookingIds, NEW since \in Times \cup {Default}, NEW until \in 0..MaxTime,
         NEW auto \in Autos
  PROVE  [kind |-> "create", id |-> b, since |-> since, until |-> until, auto |-> auto,
          issue |-> {}, stale |-> FALSE, due |-> FALSE] \in Op
  BY BookingsAssumption DEF Op

LEMMA BookedStatus ==
  \A b \in BookingIds : b \in Booked <=> booking[b].status = "booked"
  BY DEF Booked

\* What a request decides when it is taken: op, from the state it reads.
Decision(op) ==
  \/ /\ op.kind = "create" /\ op.since \in Times \cup {Default}
     /\ booking[op.id].status = "none"
     /\ ~SlotTaken(Given(op.since), op.until)
  \/ /\ op.kind = "release" /\ op.id \in Booked
     /\ ~EndTaken(op.id, op.until)
     /\ op.issue = {} \/ op.until = now
  \/ /\ op.kind = "detach" /\ op.id \in Booked
     /\ \/ ~booking[op.id].auto
        \/ \E i \in Issues \ op.issue : <<op.id, i>> \in attached

Decides(r, op) ==
  /\ Asked /\ UNCHANGED <<now, booking, attached, emptied, raced, hollow>>
  /\ req' = [req EXCEPT ![r] = op]
  /\ Decision(op)

LEMMA AskEffect ==
  ASSUME TypeOK, NEW r \in Requests, Ask(r)
  PROVE  \E op \in Op : Decides(r, op)
<1>1. ASSUME NEW b \in BookingIds, NEW since \in Times \cup {Default},
             NEW until \in 0..MaxTime, NEW auto \in Autos, NEW isAdmin \in BOOLEAN,
             Create(r, b, since, until, auto, isAdmin)
      PROVE  \E op \in Op : Decides(r, op)
  <2> DEFINE op == [kind |-> "create", id |-> b, since |-> since, until |-> until,
                    auto |-> auto, issue |-> {}, stale |-> FALSE, due |-> FALSE]
  <2>1. op \in Op
    BY CreatingType
  <2>2. /\ Asked /\ UNCHANGED <<now, booking, attached, emptied, raced, hollow>>
        /\ req' = [req EXCEPT ![r] = op]
        /\ booking[b].status = "none" /\ ~SlotTaken(Given(since), until)
    BY <1>1 DEF Create
  <2>3. /\ op.kind = "create" /\ op.id = b /\ op.since = since /\ op.until = until
    OBVIOUS
  <2> HIDE DEF op
  <2>4. Decision(op)
    BY <2>2, <2>3 DEF Decision
  <2> QED  BY <2>1, <2>2, <2>4 DEF Decides
<1>2. ASSUME NEW b \in BookingIds, NEW until \in 0..MaxTime, NEW isAdmin \in BOOLEAN,
             Release(r, b, until, isAdmin)
      PROVE  \E op \in Op : Decides(r, op)
  <2> DEFINE op == Releasing(b, until, {})
  <2>1. op \in Op /\ op.kind = "release" /\ op.id = b /\ op.until = until /\ op.issue = {}
    BY ReleasingType
  <2>2. /\ Asked /\ UNCHANGED <<now, booking, attached, emptied, raced, hollow>>
        /\ req' = [req EXCEPT ![r] = op]
        /\ b \in Booked /\ ~EndTaken(b, until)
    BY <1>2 DEF Release, CanRelease
  <2> HIDE DEF op
  <2>3. Decision(op)
    BY <2>1, <2>2 DEF Decision
  <2> QED  BY <2>1, <2>2, <2>3 DEF Decides
<1>3. ASSUME NEW b \in BookingIds, NEW i \in Issues, Detach(r, b, i), AutoReleases(b, i)
      PROVE  \E op \in Op : Decides(r, op)
  <2> DEFINE op == Releasing(b, now, {i})
  <2>0. now \in 0..MaxTime
    BY DEF TypeOK, Times
  <2>1. op \in Op /\ op.kind = "release" /\ op.id = b /\ op.until = now /\ op.issue = {i}
    BY <2>0, ReleasingType
  <2>2. /\ Asked /\ UNCHANGED <<now, booking, attached, emptied, raced, hollow>>
        /\ req' = [req EXCEPT ![r] = op]
        /\ b \in Booked /\ ~EndTaken(b, now)
    BY <1>3 DEF Detach, CanRelease
  <2> HIDE DEF op
  <2>3. Decision(op)
    BY <2>1, <2>2 DEF Decision
  <2> QED  BY <2>1, <2>2, <2>3 DEF Decides
<1>4. ASSUME NEW b \in BookingIds, NEW i \in Issues, Detach(r, b, i), ~AutoReleases(b, i)
      PROVE  \E op \in Op : Decides(r, op)
  <2> DEFINE op == [Releasing(b, 0, {i}) EXCEPT !.kind = "detach"]
  <2>1. op \in Op /\ op.kind = "detach" /\ op.id = b /\ op.issue = {i}
    BY DetachingType
  <2>2. /\ Asked /\ UNCHANGED <<now, booking, attached, emptied, raced, hollow>>
        /\ req' = [req EXCEPT ![r] = op] /\ b \in Booked
    BY <1>4 DEF Detach
  <2>3. ~booking[b].auto \/ \E j \in Issues \ {i} : <<b, j>> \in attached
    BY <1>4 DEF AutoReleases, Others
  <2> HIDE DEF op
  <2>4. Decision(op)
    BY <2>1, <2>2, <2>3 DEF Decision
  <2> QED  BY <2>1, <2>2, <2>4 DEF Decides
<1> QED  BY <1>1, <1>2, <1>3, <1>4 DEF Ask

\* A release puts an end to its booking and drops the issues.
ReleasesRow(r) ==
  /\ booking' \in [BookingIds -> Row]
  /\ \A b \in BookingIds :
       /\ booking'[b].status = booking[b].status
       /\ booking'[b].since = booking[b].since /\ booking'[b].auto = booking[b].auto
       /\ booking'[b].until = IF b = req[r].id THEN req[r].until ELSE booking[b].until
       /\ b # req[r].id => booking'[b] = booking[b]

LEMMA ReleaseEffect ==
  ASSUME TypeOK, NEW r \in Requests, CommitRelease(r)
  PROVE  ReleasesRow(r)
<1>1. req[r] \in Op
  BY DEF TypeOK, CommitRelease
<1>2. req[r].id \in BookingIds /\ req[r].until \in 0..MaxTime
  BY <1>1 DEF Op
<1>3. booking' = [booking EXCEPT ![req[r].id].until = req[r].until]
  BY DEF CommitRelease
<1>4. ASSUME NEW b \in BookingIds
      PROVE  /\ booking'[b] \in Row
             /\ booking'[b].status = booking[b].status
             /\ booking'[b].since = booking[b].since /\ booking'[b].auto = booking[b].auto
             /\ booking'[b].until = IF b = req[r].id THEN req[r].until ELSE booking[b].until
             /\ b # req[r].id => booking'[b] = booking[b]
  <2>1. booking[b] \in Row
    BY DEF TypeOK
  <2>2. booking'[b] = IF b = req[r].id THEN [booking[b] EXCEPT !.until = req[r].until]
                      ELSE booking[b]
    BY <1>2, <1>3 DEF TypeOK
  <2> QED  BY <1>2, <2>1, <2>2 DEF Row
<1>5. booking' = [b \in BookingIds |-> booking'[b]]
  BY <1>3 DEF TypeOK
<1> QED  BY <1>4, <1>5 DEF ReleasesRow

\* A creation writes a new row.
CreatesRow(r) ==
  /\ booking' \in [BookingIds -> Row]
  /\ booking'[req[r].id] = [status |-> "booked", since |-> Given(req[r].since),
                            until |-> req[r].until, auto |-> req[r].auto]
  /\ \A b \in BookingIds \ {req[r].id} : booking'[b] = booking[b]

LEMMA CreateEffect ==
  ASSUME TypeOK, NEW r \in Requests, CommitCreate(r)
  PROVE  CreatesRow(r)
<1>1. req[r] \in Op
  BY DEF TypeOK, CommitCreate
<1>2. /\ req[r].id \in BookingIds /\ req[r].until \in 0..MaxTime /\ req[r].auto \in BOOLEAN
      /\ req[r].since \in Times \cup {0, Default}
  BY <1>1 DEF Op
<1>3. Given(req[r].since) \in 0..MaxTime
  BY <1>2, BookingsAssumption DEF Given, TypeOK, Times
<1>4. booking' = [booking EXCEPT ![req[r].id] =
                    [status |-> "booked", since |-> Given(req[r].since),
                     until |-> req[r].until, auto |-> req[r].auto]]
  BY DEF CommitCreate
<1>5. [status |-> "booked", since |-> Given(req[r].since),
       until |-> req[r].until, auto |-> req[r].auto] \in Row
  BY <1>2, <1>3 DEF Row
<1> QED  BY <1>2, <1>4, <1>5 DEF TypeOK, CreatesRow

LEMMA DeleteEffect ==
  ASSUME TypeOK, NEW b \in BookingIds, NEW isAdmin \in BOOLEAN, Delete(b, isAdmin)
  PROVE  /\ booking' \in [BookingIds -> Row]
         /\ req' \in [Requests -> Op \cup {Idle}]
         /\ booking'[b].status = "deleted" /\ booking'[b].since = booking[b].since
         /\ booking[b].status = "booked"
         /\ \A c \in BookingIds \ {b} : booking'[c] = booking[c]
         /\ \A q \in Requests : Overtaken(q)
<1>1. booking' = [booking EXCEPT ![b].status = "deleted"] /\ booking[b].status = "booked"
  BY BookedStatus DEF Delete
<1>2. booking[b] \in Row
  BY DEF TypeOK
<1>3. [booking[b] EXCEPT !.status = "deleted"] \in Row
  BY <1>2 DEF Row
<1>4. /\ booking' \in [BookingIds -> Row]
      /\ booking'[b] = [booking[b] EXCEPT !.status = "deleted"]
      /\ \A c \in BookingIds \ {b} : booking'[c] = booking[c]
  BY <1>1, <1>3 DEF TypeOK
<1>5. booking'[b].status = "deleted" /\ booking'[b].since = booking[b].since
  BY <1>2, <1>4 DEF Row
<1>6. ASSUME NEW q \in Requests  PROVE req'[q] \in Op \cup {Idle} /\ Overtaken(q)
  <2>1. req'[q] = IF req[q] # Idle /\ req[q].kind # "publish"
                  THEN [req[q] EXCEPT !.stale = TRUE] ELSE req[q]
    BY DEF Delete
  <2> QED  BY <2>1, MarkedStale
<1>7. req' = [q \in Requests |-> req'[q]]
  BY DEF Delete
<1> QED  BY <1>1, <1>4, <1>5, <1>6, <1>7

LEMMA BookingsTypeStep ==
  ASSUME TypeOK, [Next]_vars
  PROVE  TypeOK'
<1>1. CASE Tick
  <2>1. now' \in Times
    BY <1>1, BookingsAssumption DEF Tick, TypeOK, Times
  <2> QED  BY <1>1, <2>1 DEF Tick, TypeOK
<1>2. ASSUME NEW r \in Requests, Ask(r)  PROVE TypeOK'
  <2>1. PICK op \in Op : Decides(r, op)
    BY <1>2, AskEffect
  <2>2. op.id \in BookingIds
    BY DEF Op
  <2>3. op.kind # "create" => booking[op.id].status # "none"
    BY <2>1, <2>2, BookedStatus DEF Decides, Decision
  <2> QED  BY <2>1, <2>3, AskedType DEF Decides
<1>3. ASSUME NEW r \in Requests, CommitCreate(r)  PROVE TypeOK'
  <2>1. CreatesRow(r)
    BY <1>3, CreateEffect
  <2>2. \A b \in BookingIds : booking[b].status # "none" => booking'[b].status # "none"
    BY <2>1 DEF CreatesRow
  <2>3. /\ req[r] # Idle /\ req' = Outdated(r, Idle) /\ Race(r)
        /\ UNCHANGED <<now, asked, attached, emptied>>
    BY <1>3 DEF CommitCreate
  <2> QED  BY <2>1, <2>2, <2>3, CommittedType DEF CreatesRow
<1>4. ASSUME NEW r \in Requests, CommitRelease(r)  PROVE TypeOK'
  <2>1. ReleasesRow(r)
    BY <1>4, ReleaseEffect
  <2>2. /\ req[r] # Idle /\ req[r].kind = "release" /\ Race(r)
        /\ attached' \subseteq attached /\ UNCHANGED <<now, asked>>
        /\ emptied' \subseteq emptied \cup {req[r].id}
    BY <1>4 DEF CommitRelease
  <2>3. PICK next : /\ next = IF req[r].due THEN [req[r] EXCEPT !.kind = "publish"] ELSE Idle
                    /\ req' = Outdated(r, next)
    BY <1>4 DEF CommitRelease
  <2>4. req[r] \in Op /\ req[r].id \in BookingIds /\ booking[req[r].id].status # "none"
    BY <2>2 DEF TypeOK, Op
  <2>5. \A b \in BookingIds : booking[b].status # "none" => booking'[b].status # "none"
    BY <2>1 DEF ReleasesRow
  <2>6. [req[r] EXCEPT !.kind = "publish"] \in Op
        /\ [req[r] EXCEPT !.kind = "publish"].kind = "publish"
        /\ [req[r] EXCEPT !.kind = "publish"].id = req[r].id
    BY <2>4 DEF Op
  <2>7. /\ next \in Op \cup {Idle}
        /\ next # Idle => next.kind # "create" /\ booking'[next.id].status # "none"
    BY <2>3, <2>4, <2>5, <2>6
  <2> QED  BY <2>1, <2>2, <2>3, <2>5, <2>7, CommittedType DEF ReleasesRow
<1>5. ASSUME NEW r \in Requests, CommitDetach(r)  PROVE TypeOK'
  <2>1. /\ req[r] # Idle /\ req' = Outdated(r, Idle) /\ Race(r)
        /\ UNCHANGED <<now, asked, booking>> /\ attached' \subseteq attached
        /\ emptied' \subseteq emptied \cup {req[r].id}
    BY <1>5 DEF CommitDetach
  <2>2. booking' \in [BookingIds -> Row]
    BY <2>1 DEF TypeOK
  <2>3. \A b \in BookingIds : booking[b].status # "none" => booking'[b].status # "none"
    BY <2>1
  <2> QED  BY <2>1, <2>2, <2>3, CommittedType
<1>6. ASSUME NEW r \in Requests, Publish(r) \/ Abort(r)  PROVE TypeOK'
  <2>1. /\ req' = [req EXCEPT ![r] = Idle]
        /\ UNCHANGED <<now, asked, booking, attached, emptied, raced, hollow>>
    BY <1>6 DEF Publish, Abort
  <2>2. /\ req' \in [Requests -> Op \cup {Idle}]
        /\ req'[r] = Idle /\ \A q \in Requests \ {r} : req'[q] = req[q]
    BY <2>1, OneRequest
  <2> QED  BY <2>1, <2>2 DEF TypeOK
<1>7. ASSUME NEW b \in BookingIds, NEW i \in Issues, Attach(b, i)  PROVE TypeOK'
  <2>1. asked' \in 0..MaxAsked
    BY <1>7, BookingsAssumption DEF Attach, Asked, TypeOK
  <2> QED  BY <1>7, <2>1 DEF Attach, TypeOK
<1>8. ASSUME NEW b \in BookingIds, NEW isAdmin \in BOOLEAN, Delete(b, isAdmin)  PROVE TypeOK'
  <2>1. asked' \in 0..MaxAsked
    BY <1>8, BookingsAssumption DEF Delete, Asked, TypeOK
  <2>2. /\ booking' \in [BookingIds -> Row]
        /\ req' \in [Requests -> Op \cup {Idle}]
        /\ booking'[b].status = "deleted"
        /\ \A c \in BookingIds \ {b} : booking'[c] = booking[c]
        /\ \A q \in Requests : SameDecision(q)
    BY <1>8, DeleteEffect DEF Overtaken
  <2>3. \A c \in BookingIds : booking[c].status # "none" => booking'[c].status # "none"
    BY <2>2
  <2>4. \A q \in Requests : req'[q] # Idle /\ req'[q].kind # "create"
                              => booking'[req'[q].id].status # "none"
    BY <2>2, <2>3, RowsStay
  <2>5. UNCHANGED <<now, attached, emptied, raced, hollow>>
    BY <1>8 DEF Delete
  <2> QED  BY <2>1, <2>2, <2>4, <2>5 DEF TypeOK
<1>9. CASE UNCHANGED vars
  BY <1>9 DEF vars, TypeOK
<1> QED
  BY <1>1, <1>2, <1>3, <1>4, <1>5, <1>6, <1>7, <1>8, <1>9 DEF Next, Commit

LEMMA BookingsTypeInit == Init => TypeOK
  BY BookingsAssumption DEF Init, TypeOK, Times, Row, NoRow

\* The rows, the attachments and the requests keep their types, and a request that
\* releases or detaches names a booking that exists (shareable_resource.py).
THEOREM BookingsTypeCorrect == Spec => []TypeOK
  BY BookingsTypeInit, BookingsTypeStep, PTL DEF Spec

-----------------------------------------------------------------------------
(***************************************************************************)
(* Intervals.                                                              *)
(***************************************************************************)

\* An interval that passes _check_slots_with_existing overlaps no row.
LEMMA SlotFree ==
  ASSUME NEW r1 \in Row, NEW r2 \in Row,
         ~IsActive(r2, r1.since),
         r1.since < r2.since => r1.until # 0 /\ r1.until <= r2.since
  PROVE  ~Overlap(r1, r2)
<1>1. r1.since \in Nat /\ r1.until \in Nat /\ r2.since \in Nat /\ r2.until \in Nat
  BY BookingsAssumption DEF Row
<1>2. ASSUME NEW t \in Times, IsActive(r1, t), IsActive(r2, t)  PROVE FALSE
  <2>1. t \in Nat
    BY DEF Times
  <2> QED  BY <1>1, <1>2, <2>1 DEF IsActive
<1> QED  BY <1>2 DEF Overlap

\* So does an empty one.

LEMMA EmptyFree ==
  ASSUME NEW r1 \in Row, NEW r2 \in Row, r1.until # 0, r1.until <= r1.since
  PROVE  ~Overlap(r1, r2)
<1>1. r1.since \in Nat /\ r1.until \in Nat
  BY BookingsAssumption DEF Row
<1>2. ASSUME NEW t \in Times, IsActive(r1, t)  PROVE FALSE
  <2>1. t \in Nat
    BY DEF Times
  <2> QED  BY <1>1, <1>2, <2>1 DEF IsActive
<1> QED  BY <1>2 DEF Overlap

\* An end that passes the check of the rows that begin later is good for the rows
\* that begin earlier, if the interval was not empty.

LEMMA EndFree ==
  ASSUME NEW r0 \in Row, NEW r1 \in Row, NEW r2 \in Row,
         r1.since = r0.since, r0.since \in Times, ~Overlap(r0, r2),
         r0.until = 0 \/ r0.since < r0.until,
         r0.since < r2.since => r1.until # 0 /\ r1.until <= r2.since
  PROVE  ~Overlap(r1, r2)
<1>1. /\ r0.since \in Nat /\ r0.until \in Nat /\ r1.until \in Nat
      /\ r2.since \in Nat /\ r2.until \in Nat
  BY BookingsAssumption DEF Row
<1>2. ASSUME NEW t \in Times, IsActive(r1, t), IsActive(r2, t)  PROVE FALSE
  <2>1. t \in Nat
    BY DEF Times
  <2>2. CASE r0.since < r2.since
    BY <1>1, <1>2, <2>1, <2>2 DEF IsActive
  <2>3. CASE r2.since <= r0.since
    <3>1. IsActive(r0, r0.since)
      BY <1>1 DEF IsActive
    <3>2. IsActive(r2, r0.since)
      BY <1>1, <1>2, <2>1, <2>3 DEF IsActive
    <3> QED  BY <3>1, <3>2 DEF Overlap
  <2> QED  BY <1>1, <2>2, <2>3
<1> QED  BY <1>2 DEF Overlap

\* While the clock goes on, a slot that was free stays so, or its end passes.

LEMMA SlotStaysFree ==
  ASSUME TypeOK, NEW t \in Nat, now <= t, NEW until \in 0..MaxTime,
         ~SlotTaken(now, until), until = 0 \/ t < until
  PROVE  ~SlotTaken(t, until)
<1>1. now \in Nat /\ until \in Nat
  BY BookingsAssumption DEF TypeOK, Times
<1>2. ASSUME NEW b \in Booked
      PROVE  /\ ~IsActive(booking[b], t)
             /\ t < booking[b].since => until # 0 /\ until <= booking[b].since
  <2>1. booking[b] \in Row
    BY DEF TypeOK, Booked
  <2>2. booking[b].since \in Nat /\ booking[b].until \in Nat
    BY <2>1, BookingsAssumption DEF Row
  <2>3. /\ ~IsActive(booking[b], now)
        /\ now < booking[b].since => until # 0 /\ until <= booking[b].since
    BY <1>1, <2>2 DEF SlotTaken
  <2> QED  BY <1>1, <2>2, <2>3 DEF IsActive
<1>3. \A b \in Booked : booking[b].since \in Nat
  <2>1. \A b \in Booked : booking[b] \in Row
    BY DEF TypeOK, Booked
  <2> QED  BY <2>1, BookingsAssumption DEF Row
<1> QED  BY <1>1, <1>2, <1>3 DEF SlotTaken

-----------------------------------------------------------------------------
(***************************************************************************)
(* What a request has decided is still so when it commits, unless it is    *)
(* stale.  A creation for the time of its insert may by then be empty.     *)
(***************************************************************************)
Decided(r) == req[r] # Idle /\ ~req[r].stale

FreshCreates ==
  \A r \in Requests : Decided(r) /\ req[r].kind = "create" =>
    /\ booking[req[r].id].status = "none"
    /\ \/ ~SlotTaken(Given(req[r].since), req[r].until)
       \/ req[r].until # 0 /\ req[r].until <= Given(req[r].since)

FreshReleases ==
  \A r \in Requests : Decided(r) /\ req[r].kind = "release" =>
    req[r].id \in Booked /\ ~EndTaken(req[r].id, req[r].until)

FreshDetaches ==
  \A r \in Requests : Decided(r) /\ req[r].kind = "detach" =>
    \/ ~booking[req[r].id].auto
    \/ \E i \in Issues \ req[r].issue : <<req[r].id, i>> \in attached

\* An automatic release ends its booking at the time of the read.
DueReleases ==
  \A r \in Requests : req[r] # Idle /\ req[r].kind = "release" /\ req[r].issue # {} =>
    req[r].until # 0 /\ req[r].until <= now

\* Bookings begin at an instant.
Begun ==
  /\ \A b \in BookingIds : booking[b].status # "none" => booking[b].since \in Times
  /\ \A r \in Requests : req[r] # Idle /\ req[r].kind = "create" =>
       req[r].since \in Times \cup {Default}

\* The histories name bookings for what they say.
Marked ==
  /\ \A b \in BookingIds : Hollow(booking[b]) => b \in hollow
  /\ \A b \in emptied : booking[b].status # "none"

DecisionInv == FreshCreates /\ FreshReleases /\ FreshDetaches /\ DueReleases /\ Begun

\* The request is over, or was overtaken by the step.
Superseded(q) ==
  req'[q] # Idle /\ req'[q].kind # "publish" =>
    /\ req[q] # Idle /\ req'[q].stale
    /\ req'[q].kind = req[q].kind /\ req'[q].id = req[q].id
    /\ req'[q].since = req[q].since /\ req'[q].until = req[q].until
    /\ req'[q].issue = req[q].issue

LEMMA CommitSupersedes ==
  ASSUME TypeOK, NEW r \in Requests, Commit(r)
  PROVE  \A q \in Requests : Superseded(q)
<1>1. CASE CommitCreate(r) \/ CommitDetach(r)
  <2>1. req' = Outdated(r, Idle)
    BY <1>1 DEF CommitCreate, CommitDetach
  <2>2. req'[r] = Idle /\ \A q \in Requests \ {r} : Overtaken(q)
    BY <2>1, OutdatedEffect
  <2> QED  BY <2>2 DEF Superseded, Overtaken, SameDecision
<1>2. CASE CommitRelease(r)
  <2>1. PICK next : /\ next = IF req[r].due THEN [req[r] EXCEPT !.kind = "publish"] ELSE Idle
                    /\ req' = Outdated(r, next)
    BY <1>2 DEF CommitRelease
  <2>2. req[r] \in Op
    BY <1>2 DEF TypeOK, CommitRelease
  <2>3. next \in Op \cup {Idle} /\ (next # Idle => next.kind = "publish")
    BY <2>1, <2>2 DEF Op
  <2>4. req'[r] = next /\ \A q \in Requests \ {r} : Overtaken(q)
    BY <2>1, <2>3, OutdatedEffect
  <2> QED  BY <2>3, <2>4 DEF Superseded, Overtaken, SameDecision
<1> QED  BY <1>1, <1>2 DEF Commit

\* After a write nothing rests on a read that came before it.

LEMMA WriteStep ==
  ASSUME TypeOK, DecisionInv, \A q \in Requests : Superseded(q), now' = now,
         \A b \in BookingIds : booking'[b].status # "none" => booking'[b].since \in Times
  PROVE  DecisionInv'
<1>1. FreshCreates' /\ FreshReleases' /\ FreshDetaches'
  BY DEF FreshCreates, FreshReleases, FreshDetaches, Decided, Superseded
<1>2. DueReleases'
  BY DEF DecisionInv, DueReleases, Superseded
<1>3. Begun'
  BY DEF DecisionInv, Begun, Superseded
<1> QED  BY <1>1, <1>2, <1>3 DEF DecisionInv

\* A step that writes no row and detaches nothing; the clock may go on.
Waits ==
  /\ \A q \in Requests : req'[q] \in {Idle, req[q]}
  /\ UNCHANGED <<booking, raced, hollow>>
  /\ attached \subseteq attached' /\ emptied' \subseteq emptied
  /\ now <= now'
  /\ \A b \in emptied' : \A i \in Issues : <<b, i>> \in attached' => <<b, i>> \in attached

LEMMA Waiting ==
  ASSUME TypeOK,
         \/ Tick \/ UNCHANGED vars
         \/ \E r \in Requests : Publish(r) \/ Abort(r)
         \/ \E b \in BookingIds, i \in Issues : Attach(b, i)
  PROVE  Waits
<1>1. now \in Nat
  BY DEF TypeOK, Times
<1>2. CASE Tick \/ UNCHANGED vars
  BY <1>1, <1>2 DEF Tick, Waits, vars
<1>3. ASSUME NEW r \in Requests, Publish(r) \/ Abort(r)  PROVE Waits
  <2>1. /\ req' = [req EXCEPT ![r] = Idle]
        /\ UNCHANGED <<now, booking, attached, emptied, raced, hollow>>
    BY <1>3 DEF Publish, Abort
  <2>2. req'[r] = Idle /\ \A q \in Requests \ {r} : req'[q] = req[q]
    BY <2>1, OneRequest
  <2> QED  BY <1>1, <2>1, <2>2 DEF Waits
<1>4. ASSUME NEW b \in BookingIds, NEW i \in Issues, Attach(b, i)  PROVE Waits
  <2>1. /\ UNCHANGED <<now, booking, req, raced, hollow>>
        /\ attached' = attached \cup {<<b, i>>} /\ emptied' = emptied \ {b}
    BY <1>4 DEF Attach
  <2> QED  BY <1>1, <2>1 DEF Waits
<1> QED  BY <1>2, <1>3, <1>4

LEMMA WaitStep ==
  ASSUME TypeOK, TypeOK', DecisionInv, Waits
  PROVE  DecisionInv'
<1>t. now \in Nat /\ now' \in Nat
  BY DEF TypeOK, Times
<1>1. FreshCreates'
  <2>1. ASSUME NEW r \in Requests, Decided(r)', req'[r].kind = "create"
        PROVE  /\ booking'[req'[r].id].status = "none"
               /\ \/ ~SlotTaken(Given(req[r].since), req[r].until)'
                  \/ req'[r].until # 0 /\ req'[r].until <= Given(req[r].since)'
    <3>1. req'[r] = req[r] /\ Decided(r) /\ req[r].kind = "create"
      BY <2>1 DEF Decided, Waits
    <3>2. /\ booking[req[r].id].status = "none"
          /\ \/ ~SlotTaken(Given(req[r].since), req[r].until)
             \/ req[r].until # 0 /\ req[r].until <= Given(req[r].since)
      BY <3>1 DEF DecisionInv, FreshCreates
    <3>3. req[r] \in Op /\ req[r].since \in Times \cup {Default}
      BY <3>1 DEF DecisionInv, Begun, Decided, TypeOK
    <3>4. PICK s \in Times \cup {Default} : s = req[r].since
      BY <3>3
    <3>5. PICK u \in 0..MaxTime : u = req[r].until
      BY <3>3 DEF Op
    <3>6. \A t : SlotTaken(t, u)' <=> SlotTaken(t, u)
      BY DEF SlotTaken, Booked, Waits
    <3>7. CASE s # Default
      <4>1. Given(s)' = s /\ Given(s) = s
        BY <3>7 DEF Given
      <4> QED  BY <3>1, <3>2, <3>4, <3>5, <3>6, <4>1 DEF Waits
    <3>8. CASE s = Default
      <4>1. Given(s)' = now' /\ Given(s) = now
        BY <3>8 DEF Given
      <4>2. (u # 0 /\ u <= now') \/ ~SlotTaken(now, u)
        BY <1>t, <3>2, <3>4, <3>5, <4>1 DEF Waits
      <4>3. PICK t \in Nat : t = now' /\ now <= t
        BY <1>t DEF Waits
      <4>4. (u # 0 /\ u <= t) \/ ~SlotTaken(t, u)
        <5>1. u \in Nat
          BY <3>5, BookingsAssumption
        <5> QED  BY <4>2, <4>3, <5>1, SlotStaysFree
      <4> QED  BY <3>1, <3>2, <3>4, <3>5, <3>6, <4>1, <4>3, <4>4 DEF Waits
    <3> QED  BY <3>7, <3>8
  <2> QED  BY <2>1 DEF FreshCreates
<1>2. FreshReleases'
  <2>1. ASSUME NEW r \in Requests, Decided(r)', req'[r].kind = "release"
        PROVE  req'[r].id \in Booked' /\ ~EndTaken(req[r].id, req[r].until)'
    <3>1. req'[r] = req[r] /\ Decided(r) /\ req[r].kind = "release"
      BY <2>1 DEF Decided, Waits
    <3>2. req[r].id \in Booked /\ ~EndTaken(req[r].id, req[r].until)
      BY <3>1 DEF DecisionInv, FreshReleases
    <3>3. booking' = booking
      BY DEF Waits
    <3> QED  BY <3>1, <3>2, <3>3 DEF EndTaken, Booked
  <2> QED  BY <2>1 DEF FreshReleases
<1>3. FreshDetaches'
  BY DEF Waits, DecisionInv, FreshDetaches, Decided
<1>4. DueReleases'
  <2>1. ASSUME NEW r \in Requests, req'[r] # Idle, req'[r].kind = "release", req'[r].issue # {}
        PROVE  req'[r].until # 0 /\ req'[r].until <= now'
    <3>1. req'[r] = req[r] /\ req[r] \in Op
      BY <2>1 DEF Waits, TypeOK
    <3>2. req[r].until # 0 /\ req[r].until <= now /\ req[r].until \in Nat
      BY <2>1, <3>1, BookingsAssumption DEF DecisionInv, DueReleases, Op
    <3> QED  BY <1>t, <3>1, <3>2 DEF Waits
  <2> QED  BY <2>1 DEF DueReleases
<1>5. Begun'
  BY DEF Waits, DecisionInv, Begun
<1> QED  BY <1>1, <1>2, <1>3, <1>4, <1>5 DEF DecisionInv

LEMMA AskStep ==
  ASSUME TypeOK, DecisionInv, NEW r \in Requests, NEW op \in Op, Decides(r, op)
  PROVE  DecisionInv'
<1>1. /\ req'[r] = op /\ \A q \in Requests \ {r} : req'[q] = req[q]
      /\ UNCHANGED <<now, booking, attached, emptied, raced, hollow>>
  BY OneRequest DEF Decides
<1>2. Decision(op)
  BY DEF Decides
<1>3. now \in Nat /\ now # 0
  BY DEF TypeOK, Times
<1>4. FreshCreates'
  <2>1. ASSUME NEW q \in Requests, Decided(q)', req'[q].kind = "create"
        PROVE  /\ booking[req'[q].id].status = "none"
               /\ \/ ~SlotTaken(Given(req'[q].since), req'[q].until)
                  \/ req'[q].until # 0 /\ req'[q].until <= Given(req'[q].since)
    <3>1. CASE q = r
      BY <1>1, <1>2, <2>1, <3>1 DEF Decision
    <3>2. CASE q # r
      BY <1>1, <2>1, <3>2 DEF DecisionInv, FreshCreates, Decided
    <3> QED  BY <3>1, <3>2
  <2>2. ASSUME NEW q \in Requests, Decided(q)', req'[q].kind = "create"
        PROVE  /\ booking'[req'[q].id].status = "none"
               /\ \/ ~SlotTaken(Given(req[q].since), req[q].until)'
                  \/ req'[q].until # 0 /\ req'[q].until <= Given(req[q].since)'
    BY <1>1, <2>1, <2>2 DEF SlotTaken, Booked, Given
  <2> QED  BY <2>2 DEF FreshCreates
<1>5. FreshReleases'
  <2>1. ASSUME NEW q \in Requests, Decided(q)', req'[q].kind = "release"
        PROVE  req'[q].id \in Booked /\ ~EndTaken(req'[q].id, req'[q].until)
    <3>1. CASE q = r
      BY <1>1, <1>2, <2>1, <3>1 DEF Decision
    <3>2. CASE q # r
      BY <1>1, <2>1, <3>2 DEF DecisionInv, FreshReleases, Decided
    <3> QED  BY <3>1, <3>2
  <2>2. ASSUME NEW q \in Requests, Decided(q)', req'[q].kind = "release"
        PROVE  req'[q].id \in Booked' /\ ~EndTaken(req[q].id, req[q].until)'
    BY <1>1, <2>1, <2>2 DEF Booked, EndTaken
  <2> QED  BY <2>2 DEF FreshReleases
<1>6. FreshDetaches'
  <2>1. ASSUME NEW q \in Requests, Decided(q)', req'[q].kind = "detach"
        PROVE  \/ ~booking[req'[q].id].auto
               \/ \E i \in Issues \ req'[q].issue : <<req'[q].id, i>> \in attached
    <3>1. CASE q = r
      BY <1>1, <1>2, <2>1, <3>1 DEF Decision
    <3>2. CASE q # r
      BY <1>1, <2>1, <3>2 DEF DecisionInv, FreshDetaches, Decided
    <3> QED  BY <3>1, <3>2
  <2> QED  BY <1>1, <2>1 DEF FreshDetaches
<1>7. DueReleases'
  <2>1. ASSUME NEW q \in Requests, req'[q] # Idle, req'[q].kind = "release", req'[q].issue # {}
        PROVE  req'[q].until # 0 /\ req'[q].until <= now'
    <3>1. CASE q = r
      BY <1>1, <1>2, <1>3, <2>1, <3>1 DEF Decision
    <3>2. CASE q # r
      BY <1>1, <2>1, <3>2 DEF DecisionInv, DueReleases
    <3> QED  BY <3>1, <3>2
  <2> QED  BY <2>1 DEF DueReleases
<1>8. Begun'
  <2>1. ASSUME NEW q \in Requests, req'[q] # Idle, req'[q].kind = "create"
        PROVE  req'[q].since \in Times \cup {Default}
    <3>1. CASE q = r
      BY <1>1, <1>2, <2>1, <3>1 DEF Decision
    <3>2. CASE q # r
      BY <1>1, <2>1, <3>2 DEF DecisionInv, Begun
    <3> QED  BY <3>1, <3>2
  <2> QED  BY <1>1, <2>1 DEF DecisionInv, Begun
<1> QED  BY <1>4, <1>5, <1>6, <1>7, <1>8 DEF DecisionInv

LEMMA DecisionStep ==
  ASSUME TypeOK, TypeOK', DecisionInv, [Next]_vars
  PROVE  DecisionInv'
<1>0. \A b \in BookingIds : booking[b].status # "none" => booking[b].since \in Times
  BY DEF DecisionInv, Begun
<1>1. CASE \/ Tick \/ UNCHANGED vars
           \/ \E r \in Requests : Publish(r) \/ Abort(r)
           \/ \E b \in BookingIds, i \in Issues : Attach(b, i)
  BY <1>1, Waiting, WaitStep
<1>2. ASSUME NEW r \in Requests, Ask(r)  PROVE DecisionInv'
  BY <1>2, AskEffect, AskStep
<1>3. ASSUME NEW r \in Requests, Commit(r)  PROVE DecisionInv'
  <2>1. \A q \in Requests : Superseded(q)
    BY <1>3, CommitSupersedes
  <2>2. now' = now
    BY <1>3 DEF Commit, CommitCreate, CommitRelease, CommitDetach
  <2>3. \A b \in BookingIds : booking'[b].status # "none" => booking'[b].since \in Times
    <3>1. CASE CommitCreate(r)
      <4>1. req[r].since \in Times \cup {Default}
        BY <3>1 DEF CommitCreate, DecisionInv, Begun
      <4>2. Given(req[r].since) \in Times
        BY <4>1 DEF Given, TypeOK
      <4>3. CreatesRow(r)
        BY <3>1, CreateEffect
      <4> QED  BY <1>0, <4>2, <4>3 DEF CreatesRow
    <3>2. CASE CommitRelease(r)
      BY <1>0, <3>2, ReleaseEffect DEF ReleasesRow
    <3>3. CASE CommitDetach(r)
      BY <1>0, <3>3 DEF CommitDetach
    <3> QED  BY <1>3, <3>1, <3>2, <3>3 DEF Commit
  <2> QED  BY <2>1, <2>2, <2>3, WriteStep
<1>4. ASSUME NEW b \in BookingIds, NEW isAdmin \in BOOLEAN, Delete(b, isAdmin)
      PROVE  DecisionInv'
  <2>1. /\ booking'[b].since = booking[b].since /\ booking[b].status = "booked"
        /\ \A c \in BookingIds \ {b} : booking'[c] = booking[c]
        /\ \A q \in Requests : Overtaken(q)
    BY <1>4, DeleteEffect
  <2>2. \A q \in Requests : Superseded(q)
    BY <2>1 DEF Superseded, Overtaken, SameDecision
  <2>3. \A c \in BookingIds : booking'[c].status # "none" => booking'[c].since \in Times
    BY <1>0, <2>1
  <2>4. now' = now
    BY <1>4 DEF Delete
  <2> QED  BY <2>2, <2>3, <2>4, WriteStep
<1> QED  BY <1>1, <1>2, <1>3, <1>4 DEF Next

-----------------------------------------------------------------------------
(***************************************************************************)
(* The histories.                                                          *)
(***************************************************************************)

LEMMA RaceEffect ==
  ASSUME TypeOK, NEW r \in Requests, Commit(r)
  PROVE  /\ raced \subseteq raced' /\ hollow \subseteq hollow'
         /\ req[r].stale => req[r].id \in raced'
         /\ \A b \in BookingIds : Hollow(booking'[b]) => b \in hollow'
<1>1. Race(r)
  BY DEF Commit, CommitCreate, CommitRelease, CommitDetach
<1> QED  BY <1>1 DEF Race

LEMMA MarkedStep ==
  ASSUME TypeOK, TypeOK', Marked, [Next]_vars
  PROVE  Marked'
<1>1. CASE \/ Tick \/ UNCHANGED vars
           \/ \E r \in Requests : Publish(r) \/ Abort(r)
           \/ \E b \in BookingIds, i \in Issues : Attach(b, i)
  <2>1. Waits
    BY <1>1, Waiting
  <2> QED  BY <2>1 DEF Waits, Marked
<1>2. ASSUME NEW r \in Requests, Ask(r)  PROVE Marked'
  <2>1. PICK op \in Op : Decides(r, op)
    BY <1>2, AskEffect
  <2> QED  BY <2>1 DEF Decides, Marked
<1>3. ASSUME NEW r \in Requests, Commit(r)  PROVE Marked'
  <2>1. \A b \in BookingIds : Hollow(booking'[b]) => b \in hollow'
    BY <1>3, RaceEffect
  <2>2. emptied \subseteq BookingIds
    BY DEF TypeOK
  <2>3. ASSUME NEW b \in emptied'  PROVE booking'[b].status # "none"
    <3>1. CASE CommitCreate(r)
      <4>1. CreatesRow(r) /\ b \in emptied
        BY <2>3, <3>1, CreateEffect DEF CommitCreate
      <4> QED  BY <2>2, <4>1 DEF CreatesRow, Marked
    <3>2. CASE CommitRelease(r)
      <4>1. req[r] \in Op /\ req[r].kind = "release" /\ b \in emptied \cup {req[r].id}
        BY <2>3, <3>2 DEF CommitRelease, TypeOK
      <4>2. b \in BookingIds /\ booking[b].status # "none"
        BY <2>2, <3>2, <4>1 DEF Marked, TypeOK, Op, CommitRelease
      <4>3. ReleasesRow(r)
        BY <3>2, ReleaseEffect
      <4> QED  BY <4>2, <4>3 DEF ReleasesRow
    <3>3. CASE CommitDetach(r)
      <4>1. /\ req[r] # Idle /\ req[r].kind = "detach"
            /\ b \in emptied \cup {req[r].id} /\ booking' = booking
        BY <2>3, <3>3 DEF CommitDetach
      <4> QED  BY <4>1 DEF Marked, TypeOK
    <3> QED  BY <1>3, <3>1, <3>2, <3>3 DEF Commit
  <2> QED  BY <2>1, <2>3 DEF Marked
<1>4. ASSUME NEW b \in BookingIds, NEW isAdmin \in BOOLEAN, Delete(b, isAdmin)
      PROVE  Marked'
  <2>1. /\ booking'[b].status = "deleted"
        /\ \A c \in BookingIds \ {b} : booking'[c] = booking[c]
    BY <1>4, DeleteEffect
  <2>2. UNCHANGED <<emptied, hollow>> /\ emptied \subseteq BookingIds
    BY <1>4 DEF Delete, TypeOK
  <2>3. ~Hollow(booking'[b])
    BY <2>1 DEF Hollow
  <2> QED  BY <2>1, <2>2, <2>3 DEF Marked
<1> QED  BY <1>1, <1>2, <1>3, <1>4 DEF Next

-----------------------------------------------------------------------------
(***************************************************************************)
(* No overlap.                                                             *)
(***************************************************************************)

\* A step that changes one row owes an account of that row only.
LEMMA OneRowChanged ==
  ASSUME NoOverlapUnlessRaced, NEW b \in BookingIds,
         \A c \in BookingIds \ {b} : booking'[c] = booking[c],
         raced \subseteq raced', hollow \subseteq hollow',
         b \in Booked' => \/ b \in raced' \cup hollow'
                          \/ \A c \in Booked' \ {b} :
                               Overlap(booking'[b], booking'[c]) => c \in raced' \cup hollow'
  PROVE  NoOverlapUnlessRaced'
<1>1. ASSUME NEW c \in Booked', NEW d \in Booked', c # d, Overlap(booking'[c], booking'[d])
      PROVE  {c, d} \cap (raced' \cup hollow') # {}
  <2>1. c \in BookingIds /\ d \in BookingIds
    BY DEF Booked
  <2>2. Overlap(booking'[d], booking'[c])
    BY <1>1 DEF Overlap
  <2>3. CASE c = b \/ d = b
    BY <1>1, <2>1, <2>2, <2>3
  <2>4. CASE c # b /\ d # b
    <3>1. /\ booking'[c] = booking[c] /\ booking'[d] = booking[d]
          /\ c \in Booked /\ d \in Booked
      BY <2>1, <2>4 DEF Booked
    <3>2. {c, d} \cap (raced \cup hollow) # {}
      BY <1>1, <3>1 DEF NoOverlapUnlessRaced
    <3> QED  BY <3>2
  <2> QED  BY <2>3, <2>4
<1> QED  BY <1>1 DEF NoOverlapUnlessRaced

LEMMA OverlapCreate ==
  ASSUME TypeOK, DecisionInv, NoOverlapUnlessRaced, NEW r \in Requests, CommitCreate(r)
  PROVE  NoOverlapUnlessRaced'
<1>1. /\ raced \subseteq raced' /\ hollow \subseteq hollow'
      /\ req[r].stale => req[r].id \in raced'
  BY RaceEffect DEF Commit
<1>2. CreatesRow(r)
  BY CreateEffect
<1>3. req[r] \in Op /\ req[r].id \in BookingIds /\ req[r] # Idle /\ req[r].kind = "create"
  BY DEF CommitCreate, TypeOK, Op
<1>4. PICK b \in BookingIds : b = req[r].id
  BY <1>3
<1>5. /\ booking'[b] \in Row
      /\ booking'[b].since = Given(req[r].since) /\ booking'[b].until = req[r].until
  BY <1>2, <1>4 DEF CreatesRow
<1>6. ASSUME ~req[r].stale, NEW c \in Booked' \ {b}
      PROVE  ~Overlap(booking'[b], booking'[c])
  <2>1. c \in BookingIds /\ booking'[c] = booking[c] /\ booking[c] \in Row /\ c \in Booked
    BY <1>2, <1>4 DEF CreatesRow, Booked, TypeOK
  <2>2. \/ ~SlotTaken(Given(req[r].since), req[r].until)
        \/ req[r].until # 0 /\ req[r].until <= Given(req[r].since)
    BY <1>3, <1>6 DEF DecisionInv, FreshCreates, Decided
  <2>3. CASE ~SlotTaken(Given(req[r].since), req[r].until)
    <3>1. /\ ~IsActive(booking[c], booking'[b].since)
          /\ ~(/\ booking'[b].since < booking[c].since
               /\ booking'[b].until = 0 \/ booking'[b].until > booking[c].since)
      BY <1>5, <2>1, <2>3 DEF SlotTaken
    <3>2. /\ booking'[b].since \in Nat /\ booking'[b].until \in Nat /\ booking[c].since \in Nat
      BY <1>5, <2>1, BookingsAssumption DEF Row
    <3>3. booking'[b].since < booking[c].since =>
            booking'[b].until # 0 /\ booking'[b].until <= booking[c].since
      BY <3>1, <3>2
    <3> QED  BY <1>5, <2>1, <3>1, <3>3, SlotFree
  <2>4. CASE req[r].until # 0 /\ req[r].until <= Given(req[r].since)
    BY <1>5, <2>1, <2>4, EmptyFree
  <2> QED  BY <2>2, <2>3, <2>4
<1>7. \A c \in BookingIds \ {b} : booking'[c] = booking[c]
  BY <1>2, <1>4 DEF CreatesRow
<1>8. \/ b \in raced' \cup hollow'
      \/ \A c \in Booked' \ {b} :
           Overlap(booking'[b], booking'[c]) => c \in raced' \cup hollow'
  BY <1>1, <1>4, <1>6
<1> QED  BY <1>1, <1>7, <1>8, OneRowChanged

LEMMA OverlapRelease ==
  ASSUME TypeOK, DecisionInv, Marked, NoOverlapUnlessRaced, NEW r \in Requests, CommitRelease(r)
  PROVE  NoOverlapUnlessRaced'
<1>1. /\ raced \subseteq raced' /\ hollow \subseteq hollow'
      /\ req[r].stale => req[r].id \in raced'
  BY RaceEffect DEF Commit
<1>2. ReleasesRow(r)
  BY ReleaseEffect
<1>3. req[r] \in Op /\ req[r].id \in BookingIds /\ req[r] # Idle /\ req[r].kind = "release"
  BY DEF CommitRelease, TypeOK, Op
<1>4. PICK b \in BookingIds : b = req[r].id
  BY <1>3
<1>5. /\ booking'[b] \in Row /\ booking[b] \in Row
      /\ booking'[b].since = booking[b].since /\ booking'[b].until = req[r].until
  BY <1>2, <1>4 DEF ReleasesRow, TypeOK
<1>6. ASSUME ~req[r].stale, b \notin raced' \cup hollow',
             NEW c \in Booked' \ {b}, c \notin raced' \cup hollow'
      PROVE  ~Overlap(booking'[b], booking'[c])
  <2>1. c \in BookingIds /\ booking'[c] = booking[c] /\ booking[c] \in Row /\ c \in Booked
    BY <1>2, <1>4 DEF ReleasesRow, Booked, TypeOK
  <2>2. b \in Booked /\ ~EndTaken(b, req[r].until)
    BY <1>3, <1>4, <1>6 DEF DecisionInv, FreshReleases, Decided
  <2>3. ~Overlap(booking[b], booking[c])
    BY <1>1, <1>6, <2>1, <2>2 DEF NoOverlapUnlessRaced
  <2>4. ~Hollow(booking[b]) /\ booking[b].status = "booked"
    BY <1>1, <1>6, <2>2 DEF Marked, Booked
  <2>5. booking[b].since \in Times
    BY <2>4 DEF DecisionInv, Begun
  <2>6. /\ booking[b].since \in Nat /\ booking[b].until \in Nat
        /\ booking'[b].until \in Nat /\ booking[c].since \in Nat
    BY <1>5, <2>1, BookingsAssumption DEF Row
  <2>7. booking[b].until = 0 \/ booking[b].since < booking[b].until
    BY <2>4, <2>6 DEF Hollow
  <2>8. booking[b].since < booking[c].since =>
          booking'[b].until # 0 /\ booking'[b].until <= booking[c].since
    BY <1>5, <1>6, <2>1, <2>2, <2>6 DEF EndTaken
  <2> QED  BY <1>5, <2>1, <2>3, <2>5, <2>7, <2>8, EndFree
<1>7. \A c \in BookingIds \ {b} : booking'[c] = booking[c]
  BY <1>2, <1>4 DEF ReleasesRow
<1>8. \/ b \in raced' \cup hollow'
      \/ \A c \in Booked' \ {b} :
           Overlap(booking'[b], booking'[c]) => c \in raced' \cup hollow'
  BY <1>1, <1>4, <1>6
<1> QED  BY <1>1, <1>7, <1>8, OneRowChanged

LEMMA OverlapStep ==
  ASSUME TypeOK, DecisionInv, Marked, NoOverlapUnlessRaced, [Next]_vars
  PROVE  NoOverlapUnlessRaced'
<1>0. ASSUME booking' = booking, raced \subseteq raced', hollow \subseteq hollow'
      PROVE  NoOverlapUnlessRaced'
  <2>1. Booked' = Booked
    BY <1>0 DEF Booked
  <2> QED  BY <1>0, <2>1 DEF NoOverlapUnlessRaced
<1>1. CASE \/ Tick \/ UNCHANGED vars
           \/ \E r \in Requests : Publish(r) \/ Abort(r)
           \/ \E b \in BookingIds, i \in Issues : Attach(b, i)
  BY <1>0, <1>1, Waiting DEF Waits
<1>2. ASSUME NEW r \in Requests, Ask(r)  PROVE NoOverlapUnlessRaced'
  BY <1>0, <1>2, AskEffect DEF Decides
<1>3. ASSUME NEW r \in Requests, Commit(r)  PROVE NoOverlapUnlessRaced'
  <2>1. CASE CommitDetach(r)
    BY <1>0, <1>3, <2>1, RaceEffect DEF CommitDetach
  <2> QED  BY <1>3, <2>1, OverlapCreate, OverlapRelease DEF Commit
<1>4. ASSUME NEW b \in BookingIds, NEW isAdmin \in BOOLEAN, Delete(b, isAdmin)
      PROVE  NoOverlapUnlessRaced'
  <2>1. /\ booking'[b].status = "deleted"
        /\ \A c \in BookingIds \ {b} : booking'[c] = booking[c]
    BY <1>4, DeleteEffect
  <2>2. b \notin Booked'
    BY <2>1 DEF Booked
  <2>3. UNCHANGED <<raced, hollow>>
    BY <1>4 DEF Delete
  <2> QED  BY <2>1, <2>2, <2>3, OneRowChanged
<1> QED  BY <1>1, <1>2, <1>3, <1>4 DEF Next

LEMMA BookingsInit == Init => DecisionInv /\ Marked /\ NoOverlapUnlessRaced
<1>1. ASSUME Init
      PROVE  /\ \A b \in BookingIds : booking[b] = NoRow
             /\ \A r \in Requests : req[r] = Idle
             /\ emptied = {}
  BY <1>1 DEF Init
<1>2. ASSUME Init  PROVE DecisionInv
  BY <1>1, <1>2 DEF DecisionInv, FreshCreates, FreshReleases, FreshDetaches, DueReleases,
                    Begun, Decided, NoRow
<1>3. ASSUME Init  PROVE Marked /\ NoOverlapUnlessRaced
  BY <1>1, <1>3 DEF Marked, Hollow, NoRow, NoOverlapUnlessRaced, Booked
<1> QED  BY <1>2, <1>3

\* _check_slots_with_existing and the check of a new end keep the bookings of a
\* resource apart, for any number of bookings and requests, as long as no request
\* commits on a read that is no longer so and no booking is empty.
THEOREM BookingsApart == Spec => []NoOverlapUnlessRaced
  BY BookingsTypeInit, BookingsTypeStep, BookingsInit, DecisionStep, MarkedStep, OverlapStep,
     PTL DEF Spec

-----------------------------------------------------------------------------
(***************************************************************************)
(* Automatic releases.                                                     *)
(***************************************************************************)

\* A booking that a step leaves alone.
LEMMA StillReleased ==
  ASSUME TypeOK, TypeOK', AutoReleasedUnlessRaced, NEW b \in emptied,
         booking'[b] = booking[b], now <= now', raced \subseteq raced',
         \A i \in Issues : <<b, i>> \in attached => <<b, i>> \in attached',
         Live(b)', booking'[b].auto, b \notin raced'
  PROVE  \E i \in Issues : <<b, i>> \in attached'
<1>1. b \in BookingIds /\ booking[b] \in Row
  BY DEF TypeOK
<1>2. now \in Nat /\ now' \in Nat /\ booking[b].until \in Nat
  BY <1>1, BookingsAssumption DEF TypeOK, Times, Row
<1>3. Live(b)
  BY <1>1, <1>2 DEF Live, Booked
<1> QED  BY <1>3 DEF AutoReleasedUnlessRaced

LEMMA ReleasedRelease ==
  ASSUME TypeOK, TypeOK', DecisionInv, AutoReleasedUnlessRaced, NEW r \in Requests,
         CommitRelease(r)
  PROVE  AutoReleasedUnlessRaced'
<1>1. raced \subseteq raced' /\ ReleasesRow(r)
  BY RaceEffect, ReleaseEffect DEF Commit
<1>2. /\ now' = now /\ attached' = {p \in attached : p[1] # req[r].id}
      /\ emptied' = IF req[r].issue = {} THEN emptied \ {req[r].id}
                    ELSE emptied \cup {req[r].id}
      /\ req[r] # Idle /\ req[r].kind = "release"
  BY DEF CommitRelease
<1>3. now \in Nat /\ req[r].id \in BookingIds
  BY <1>2 DEF TypeOK, Times, Op
<1>4. ASSUME NEW b \in emptied', Live(b)', booking'[b].auto, b \notin raced'
      PROVE  \E i \in Issues : <<b, i>> \in attached'
  <2>1. CASE b = req[r].id
    <3>1. req[r].issue # {}
      BY <1>2, <2>1
    <3>2. req[r].until # 0 /\ req[r].until <= now
      BY <1>2, <3>1 DEF DecisionInv, DueReleases
    <3>3. booking'[b].until = req[r].until
      BY <1>1, <1>3, <2>1 DEF ReleasesRow
    <3>4. req[r].until \in Nat
      BY <1>2, BookingsAssumption DEF TypeOK, Op
    <3>5. ~(booking'[b].until = 0 \/ booking'[b].until > now')
      BY <1>2, <1>3, <3>2, <3>3, <3>4
    <3> QED  BY <1>4, <3>5 DEF Live
  <2>2. CASE b # req[r].id
    <3>1. b \in emptied /\ b \in BookingIds /\ booking'[b] = booking[b]
      BY <1>1, <1>2, <2>2 DEF ReleasesRow, TypeOK
    <3>2. \A i \in Issues : <<b, i>> \in attached => <<b, i>> \in attached'
      BY <1>2, <2>2
    <3> QED  BY <1>1, <1>2, <1>3, <1>4, <3>1, <3>2, StillReleased
  <2> QED  BY <2>1, <2>2
<1> QED  BY <1>4 DEF AutoReleasedUnlessRaced

LEMMA ReleasedDetach ==
  ASSUME TypeOK, TypeOK', DecisionInv, AutoReleasedUnlessRaced, NEW r \in Requests,
         CommitDetach(r)
  PROVE  AutoReleasedUnlessRaced'
<1>1. raced \subseteq raced' /\ (req[r].stale => req[r].id \in raced')
  BY RaceEffect DEF Commit
<1>2. /\ UNCHANGED <<now, booking>>
      /\ attached' = attached \ {<<req[r].id, i>> : i \in req[r].issue}
      /\ emptied' \subseteq emptied \cup {req[r].id}
      /\ req[r] # Idle /\ req[r].kind = "detach"
  BY DEF CommitDetach
<1>3. now \in Nat
  BY DEF TypeOK, Times
<1>4. ASSUME NEW b \in emptied', Live(b)', booking'[b].auto, b \notin raced'
      PROVE  \E i \in Issues : <<b, i>> \in attached'
  <2>1. CASE b = req[r].id
    <3>1. Decided(r) /\ booking[b].auto
      BY <1>1, <1>2, <1>4, <2>1 DEF Decided
    <3>2. PICK i \in Issues \ req[r].issue : <<b, i>> \in attached
      BY <1>2, <2>1, <3>1 DEF DecisionInv, FreshDetaches
    <3>3. <<b, i>> \in attached'
      BY <1>2, <3>2
    <3> QED  BY <3>3
  <2>2. CASE b # req[r].id
    <3>1. b \in emptied
      BY <1>2, <2>2
    <3>2. \A i \in Issues : <<b, i>> \in attached => <<b, i>> \in attached'
      BY <1>2, <2>2
    <3> QED  BY <1>1, <1>2, <1>3, <1>4, <3>1, <3>2, StillReleased
  <2> QED  BY <2>1, <2>2
<1> QED  BY <1>4 DEF AutoReleasedUnlessRaced

LEMMA ReleasedStep ==
  ASSUME TypeOK, TypeOK', DecisionInv, Marked, AutoReleasedUnlessRaced, [Next]_vars
  PROVE  AutoReleasedUnlessRaced'
<1>t. now \in Nat /\ emptied \subseteq BookingIds
  BY DEF TypeOK, Times
<1>1. CASE \/ Tick \/ UNCHANGED vars
           \/ \E r \in Requests : Publish(r) \/ Abort(r)
           \/ \E b \in BookingIds, i \in Issues : Attach(b, i)
  <2>1. Waits
    BY <1>1, Waiting
  <2>2. ASSUME NEW b \in emptied', Live(b)', booking'[b].auto, b \notin raced'
        PROVE  \E i \in Issues : <<b, i>> \in attached'
    BY <2>1, <2>2, StillReleased DEF Waits
  <2> QED  BY <2>2 DEF AutoReleasedUnlessRaced
<1>2. ASSUME NEW r \in Requests, Ask(r)  PROVE AutoReleasedUnlessRaced'
  <2>1. UNCHANGED <<now, booking, attached, emptied, raced>>
    BY <1>2, AskEffect DEF Decides
  <2> QED  BY <2>1 DEF AutoReleasedUnlessRaced, Live, Booked
<1>3. ASSUME NEW r \in Requests, CommitCreate(r)  PROVE AutoReleasedUnlessRaced'
  <2>1. raced \subseteq raced' /\ (req[r].stale => req[r].id \in raced') /\ CreatesRow(r)
    BY <1>3, RaceEffect, CreateEffect DEF Commit
  <2>2. UNCHANGED <<now, attached, emptied>> /\ req[r] # Idle /\ req[r].kind = "create"
    BY <1>3 DEF CommitCreate
  <2>3. ASSUME NEW b \in emptied', Live(b)', booking'[b].auto, b \notin raced'
        PROVE  \E i \in Issues : <<b, i>> \in attached'
    <3>1. CASE b = req[r].id
      BY <2>1, <2>2, <2>3, <3>1 DEF DecisionInv, FreshCreates, Decided, Marked
    <3>2. CASE b # req[r].id
      <4>1. b \in emptied /\ booking'[b] = booking[b]
        BY <1>t, <2>1, <2>2, <2>3, <3>2 DEF CreatesRow
      <4> QED  BY <1>t, <2>1, <2>2, <2>3, <4>1, StillReleased
    <3> QED  BY <3>1, <3>2
  <2> QED  BY <2>3 DEF AutoReleasedUnlessRaced
<1>4. ASSUME NEW b \in BookingIds, NEW isAdmin \in BOOLEAN, Delete(b, isAdmin)
      PROVE  AutoReleasedUnlessRaced'
  <2>1. /\ booking'[b].status = "deleted"
        /\ \A c \in BookingIds \ {b} : booking'[c] = booking[c]
    BY <1>4, DeleteEffect
  <2>2. UNCHANGED <<now, attached, emptied, raced>>
    BY <1>4 DEF Delete
  <2>3. ASSUME NEW c \in emptied', Live(c)', booking'[c].auto, c \notin raced'
        PROVE  \E i \in Issues : <<c, i>> \in attached'
    <3>1. c # b
      BY <2>1, <2>3 DEF Live, Booked
    <3>2. c \in emptied /\ booking'[c] = booking[c]
      BY <1>t, <2>1, <2>2, <2>3, <3>1
    <3>3. now <= now' /\ raced' = raced /\ attached' = attached
      BY <1>t, <2>2
    <3> QED  BY <2>3, <3>2, <3>3, StillReleased
  <2> QED  BY <2>3 DEF AutoReleasedUnlessRaced
<1> QED
  BY <1>1, <1>2, <1>3, <1>4, ReleasedRelease, ReleasedDetach DEF Next, Commit

\* An auto-released booking is released together with its last issue, whichever
\* requests attach, detach and release in between, unless two are committed across
\* each other (check_autorelease).
THEOREM BookingsAutoReleased == Spec => []AutoReleasedUnlessRaced
<1>1. Init => AutoReleasedUnlessRaced
  BY DEF Init, AutoReleasedUnlessRaced
<1> QED
  BY <1>1, BookingsTypeInit, BookingsTypeStep, BookingsInit, DecisionStep, MarkedStep,
     ReleasedStep, PTL DEF Spec
=============================================================================
