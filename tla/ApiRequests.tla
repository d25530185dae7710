---------------------------- MODULE ApiRequests ----------------------------
(***************************************************************************)
(* The request layer of the web interface (src/ngui/ui/src): the redux     *)
(* middleware that sends API requests, the request manager that cancels    *)
(* them, the api reducer that keeps loading flags, hashes and time stamps, *)
(* and the useApiState / useEffect pair by which a mounted component asks  *)
(* for its data.                                                           *)
(*                                                                         *)
(* A query is a GET label that some component shows; a mutation is a       *)
(* label whose success resets the queries it affects.  JavaScript runs one *)
(* task at a time and drains its promise reactions and its synchronous     *)
(* React renders before the next: the steps marked "task" below need       *)
(* Drained, the others are promise reactions and effects.                  *)
(***************************************************************************)
EXTENDS Naturals, FiniteSets

CONSTANTS Queries,      \* labels of GET requests
          Mutations,    \* labels of POST/PATCH/DELETE requests
          Multi,        \* labels sent with allowMultipleRequests
          Params,       \* the parameter values a query is asked with
          Ids,          \* request identifiers (uuidv4), reused once forgotten
          MaxClicks,    \* bound: what the user does in a behaviour
          None,         \* no parameters: the component is not mounted
          NoData,       \* nothing is stored under the label
          Reported      \* marks stored data that misses a reported change

CONSTANT Affected       \* Affected[m]: the queries mutation m resets

ASSUME ApiAssumption ==
  /\ Queries \cap Mutations = {}
  /\ Multi \subseteq Mutations
  /\ Affected \in [Mutations -> SUBSET Queries]
  /\ Queries # {}
  /\ None \notin Params /\ Reported \notin Ids /\ MaxClicks \in Nat
  /\ IsFiniteSet(Ids) /\ Ids \subseteq Nat

VARIABLES
  api,       \* the api reducer: api[l] is the status kept under a label
  data,      \* the restapi reducer: data[q] is what the last answer stored
  pending,   \* requestManager.pendingRequests
  req,       \* every request the browser has made and not yet forgotten
  want,      \* want[q]: the parameters the mounted component passes, or None
  seen,      \* seen[q]: the effect's dependencies at its last run, or None
  signedIn,  \* a token is in the store
  clicks     \* what the user has done so far

vars == <<api, data, pending, req, want, seen, signedIn, clicks>>

Labels == Queries \cup Mutations

\* timestamp: 0 ("reset"), in the future ("valid"), or passed ("elapsed").
Stamps == {"reset", "valid", "elapsed"}
\* sent: in flight. aborted: the rejection is about to be caught. settled: the
\* then or catch has run, finally has not. finished: the caller's .then is next.
Phases == {"free", "sent", "aborted", "settled", "finished"}

Answer == [params : Params \cup {None}, misses : SUBSET (Ids \cup {Reported}),
           old : BOOLEAN]
\* No answer looks like the absence of data.
ASSUME NoDataAssumption == NoData \notin Answer

Request == [label : Labels, phase : Phases, served : BOOLEAN, ok : BOOLEAN,
            answer : Answer]
Status == [isLoading : BOOLEAN, hash : Params \cup {None}, stamp : Stamps,
           isError : BOOLEAN]

NoStatus == [isLoading |-> FALSE, hash |-> None, stamp |-> "reset", isError |-> FALSE]

(***************************************************************************)
(* What a component reads (useApiState).                                   *)
(***************************************************************************)
\* Mutant of ShouldInvoke: the parameters are not compared.
ShouldInvokeTtlOnly(q) == api[q].stamp # "valid"
\* Mutant of ShouldInvoke: the time stamp is not compared.
ShouldInvokeParamsOnly(q) == want[q] # api[q].hash
ShouldInvoke(q) == want[q] # api[q].hash \/ api[q].stamp # "valid"

IsDataReady(q) == ~api[q].isLoading /\ ~ShouldInvoke(q)

\* The effect of a mounted component runs when its dependencies changed.
RenderPending(q) == want[q] # None /\ seen[q] # <<want[q], ShouldInvoke(q)>>

\* No promise reaction and no render waits: the next task may start.
Drained == /\ \A i \in Ids : req[i].phase \in {"free", "sent"}
           /\ \A q \in Queries : ~RenderPending(q)

User == signedIn /\ Drained /\ clicks < MaxClicks /\ clicks' = clicks + 1

HasPending(l, ids) == \E i \in ids : req[i].label = l

(***************************************************************************)
(* The middleware: dispatching an API action.                              *)
(***************************************************************************)
\* Requests that cancelPreviousPendingRequests aborts before one for label l.
Cancelled(l) == IF l \in Multi THEN {} ELSE {i \in pending : req[i].label = l}

\* Mutant of Registered: a cancelled request stays registered.
RegisteredBeside(l, i) == pending \cup {i}
Registered(l, i) == (pending \ Cancelled(l)) \cup {i}

\* AbortController.abort: only a request whose promise has not settled rejects.
Aborting(r) == IF r.phase = "sent" THEN [r EXCEPT !.phase = "aborted"] ELSE r

\* Mutant of Started: API_START leaves the loading flag as it is.
StartedSilently(s, p) == [s EXCEPT !.hash = p]
Started(s, p) == [s EXCEPT !.isLoading = TRUE, !.hash = p]

\* Identifiers are interchangeable: a request takes the first free one.
FirstFree(i) == /\ req[i].phase = "free"
                /\ \A j \in Ids : req[j].phase = "free" => i <= j

Send(l, p) ==
  \E i \in Ids :
    /\ FirstFree(i)
    /\ api' = [api EXCEPT ![l] = Started(@, p)]
    /\ pending' = Registered(l, i)
    /\ req' = [j \in Ids |->
                 IF j = i
                 THEN [label |-> l, phase |-> "sent", served |-> FALSE, ok |-> FALSE,
                       answer |-> [params |-> p, misses |-> {}, old |-> FALSE]]
                 ELSE IF j \in Cancelled(l) THEN Aborting(req[j]) ELSE req[j]]

\* useEffect of a service hook: dispatch the GET when shouldInvoke.
Render(q) ==
  /\ RenderPending(q)
  /\ seen' = [seen EXCEPT ![q] = <<want[q], ShouldInvoke(q)>>]
  /\ IF ShouldInvoke(q) THEN Send(q, want[q]) ELSE UNCHANGED <<api, pending, req>>
  /\ UNCHANGED <<data, want, signedIn, clicks>>

(***************************************************************************)
(* What the user does (tasks).                                             *)
(***************************************************************************)
\* A component is mounted, or asks with other parameters.
Show(q, p) ==
  /\ User
  /\ want[q] # p
  /\ want' = [want EXCEPT ![q] = p]
  /\ UNCHANGED <<api, data, pending, req, seen, signedIn>>

\* A component is unmounted; its request goes on.
Hide(q) ==
  /\ User
  /\ want[q] # None
  /\ want' = [want EXCEPT ![q] = None]
  /\ seen' = [seen EXCEPT ![q] = None]
  /\ UNCHANGED <<api, data, pending, req, signedIn>>

\* Bound: two identifiers are left for each query, one of them to cancel the other.
Spare == Cardinality({i \in Ids : req[i].phase # "free" /\ req[i].label \in Mutations})
           + 2 * Cardinality(Queries) < Cardinality(Ids)

Mutate(m) ==
  /\ User /\ Spare
  /\ Send(m, None)
  /\ UNCHANGED <<data, want, seen, signedIn>>

\* useRefetchApis: the time stamp of a query is reset by hand.
Refetch(q) ==
  /\ User
  /\ api' = [api EXCEPT ![q].stamp = "reset"]
  /\ UNCHANGED <<data, pending, req, want, seen, signedIn>>

\* A render, for whatever reason, finds that the ttl has passed.
TtlElapses(q) ==
  /\ User
  /\ api[q].stamp = "valid"
  /\ api' = [api EXCEPT ![q].stamp = "elapsed"]
  /\ UNCHANGED <<data, pending, req, want, seen, signedIn>>

(***************************************************************************)
(* The server and the network (tasks).                                     *)
(***************************************************************************)
\* The answers and stored data that a change made by request i leaves behind.
Behind(a, i) == [a EXCEPT !.misses = @ \cup {i}]
AffectedBy(i) == IF req[i].label \in Mutations THEN Affected[req[i].label] ELSE {}

\* The server reads the data, or makes the change.  What it does for a request
\* the browser has given up is never reported, and is left out.
Serve(i) ==
  /\ Drained
  /\ req[i].phase = "sent" /\ ~req[i].served
  /\ req' = [j \in Ids |->
               IF j = i THEN [req[i] EXCEPT !.served = TRUE]
               ELSE IF req[j].label \in AffectedBy(i) /\ req[j].served
                    THEN [req[j] EXCEPT !.answer = Behind(@, i)] ELSE req[j]]
  /\ data' = [q \in Queries |-> IF q \in AffectedBy(i) /\ data[q] # NoData
                                THEN Behind(data[q], i) ELSE data[q]]
  /\ UNCHANGED <<api, pending, want, seen, signedIn, clicks>>

(***************************************************************************)
(* The answer of request i reaches the middleware (tasks).                 *)
(***************************************************************************)
\* Mutant of SuccessOf: API_SUCCESS leaves the error of an earlier request.
SuccessKeepsError(s) == [s EXCEPT !.stamp = "valid"]
SuccessOf(s) == [s EXCEPT !.stamp = "valid", !.isError = FALSE]

ErrorOf(s) == [s EXCEPT !.isError = TRUE]

\* Mutant of IsReset: a label that is being loaded is not reset.
IsResetIdle(l, i) == l \in AffectedBy(i) /\ ~api[l].isLoading
IsReset(l, i) == l \in AffectedBy(i)

\* The change of request i is reported: stored data that misses it is stale.
Told(a, i) == IF i \in a.misses THEN [a EXCEPT !.misses = (@ \ {i}) \cup {Reported}] ELSE a

Settled(r, good) == [r EXCEPT !.phase = "settled", !.ok = good]

\* .then: store the data, reset the affected requests, then API_SUCCESS.
Succeed(i) ==
  /\ Drained
  /\ req[i].phase = "sent" /\ req[i].served
  /\ data' = [q \in Queries |->
                IF q = req[i].label THEN req[i].answer
                ELSE IF q \in AffectedBy(i) /\ data[q] # NoData THEN Told(data[q], i)
                ELSE data[q]]
  /\ api' = [l \in Labels |->
               IF l = req[i].label THEN SuccessOf(api[l])
               ELSE IF IsReset(l, i) THEN [api[l] EXCEPT !.stamp = "reset"]
               ELSE api[l]]
  /\ req' = [req EXCEPT ![i] = Settled(@, TRUE)]
  /\ UNCHANGED <<pending, want, seen, signedIn, clicks>>

\* .catch: an error status, or no answer at all; the server may have acted.
Fail(i) ==
  /\ Drained
  /\ req[i].phase = "sent"
  /\ api' = [api EXCEPT ![req[i].label] = ErrorOf(@)]
  /\ req' = [req EXCEPT ![i] = Settled(@, FALSE)]
  /\ UNCHANGED <<data, pending, want, seen, signedIn, clicks>>

\* Mutant of StillPending: signing out leaves the requests in flight.
StillPendingAll == pending
\* cancelAllPendingRequests, at the end of signOut.
StillPending == {}

OfOldSession(r) == [r EXCEPT !.answer.old = TRUE]
LeftBy(r, i) == OfOldSession(IF i \in StillPending THEN r ELSE Aborting(r))

\* signOut: the root reducer drops the statuses and the data, every pending
\* request is aborted, and the router leaves the page.
SignOut ==
  /\ data' = [q \in Queries |-> NoData]
  /\ pending' = StillPending
  /\ want' = [q \in Queries |-> None]
  /\ seen' = [q \in Queries |-> None]
  /\ signedIn' = FALSE

\* .catch of a 401: sign out, then API_ERROR in the emptied store.
Unauthorized(i) ==
  /\ Drained
  /\ req[i].phase = "sent"
  /\ SignOut
  /\ api' = [l \in Labels |-> IF l = req[i].label THEN ErrorOf(NoStatus) ELSE NoStatus]
  /\ req' = [j \in Ids |-> IF j = i THEN OfOldSession(Settled(req[j], FALSE))
                           ELSE LeftBy(req[j], j)]
  /\ UNCHANGED clicks

\* The user signs out.
Leave ==
  /\ User
  /\ SignOut
  /\ api' = [l \in Labels |-> NoStatus]
  /\ req' = [j \in Ids |-> LeftBy(req[j], j)]

SignIn ==
  /\ ~signedIn /\ Drained
  /\ signedIn' = TRUE
  /\ UNCHANGED <<api, data, pending, req, want, seen, clicks>>

(***************************************************************************)
(* Promise reactions.                                                      *)
(***************************************************************************)
\* .catch of an aborted request: the CanceledError is reported like any other.
CatchAborted(i) ==
  /\ req[i].phase = "aborted"
  /\ api' = [api EXCEPT ![req[i].label] = ErrorOf(@)]
  /\ req' = [req EXCEPT ![i] = Settled(@, FALSE)]
  /\ UNCHANGED <<data, pending, want, seen, signedIn, clicks>>

\* Mutant of EndsLoading: the request itself is still counted as pending.
EndsLoadingTooEarly(i) == ~HasPending(req[i].label, pending)
EndsLoading(i) == ~HasPending(req[i].label, pending \ {i})

Finally(i) ==
  /\ req[i].phase = "settled"
  /\ pending' = pending \ {i}
  /\ api' = IF EndsLoading(i) THEN [api EXCEPT ![req[i].label].isLoading = FALSE] ELSE api
  /\ req' = [req EXCEPT ![i].phase = "finished"]
  /\ UNCHANGED <<data, want, seen, signedIn, clicks>>

NoRequest == [label |-> CHOOSE l \in Labels : TRUE, phase |-> "free", served |-> FALSE,
              ok |-> FALSE, answer |-> [params |-> None, misses |-> {}, old |-> FALSE]]
Forgotten(a, i) == [a EXCEPT !.misses = @ \ {i}]

\* The .then of the caller, which reads isError(label) as its verdict; the
\* identifier is not used again by the code, and may be by the model.
Continue(i) ==
  /\ req[i].phase = "finished"
  /\ req' = [j \in Ids |-> IF j = i THEN NoRequest
                           ELSE [req[j] EXCEPT !.answer = Forgotten(@, i)]]
  /\ data' = [q \in Queries |-> IF data[q] # NoData THEN Forgotten(data[q], i) ELSE NoData]
  /\ UNCHANGED <<api, pending, want, seen, signedIn, clicks>>

Init ==
  /\ api = [l \in Labels |-> NoStatus]
  /\ data = [q \in Queries |-> NoData]
  /\ pending = {}
  /\ req = [i \in Ids |-> NoRequest]
  /\ want = [q \in Queries |-> None]
  /\ seen = [q \in Queries |-> None]
  /\ signedIn = TRUE
  /\ clicks = 0

UserStep == \/ \E q \in Queries : \/ \E p \in Params : Show(q, p)
                                  \/ Hide(q) \/ Refetch(q) \/ TtlElapses(q)
            \/ \E m \in Mutations : Mutate(m)
            \/ Leave

Answered(i) == Succeed(i) \/ Fail(i) \/ Unauthorized(i)
Reaction(i) == CatchAborted(i) \/ Finally(i) \/ Continue(i)

Next == \/ UserStep
        \/ SignIn
        \/ \E q \in Queries : Render(q)
        \/ \E i \in Ids : Serve(i) \/ Answered(i) \/ Reaction(i)

(***************************************************************************)
(* Promise reactions and renders are never left in the queue, and the      *)
(* browser settles every request: with an answer or with a network error.  *)
(***************************************************************************)
Fairness == /\ \A q \in Queries : WF_vars(Render(q))
            /\ \A i \in Ids : WF_vars(Reaction(i)) /\ WF_vars(Answered(i))

Spec == Init /\ [][Next]_vars
FairSpec == Spec /\ Fairness

-----------------------------------------------------------------------------
(***************************************************************************)
(* Properties.                                                             *)
(***************************************************************************)
\* Every variable has its type, and the pending requests are the ones whose
\* finally has not run, less those already cancelled.
TypeOK ==
  /\ api \in [Labels -> Status]
  /\ data \in [Queries -> Answer \cup {NoData}]
  /\ pending \subseteq {i \in Ids : req[i].phase \in {"sent", "settled"}}
  /\ req \in [Ids -> Request]
  /\ want \in [Queries -> Params \cup {None}]
  /\ seen \in [Queries -> (Params \X BOOLEAN) \cup {None}]
  /\ signedIn \in BOOLEAN
  /\ clicks \in 0..MaxClicks

\* A label shows as loading exactly while a request for it is registered: a
\* cancelled request's finally does not clear the flag of its successor, and the
\* last finally does clear it, also when several requests run at once, when the
\* last one was aborted, and when the user signs out.
LoadingIffPending ==
  \A l \in Labels : api[l].isLoading <=> HasPending(l, pending)

\* What a component takes for ready and free of error was answered to the
\* parameters it shows, whatever was cancelled, failed or overtaken before.
ReadyDataMatches ==
  \A q \in Queries :
    want[q] # None /\ IsDataReady(q) /\ ~api[q].isError
      => data[q] # NoData /\ data[q].params = want[q]

\* Nothing asked for in an earlier session is stored or can still be answered:
\* signing out aborts what is in flight, and no late answer fills the store of
\* the user who signs in next, or signs him out with an old 401.
NoOldSession ==
  /\ \A q \in Queries : data[q] # NoData => ~data[q].old
  /\ \A i \in Ids : req[i].phase = "sent" => ~req[i].answer.old

\* The caller of a request reads isError of the label when its promise resolves:
\* it is then the outcome of that very request, also when a later request for
\* the label has cancelled it or runs beside it.
VerdictIsOwn ==
  \A i \in Ids : req[i].phase = "finished" => (api[req[i].label].isError <=> ~req[i].ok)

\* Once a change has been reported, data that was stored before the report and
\* misses the change is not taken for fresh, also when the server answered the
\* query after the change was sent and while the label is being loaded anew.  An
\* answer still on its way at the report is another matter: it is stamped fresh.
ResetStands ==
  \A q \in Queries : api[q].stamp = "valid" /\ data[q] # NoData => Reported \notin data[q].misses

\* A component that shows a query ends up with an error or with ready data for
\* its parameters, unless it is hidden or asks for something else.
EventuallyAnswered ==
  \A q \in Queries, p \in Params :
    want[q] = p ~> \/ want[q] # p
                   \/ api[q].isError
                   \/ IsDataReady(q) /\ data[q].params = p

\* A reset of a shown query is followed by a new answer or an error.
ResetIsRefetched ==
  \A q \in Queries :
    api[q].stamp = "reset" /\ want[q] # None
      ~> api[q].stamp # "reset" \/ api[q].isError \/ want[q] = None
=============================================================================
