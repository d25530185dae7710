-------------------------- MODULE ApiRequests_proofs --------------------------
(***************************************************************************)
(* Theorems about ApiRequests: its types, that nothing of an earlier       *)
(* session survives signing out, that the loading flag of a label follows  *)
(* the registered requests, and that a label shared by many requests still *)
(* gives each caller the outcome of its own, and each component the answer *)
(* it asked for, however requests are cancelled and overtaken.             *)
(***************************************************************************)
EXTENDS ApiRequests, TLAPS

USE ApiAssumption

\* The changes made to an answer keep its type and its session.

LEMMA AnswerChanges ==
  ASSUME NEW a \in Answer, NEW i \in Ids
  PROVE  /\ Behind(a, i) \in Answer /\ Behind(a, i).old = a.old
         /\ Told(a, i) \in Answer /\ Told(a, i).old = a.old
         /\ Forgotten(a, i) \in Answer /\ Forgotten(a, i).old = a.old
  BY DEF Answer, Behind, Told, Forgotten

\* So do the changes made to a request with its label; they give it a phase.

LEMMA RequestChanges ==
  ASSUME NEW r \in Request
  PROVE  /\ Aborting(r) \in Request /\ Aborting(r).label = r.label
         /\ Aborting(r).answer = r.answer
         /\ Aborting(r).phase = IF r.phase = "sent" THEN "aborted" ELSE r.phase
         /\ OfOldSession(r) \in Request /\ OfOldSession(r).label = r.label
         /\ OfOldSession(r).phase = r.phase
         /\ Settled(r, TRUE) \in Request /\ Settled(r, TRUE).label = r.label
         /\ Settled(r, TRUE).phase = "settled"
         /\ Settled(r, FALSE) \in Request /\ Settled(r, FALSE).label = r.label
         /\ Settled(r, FALSE).phase = "settled"
  BY DEF Request, Answer, Aborting, OfOldSession, Settled, Phases

\* And the changes made to a status.

LEMMA StatusChanges ==
  ASSUME NEW s \in Status
  PROVE  /\ \A p \in Params \cup {None} : /\ Started(s, p) \in Status
                                          /\ Started(s, p).isLoading
         /\ SuccessOf(s) \in Status /\ SuccessOf(s).isLoading = s.isLoading
         /\ ErrorOf(s) \in Status /\ ErrorOf(s).isLoading = s.isLoading
         /\ \A t \in Stamps : /\ [s EXCEPT !.stamp = t] \in Status
                              /\ [s EXCEPT !.stamp = t].isLoading = s.isLoading
  BY DEF Status, Started, SuccessOf, ErrorOf, Stamps

\* An aborted request is not in flight, nor is one left by signOut.

LEMMA AbortedNotSent ==
  ASSUME NEW r \in Request
  PROVE  Aborting(r).phase # "sent"
  BY RequestChanges

LEMMA LeftNotSent ==
  ASSUME NEW r \in Request, NEW i \in Ids
  PROVE  LeftBy(r, i).phase # "sent"
<1>1. Aborting(r) \in Request /\ Aborting(r).phase # "sent"
  BY RequestChanges, AbortedNotSent
<1>2. OfOldSession(Aborting(r)).phase # "sent"
  BY <1>1, RequestChanges
<1> QED  BY <1>2 DEF LeftBy, StillPending

LEMMA NoneChanged ==
  /\ NoRequest \in Request /\ NoRequest.phase = "free"
  /\ NoStatus \in Status /\ ~NoStatus.isLoading
<1>1. (CHOOSE l \in Labels : TRUE) \in Labels
  BY DEF Labels
<1> QED  BY <1>1 DEF NoRequest, Request, Answer, Phases, NoStatus, Status, Stamps

\* The requests after one of them has settled or run its finally.

LEMMA SettledOne ==
  ASSUME req \in [Ids -> Request], NEW i \in Ids, NEW good \in BOOLEAN,
         req' = [req EXCEPT ![i] = Settled(@, good)]
  PROVE  /\ req' \in [Ids -> Request]
         /\ req'[i] = Settled(req[i], good)
         /\ \A j \in Ids : /\ req'[j].label = req[j].label
                           /\ req'[j].phase = IF j = i THEN "settled" ELSE req[j].phase
<1>1. /\ Settled(req[i], good) \in Request
      /\ Settled(req[i], good).label = req[i].label
      /\ Settled(req[i], good).phase = "settled"
  <2>1. req[i] \in Request
    OBVIOUS
  <2> QED  BY <2>1, RequestChanges
<1>2. req'[i] = Settled(req[i], good) /\ \A j \in Ids \ {i} : req'[j] = req[j]
  OBVIOUS
<1>3. req' = [j \in Ids |-> IF j = i THEN Settled(req[i], good) ELSE req[j]]
  OBVIOUS
<1> QED  BY <1>1, <1>2, <1>3

LEMMA FinishedOne ==
  ASSUME req \in [Ids -> Request], NEW i \in Ids,
         req' = [req EXCEPT ![i].phase = "finished"]
  PROVE  /\ req' \in [Ids -> Request]
         /\ \A j \in Ids : /\ req'[j].label = req[j].label
                           /\ req'[j].phase = IF j = i THEN "finished" ELSE req[j].phase
<1> DEFINE r == [req[i] EXCEPT !.phase = "finished"]
<1>1. r \in Request /\ r.label = req[i].label /\ r.phase = "finished"
  BY DEF Request, Phases
<1>2. req' = [j \in Ids |-> IF j = i THEN r ELSE req[j]]
  OBVIOUS
<1> HIDE DEF r
<1> QED  BY <1>1, <1>2

(***************************************************************************)
(* Types.  A registered request is in flight or about to run its finally.  *)
(***************************************************************************)

LEMMA TypeInit == Init => TypeOK
  BY NoneChanged DEF Init, TypeOK

\* Sending a request, from a render or a click.

LEMMA SendTypes ==
  ASSUME TypeOK, NEW l \in Labels, NEW p \in Params \cup {None}, Send(l, p)
  PROVE  /\ api' \in [Labels -> Status]
         /\ req' \in [Ids -> Request]
         /\ pending' \subseteq {i \in Ids : req'[i].phase \in {"sent", "settled"}}
<1>1. PICK i \in Ids :
        /\ req[i].phase = "free"
        /\ api' = [api EXCEPT ![l] = Started(@, p)]
        /\ pending' = Registered(l, i)
        /\ req' = [j \in Ids |->
                     IF j = i
                     THEN [label |-> l, phase |-> "sent", served |-> FALSE, ok |-> FALSE,
                           answer |-> [params |-> p, misses |-> {}, old |-> FALSE]]
                     ELSE IF j \in Cancelled(l) THEN Aborting(req[j]) ELSE req[j]]
  BY DEF Send, FirstFree
<1>2. api' \in [Labels -> Status]
  BY <1>1, StatusChanges DEF TypeOK
<1>3. [label |-> l, phase |-> "sent", served |-> FALSE, ok |-> FALSE,
       answer |-> [params |-> p, misses |-> {}, old |-> FALSE]] \in Request
  BY DEF Request, Answer, Phases
<1>4. req' \in [Ids -> Request]
  BY <1>1, <1>3, RequestChanges DEF TypeOK
<1>5. ASSUME NEW j \in pending'
      PROVE  j \in Ids /\ req'[j].phase \in {"sent", "settled"}
  <2>1. CASE j = i
    BY <2>1, <1>1
  <2>2. CASE j # i
    <3>1. j \in pending \ Cancelled(l)
      BY <2>2, <1>1 DEF Registered
    <3> QED  BY <3>1, <2>2, <1>1 DEF TypeOK
  <2> QED  BY <2>1, <2>2
<1> QED  BY <1>2, <1>4, <1>5

LEMMA TypeStep ==
  ASSUME TypeOK, [Next]_vars
  PROVE  TypeOK'
<1> USE DEF TypeOK
<1>1. ASSUME NEW q \in Queries, NEW p \in Params, Show(q, p)  PROVE TypeOK'
  BY <1>1 DEF Show, User
<1>2. ASSUME NEW q \in Queries, Hide(q)  PROVE TypeOK'
  BY <1>2 DEF Hide, User
<1>3. ASSUME NEW q \in Queries, Refetch(q)  PROVE TypeOK'
  <2>1. api' \in [Labels -> Status]
    BY <1>3, StatusChanges DEF Refetch, Stamps, Labels
  <2> QED  BY <1>3, <2>1 DEF Refetch, User
<1>4. ASSUME NEW q \in Queries, TtlElapses(q)  PROVE TypeOK'
  <2>1. api' \in [Labels -> Status]
    BY <1>4, StatusChanges DEF TtlElapses, Stamps, Labels
  <2> QED  BY <1>4, <2>1 DEF TtlElapses, User
<1>5. ASSUME NEW m \in Mutations, Mutate(m)  PROVE TypeOK'
  <2>1. m \in Labels /\ Send(m, None)
    BY <1>5 DEF Mutate, Labels
  <2> QED  BY <1>5, <2>1, SendTypes DEF Mutate, User
<1>6. ASSUME Leave  PROVE TypeOK'
  <2>1. req' \in [Ids -> Request]
    BY <1>6, RequestChanges DEF Leave, LeftBy
  <2>2. api' \in [Labels -> Status]
    BY <1>6, NoneChanged DEF Leave
  <2>3. clicks' \in 0 .. MaxClicks
    BY <1>6 DEF Leave, User
  <2> QED  BY <1>6, <2>1, <2>2, <2>3 DEF Leave, SignOut, StillPending
<1>7. CASE SignIn
  BY <1>7 DEF SignIn
<1>8. ASSUME NEW q \in Queries, Render(q)  PROVE TypeOK'
  <2>1. seen' \in [Queries -> (Params \X BOOLEAN) \cup {None}]
    BY <1>8 DEF Render, RenderPending, ShouldInvoke
  <2>2. CASE ShouldInvoke(q)
    <3>1. q \in Labels /\ want[q] \in Params \cup {None} /\ Send(q, want[q])
      BY <1>8, <2>2 DEF Render, Labels
    <3> QED  BY <1>8, <2>1, <3>1, SendTypes DEF Render
  <2>3. CASE ~ShouldInvoke(q)
    BY <1>8, <2>1, <2>3 DEF Render
  <2> QED  BY <2>2, <2>3
<1>9. ASSUME NEW i \in Ids, Serve(i)  PROVE TypeOK'
  <2>1. data' \in [Queries -> Answer \cup {NoData}]
    BY <1>9, AnswerChanges DEF Serve
  <2>2. ASSUME NEW j \in Ids
        PROVE  LET new == IF j = i THEN [req[i] EXCEPT !.served = TRUE]
                          ELSE IF req[j].label \in AffectedBy(i) /\ req[j].served
                               THEN [req[j] EXCEPT !.answer = Behind(@, i)] ELSE req[j]
               IN  new \in Request /\ new.phase = req[j].phase
    <3>1. req[j] \in Request /\ Behind(req[j].answer, i) \in Answer
      BY AnswerChanges DEF Request
    <3> QED  BY <3>1 DEF Request
  <2>3. req' \in [Ids -> Request] /\ \A j \in Ids : req'[j].phase = req[j].phase
    BY <1>9, <2>2 DEF Serve
  <2> QED  BY <1>9, <2>1, <2>3 DEF Serve
<1>10. ASSUME NEW i \in Ids, Succeed(i)  PROVE TypeOK'
  <2>1. data' \in [Queries -> Answer \cup {NoData}]
    BY <1>10, AnswerChanges DEF Succeed, Request
  <2>2. api' \in [Labels -> Status]
    BY <1>10, StatusChanges DEF Succeed, Stamps
  <2>3. /\ req' \in [Ids -> Request]
        /\ \A j \in Ids : req'[j].phase = IF j = i THEN "settled" ELSE req[j].phase
    BY <1>10, SettledOne DEF Succeed
  <2> QED  BY <1>10, <2>1, <2>2, <2>3 DEF Succeed
<1>11. ASSUME NEW i \in Ids, Fail(i)  PROVE TypeOK'
  <2>1. api' \in [Labels -> Status]
    BY <1>11, StatusChanges DEF Fail, Request
  <2>2. /\ req' \in [Ids -> Request]
        /\ \A j \in Ids : req'[j].phase = IF j = i THEN "settled" ELSE req[j].phase
    BY <1>11, SettledOne DEF Fail
  <2> QED  BY <1>11, <2>1, <2>2 DEF Fail
<1>12. ASSUME NEW i \in Ids, Unauthorized(i)  PROVE TypeOK'
  <2>1. api' \in [Labels -> Status]
    BY <1>12, StatusChanges, NoneChanged DEF Unauthorized
  <2>2. req' \in [Ids -> Request]
    BY <1>12, RequestChanges DEF Unauthorized, LeftBy
  <2> QED  BY <1>12, <2>1, <2>2 DEF Unauthorized, SignOut, StillPending
<1>13. ASSUME NEW i \in Ids, CatchAborted(i)  PROVE TypeOK'
  <2>1. api' \in [Labels -> Status]
    BY <1>13, StatusChanges DEF CatchAborted, Request
  <2>2. /\ req' \in [Ids -> Request]
        /\ \A j \in Ids : req'[j].phase = IF j = i THEN "settled" ELSE req[j].phase
    BY <1>13, SettledOne DEF CatchAborted
  <2> QED  BY <1>13, <2>1, <2>2 DEF CatchAborted
<1>14. ASSUME NEW i \in Ids, Finally(i)  PROVE TypeOK'
  <2>1. api' \in [Labels -> Status]
    <3>1. req[i].label \in Labels /\ api[req[i].label] \in Status
      BY DEF Request
    <3>2. [api[req[i].label] EXCEPT !.isLoading = FALSE] \in Status
      BY <3>1 DEF Status
    <3>3. api' = api \/ api' = [api EXCEPT ![req[i].label] = [@ EXCEPT !.isLoading = FALSE]]
      BY <1>14 DEF Finally
    <3> QED  BY <3>1, <3>2, <3>3
  <2>2. /\ req' \in [Ids -> Request]
        /\ \A j \in Ids : req'[j].phase = IF j = i THEN "finished" ELSE req[j].phase
    BY <1>14, FinishedOne DEF Finally
  <2> QED  BY <1>14, <2>1, <2>2 DEF Finally
<1>15. ASSUME NEW i \in Ids, Continue(i)  PROVE TypeOK'
  <2>1. data' \in [Queries -> Answer \cup {NoData}]
    BY <1>15, AnswerChanges DEF Continue
  <2>2. /\ req' \in [Ids -> Request]
        /\ \A j \in Ids : req'[j].phase = IF j = i THEN "free" ELSE req[j].phase
    BY <1>15, AnswerChanges, NoneChanged DEF Continue, Request
  <2> QED  BY <1>15, <2>1, <2>2 DEF Continue
<1>16. CASE UNCHANGED vars
  BY <1>16 DEF vars
<1> QED
  BY <1>1, <1>2, <1>3, <1>4, <1>5, <1>6, <1>7, <1>8, <1>9, <1>10, <1>11, <1>12,
     <1>13, <1>14, <1>15, <1>16 DEF Next, UserStep, Answered, Reaction

\* Every variable keeps its type (the api and restapi reducers and the request
\* manager), and a registered request is in flight or about to run its finally.
THEOREM ApiTypeCorrect == Spec => []TypeOK
  BY TypeInit, TypeStep, PTL DEF Spec

-----------------------------------------------------------------------------
(***************************************************************************)
(* Sessions.                                                               *)
(***************************************************************************)

LEMMA SessionStep ==
  ASSUME TypeOK, NoOldSession, [Next]_vars
  PROVE  NoOldSession'
<1> USE DEF TypeOK, NoOldSession
<1>1. ASSUME NEW l \in Labels, NEW p \in Params \cup {None}, Send(l, p)
      PROVE  \A j \in Ids : req'[j].phase = "sent" => ~req'[j].answer.old
  <2>1. PICK i \in Ids :
          /\ req'[i].answer.old = FALSE
          /\ \A j \in Ids \ {i} :
               req'[j] = IF j \in Cancelled(l) THEN Aborting(req[j]) ELSE req[j]
    BY <1>1 DEF Send, FirstFree
  <2>2. ASSUME NEW j \in Ids \ {i}, req'[j].phase = "sent"
        PROVE  ~req'[j].answer.old
    <3>1. req[j] \in Request
      OBVIOUS
    <3>2. Aborting(req[j]).phase # "sent"
      BY <3>1, AbortedNotSent
    <3> QED  BY <2>1, <2>2, <3>2
  <2> QED  BY <2>1, <2>2
<1>2. CASE UserStep
  <2>1. CASE \E q \in Queries : \/ \E p \in Params : Show(q, p)
                                \/ Hide(q) \/ Refetch(q) \/ TtlElapses(q)
    BY <2>1 DEF Show, Hide, Refetch, TtlElapses
  <2>2. CASE \E m \in Mutations : Mutate(m)
    BY <2>2, <1>1 DEF Mutate, Labels
  <2>3. CASE Leave
    <3>1. \A j \in Ids : req'[j].phase # "sent"
      BY <2>3, LeftNotSent DEF Leave
    <3> QED  BY <2>3, <3>1 DEF Leave, SignOut
  <2> QED  BY <1>2, <2>1, <2>2, <2>3 DEF UserStep
<1>3. CASE SignIn
  BY <1>3 DEF SignIn
<1>4. ASSUME NEW q \in Queries, Render(q)  PROVE NoOldSession'
  BY <1>4, <1>1 DEF Render, Labels
<1>5. ASSUME NEW i \in Ids, Serve(i)  PROVE NoOldSession'
  <2>1. \A j \in Ids : /\ req'[j].phase = req[j].phase
                       /\ req'[j].answer.old = req[j].answer.old
    <3>1. ASSUME NEW j \in Ids
          PROVE  /\ req[j] \in Request /\ Behind(req[j].answer, i) \in Answer
                 /\ Behind(req[j].answer, i).old = req[j].answer.old
      BY AnswerChanges DEF Request
    <3> QED  BY <1>5, <3>1 DEF Serve, Request
  <2>2. \A q \in Queries : data'[q] # NoData => ~data'[q].old
    BY <1>5, AnswerChanges DEF Serve
  <2> QED  BY <2>1, <2>2
<1>6. ASSUME NEW i \in Ids, Succeed(i)  PROVE NoOldSession'
  <2>1. ASSUME NEW j \in Ids, req'[j].phase = "sent"
        PROVE  ~req'[j].answer.old
    <3>0. Settled(req[i], TRUE).phase = "settled"
      BY RequestChanges
    <3>1. j # i
      BY <1>6, <2>1, <3>0 DEF Succeed
    <3> QED  BY <1>6, <2>1, <3>1 DEF Succeed
  <2>2. ASSUME NEW q \in Queries, data'[q] # NoData
        PROVE  ~data'[q].old
    <3>1. CASE q = req[i].label
      BY <1>6, <3>1 DEF Succeed
    <3>2. CASE q # req[i].label
      BY <1>6, <2>2, <3>2, AnswerChanges DEF Succeed
    <3> QED  BY <3>1, <3>2
  <2> QED  BY <2>1, <2>2
<1>7. ASSUME NEW i \in Ids, Fail(i) \/ CatchAborted(i)  PROVE NoOldSession'
  <2>1. Settled(req[i], FALSE).phase = "settled"
    BY RequestChanges
  <2>2. \A j \in Ids : req'[j] = IF j = i THEN Settled(req[i], FALSE) ELSE req[j]
    BY <1>7 DEF Fail, CatchAborted
  <2> QED  BY <1>7, <2>1, <2>2 DEF Fail, CatchAborted
<1>8. ASSUME NEW i \in Ids, Unauthorized(i)  PROVE NoOldSession'
  <2>1. OfOldSession(Settled(req[i], FALSE)).phase = "settled"
    <3>1. /\ Settled(req[i], FALSE) \in Request
          /\ Settled(req[i], FALSE).phase = "settled"
      BY RequestChanges
    <3> QED  BY <3>1, RequestChanges
  <2>2. Settled(req[i], FALSE) \in Request
    BY RequestChanges
  <2>3. \A j \in Ids : req'[j].phase # "sent"
    BY <1>8, <2>1, <2>2, LeftNotSent DEF Unauthorized
  <2> QED  BY <1>8, <2>3 DEF Unauthorized, SignOut
<1>9. ASSUME NEW i \in Ids, Finally(i)  PROVE NoOldSession'
  BY <1>9 DEF Finally, Request
<1>10. ASSUME NEW i \in Ids, Continue(i)  PROVE NoOldSession'
  <2>1. ASSUME NEW j \in Ids, req'[j].phase = "sent"
        PROVE  ~req'[j].answer.old
    <3>1. j # i
      BY <1>10, <2>1, NoneChanged DEF Continue
    <3>2. /\ req[j] \in Request /\ Forgotten(req[j].answer, i) \in Answer
          /\ Forgotten(req[j].answer, i).old = req[j].answer.old
      BY AnswerChanges DEF Request
    <3> QED  BY <1>10, <2>1, <3>1, <3>2 DEF Continue, Request
  <2>2. ASSUME NEW q \in Queries, data'[q] # NoData
        PROVE  ~data'[q].old
    <3>1. data[q] \in Answer /\ data'[q] = Forgotten(data[q], i)
      BY <1>10, <2>2 DEF Continue
    <3>2. Forgotten(data[q], i).old = data[q].old /\ data[q] # NoData
      BY <1>10, <2>2, <3>1, AnswerChanges DEF Continue
    <3> QED  BY <3>1, <3>2
  <2> QED  BY <2>1, <2>2
<1>11. CASE UNCHANGED vars
  BY <1>11 DEF vars
<1> QED
  BY <1>2, <1>3, <1>4, <1>5, <1>6, <1>7, <1>8, <1>9, <1>10, <1>11
  DEF Next, Answered, Reaction

\* Signing out (signOut and cancelAllPendingRequests) ends the session: no data of
\* it is stored and no request of it can still be answered.
THEOREM SessionsApart == Spec => []NoOldSession
<1>1. Init => NoOldSession
  BY NoneChanged DEF Init, NoOldSession
<1> QED  BY <1>1, SessionStep, ApiTypeCorrect, PTL DEF Spec

-----------------------------------------------------------------------------
(***************************************************************************)
(* What each step does to the parts of the state the invariants below      *)
(* speak of.                                                               *)
(***************************************************************************)

LEMMA AnswerParts ==
  ASSUME NEW a \in Answer, NEW i \in Ids
  PROVE  /\ Behind(a, i).params = a.params /\ Behind(a, i).misses = a.misses \cup {i}
         /\ Told(a, i).params = a.params
         /\ Forgotten(a, i).params = a.params /\ Forgotten(a, i).misses \subseteq a.misses
  BY DEF Answer, Behind, Told, Forgotten

LEMMA RequestParts ==
  ASSUME NEW r \in Request
  PROVE  /\ Aborting(r).ok = r.ok /\ Aborting(r).answer = r.answer
         /\ OfOldSession(r).answer.misses = r.answer.misses
         /\ \A good \in BOOLEAN : /\ Settled(r, good).ok = good
                                  /\ Settled(r, good).answer = r.answer
  BY DEF Request, Answer, Aborting, OfOldSession, Settled

LEMMA StatusParts ==
  ASSUME NEW s \in Status
  PROVE  /\ \A p \in Params \cup {None} :
              LET n == Started(s, p)
              IN  n.isLoading /\ n.hash = p /\ n.stamp = s.stamp /\ n.isError = s.isError
         /\ LET n == SuccessOf(s)
            IN  /\ n.isLoading = s.isLoading /\ n.hash = s.hash /\ n.stamp = "valid"
                /\ ~n.isError
         /\ LET n == ErrorOf(s)
            IN  /\ n.isLoading = s.isLoading /\ n.hash = s.hash /\ n.stamp = s.stamp
                /\ n.isError
         /\ \A t \in Stamps :
              LET n == [s EXCEPT !.stamp = t]
              IN  /\ n.isLoading = s.isLoading /\ n.hash = s.hash /\ n.stamp = t
                  /\ n.isError = s.isError
         /\ LET n == [s EXCEPT !.isLoading = FALSE]
            IN  /\ ~n.isLoading /\ n.hash = s.hash /\ n.stamp = s.stamp
                /\ n.isError = s.isError
  BY DEF Status, Started, SuccessOf, ErrorOf, Stamps

\* A request i for a label registers and cancels.
Sends(l, p, i) ==
  /\ req[i].phase = "free" /\ i \notin pending
  /\ pending' = (pending \ Cancelled(l)) \cup {i}
  /\ req'[i].label = l /\ req'[i].phase = "sent"
  /\ req'[i].answer.params = p /\ req'[i].answer.misses = {}
  /\ \A j \in Ids \ {i} :
       /\ req'[j].label = req[j].label /\ req'[j].ok = req[j].ok
       /\ req'[j].answer = req[j].answer
       /\ req'[j].phase = IF j \in Cancelled(l) /\ req[j].phase = "sent"
                          THEN "aborted" ELSE req[j].phase
  /\ api'[l].isLoading /\ api'[l].hash = p
  /\ api'[l].stamp = api[l].stamp /\ api'[l].isError = api[l].isError
  /\ \A k \in Labels \ {l} : api'[k] = api[k]

LEMMA SendEffect ==
  ASSUME TypeOK, NEW l \in Labels, NEW p \in Params \cup {None}, Send(l, p)
  PROVE  \E i \in Ids : Sends(l, p, i)
<1>1. PICK i \in Ids :
        /\ req[i].phase = "free"
        /\ api' = [api EXCEPT ![l] = Started(@, p)]
        /\ pending' = (pending \ Cancelled(l)) \cup {i}
        /\ req' = [j \in Ids |->
                     IF j = i
                     THEN [label |-> l, phase |-> "sent", served |-> FALSE, ok |-> FALSE,
                           answer |-> [params |-> p, misses |-> {}, old |-> FALSE]]
                     ELSE IF j \in Cancelled(l) THEN Aborting(req[j]) ELSE req[j]]
  BY DEF Send, FirstFree, Registered
<1>2. i \notin pending
  BY <1>1 DEF TypeOK
<1>3. /\ req'[i].label = l /\ req'[i].phase = "sent"
      /\ req'[i].answer.params = p /\ req'[i].answer.misses = {}
  BY <1>1
<1>4. ASSUME NEW j \in Ids \ {i}
      PROVE  /\ req'[j].label = req[j].label /\ req'[j].ok = req[j].ok
             /\ req'[j].answer = req[j].answer
             /\ req'[j].phase = IF j \in Cancelled(l) /\ req[j].phase = "sent"
                                THEN "aborted" ELSE req[j].phase
  <2>1. req[j] \in Request
    BY DEF TypeOK
  <2>2. /\ Aborting(req[j]).label = req[j].label /\ Aborting(req[j]).ok = req[j].ok
        /\ Aborting(req[j]).answer = req[j].answer
        /\ Aborting(req[j]).phase = IF req[j].phase = "sent" THEN "aborted"
                                    ELSE req[j].phase
    BY <2>1, RequestChanges, RequestParts
  <2>3. req'[j] = IF j \in Cancelled(l) THEN Aborting(req[j]) ELSE req[j]
    BY <1>1
  <2> QED  BY <2>2, <2>3
<1>5. /\ api'[l].isLoading /\ api'[l].hash = p
      /\ api'[l].stamp = api[l].stamp /\ api'[l].isError = api[l].isError
      /\ \A k \in Labels \ {l} : api'[k] = api[k]
  <2>1. api[l] \in Status
    BY DEF TypeOK
  <2>2. api'[l] = Started(api[l], p) /\ \A k \in Labels \ {l} : api'[k] = api[k]
    BY <1>1 DEF TypeOK
  <2> QED  BY <2>1, <2>2, StatusParts
<1> QED  BY <1>1, <1>2, <1>3, <1>4, <1>5 DEF Sends

\* The server's work changes answers and data, but not what they answer.

LEMMA ServeEffect ==
  ASSUME TypeOK, NEW i \in Ids, Serve(i)
  PROVE  /\ \A j \in Ids :
              /\ req'[j].label = req[j].label /\ req'[j].phase = req[j].phase
              /\ req'[j].ok = req[j].ok
              /\ req'[j].answer.params = req[j].answer.params
              /\ req'[j].answer.misses \subseteq req[j].answer.misses \cup {i}
         /\ \A q \in Queries :
              /\ data'[q] = NoData <=> data[q] = NoData
              /\ data[q] # NoData => /\ data'[q].params = data[q].params
                                     /\ data'[q].misses \subseteq data[q].misses \cup {i}
<1>1. ASSUME NEW j \in Ids
      PROVE  /\ req'[j].label = req[j].label /\ req'[j].phase = req[j].phase
             /\ req'[j].ok = req[j].ok
             /\ req'[j].answer.params = req[j].answer.params
             /\ req'[j].answer.misses \subseteq req[j].answer.misses \cup {i}
  <2>1. req[j] \in Request /\ req[j].answer \in Answer
    BY DEF TypeOK, Request
  <2>2. /\ Behind(req[j].answer, i).params = req[j].answer.params
        /\ Behind(req[j].answer, i).misses = req[j].answer.misses \cup {i}
    BY <2>1, AnswerParts
  <2>3. req'[j] = IF j = i THEN [req[i] EXCEPT !.served = TRUE]
                  ELSE IF req[j].label \in AffectedBy(i) /\ req[j].served
                       THEN [req[j] EXCEPT !.answer = Behind(@, i)] ELSE req[j]
    BY DEF Serve
  <2> QED  BY <2>1, <2>2, <2>3 DEF Request
<1>2. ASSUME NEW q \in Queries
      PROVE  /\ data'[q] = NoData <=> data[q] = NoData
             /\ data[q] # NoData => /\ data'[q].params = data[q].params
                                    /\ data'[q].misses \subseteq data[q].misses \cup {i}
  <2>1. data'[q] = IF q \in AffectedBy(i) /\ data[q] # NoData
                   THEN Behind(data[q], i) ELSE data[q]
    BY DEF Serve
  <2>2. CASE data[q] = NoData
    BY <2>1, <2>2
  <2>3. CASE data[q] \in Answer
    <3>1. /\ Behind(data[q], i) \in Answer /\ Behind(data[q], i).params = data[q].params
          /\ Behind(data[q], i).misses = data[q].misses \cup {i}
      BY <2>3, AnswerParts, AnswerChanges
    <3> QED  BY <2>1, <2>3, <3>1, NoDataAssumption
  <2> QED  BY <2>2, <2>3 DEF TypeOK
<1> QED  BY <1>1, <1>2

\* An answered request settles.

LEMMA SettleEffect ==
  ASSUME TypeOK, NEW i \in Ids, NEW good \in BOOLEAN,
         req' = [req EXCEPT ![i] = Settled(@, good)]
  PROVE  \A j \in Ids :
           /\ req'[j].label = req[j].label /\ req'[j].answer = req[j].answer
           /\ req'[j].phase = IF j = i THEN "settled" ELSE req[j].phase
           /\ req'[j].ok = IF j = i THEN good ELSE req[j].ok
<1>1. \A j \in Ids : /\ req'[j].label = req[j].label
                     /\ req'[j].phase = IF j = i THEN "settled" ELSE req[j].phase
  BY SettledOne DEF TypeOK
<1>2. req'[i] = Settled(req[i], good) /\ \A j \in Ids \ {i} : req'[j] = req[j]
  BY DEF TypeOK
<1>3. req[i] \in Request
  BY DEF TypeOK
<1>4. req'[i].answer = req[i].answer /\ req'[i].ok = good
  BY <1>2, <1>3, RequestParts
<1> QED  BY <1>1, <1>2, <1>4

\* An error is reported under one label.

LEMMA ErrorEffect ==
  ASSUME TypeOK, NEW i \in Ids, api' = [api EXCEPT ![req[i].label] = ErrorOf(@)]
  PROVE  /\ req[i].label \in Labels
         /\ api'[req[i].label].isError
         /\ \A l \in Labels : /\ api'[l].isLoading = api[l].isLoading
                              /\ api'[l].hash = api[l].hash
                              /\ api'[l].stamp = api[l].stamp
                              /\ l # req[i].label => api'[l] = api[l]
<1>1. req[i].label \in Labels
  BY DEF TypeOK, Request
<1>2. \A l \in Labels : api'[l] = IF l = req[i].label THEN ErrorOf(api[l]) ELSE api[l]
  BY DEF TypeOK
<1>3. \A l \in Labels : api[l] \in Status
  BY DEF TypeOK
<1> QED  BY <1>1, <1>2, <1>3, StatusParts

\* A time stamp is reset or found to have elapsed.

LEMMA StampEffect ==
  ASSUME TypeOK, NEW q \in Queries, NEW s \in Stamps, api' = [api EXCEPT ![q].stamp = s]
  PROVE  \A l \in Labels : /\ api'[l].isLoading = api[l].isLoading
                           /\ api'[l].hash = api[l].hash
                           /\ api'[l].isError = api[l].isError
                           /\ api'[l].stamp = IF l = q THEN s ELSE api[l].stamp
<1>1. \A l \in Labels : api[l] \in Status
  BY DEF TypeOK
<1>2. \A l \in Labels : api'[l] = IF l = q THEN [api[l] EXCEPT !.stamp = s] ELSE api[l]
  BY DEF TypeOK
<1>3. ASSUME NEW l \in Labels
      PROVE  LET n == [api[l] EXCEPT !.stamp = s]
             IN  /\ n.isLoading = api[l].isLoading /\ n.hash = api[l].hash
                 /\ n.stamp = s /\ n.isError = api[l].isError
  BY <1>1, StatusParts
<1>4. q \in Labels
  BY DEF Labels
<1>5. ASSUME NEW l \in Labels
      PROVE  /\ api'[l].isLoading = api[l].isLoading
             /\ api'[l].hash = api[l].hash
             /\ api'[l].isError = api[l].isError
             /\ api'[l].stamp = IF l = q THEN s ELSE api[l].stamp
  <2>1. CASE l = q
    <3>1. api'[l] = [api[l] EXCEPT !.stamp = s]
      BY <1>2, <2>1
    <3> QED  BY <1>3, <2>1, <3>1
  <2>2. CASE l # q
    BY <1>2, <2>2
  <2> QED  BY <2>1, <2>2
<1> QED  BY <1>5

\* A success refreshes one label and resets others.

LEMMA SuccessEffect ==
  ASSUME TypeOK, NEW i \in Ids, Succeed(i)
  PROVE  /\ req[i].label \in Labels
         /\ \A l \in Labels : api'[l].isLoading = api[l].isLoading /\ api'[l].hash = api[l].hash
         /\ api'[req[i].label].stamp = "valid" /\ ~api'[req[i].label].isError
         /\ \A l \in Labels \ {req[i].label} :
              /\ api'[l].isError = api[l].isError
              /\ api'[l].stamp = IF l \in AffectedBy(i) THEN "reset" ELSE api[l].stamp
<1>1. req[i].label \in Labels
  BY DEF TypeOK, Request
<1>2. \A l \in Labels :
         api'[l] = IF l = req[i].label THEN SuccessOf(api[l])
                   ELSE IF l \in AffectedBy(i) THEN [api[l] EXCEPT !.stamp = "reset"]
                   ELSE api[l]
  BY DEF Succeed, IsReset
<1>3. \A l \in Labels : api[l] \in Status
  BY DEF TypeOK
<1>4. ASSUME NEW l \in Labels
      PROVE  LET s == SuccessOf(api[l])
                 n == [api[l] EXCEPT !.stamp = "reset"]
             IN  /\ s.isLoading = api[l].isLoading /\ s.hash = api[l].hash
                 /\ s.stamp = "valid" /\ ~s.isError
                 /\ n.isLoading = api[l].isLoading /\ n.hash = api[l].hash
                 /\ n.stamp = "reset" /\ n.isError = api[l].isError
  <2>1. "reset" \in Stamps
    BY DEF Stamps
  <2> QED  BY <1>3, <2>1, StatusParts
<1>5. ASSUME NEW l \in Labels
      PROVE  /\ api'[l].isLoading = api[l].isLoading /\ api'[l].hash = api[l].hash
             /\ l = req[i].label => api'[l].stamp = "valid" /\ ~api'[l].isError
             /\ l # req[i].label =>
                  /\ api'[l].isError = api[l].isError
                  /\ api'[l].stamp = IF l \in AffectedBy(i) THEN "reset" ELSE api[l].stamp
  <2>1. CASE l = req[i].label
    <3>1. api'[l] = SuccessOf(api[l])
      BY <1>2, <2>1
    <3> QED  BY <1>4, <2>1, <3>1
  <2>2. CASE l # req[i].label /\ l \in AffectedBy(i)
    <3>1. api'[l] = [api[l] EXCEPT !.stamp = "reset"]
      BY <1>2, <2>2
    <3> QED  BY <1>4, <2>2, <3>1
  <2>3. CASE l # req[i].label /\ l \notin AffectedBy(i)
    <3>1. api'[l] = api[l]
      BY <1>2, <2>3
    <3> QED  BY <2>3, <3>1
  <2> QED  BY <2>1, <2>2, <2>3
<1> QED  BY <1>1, <1>5

\* What happens to the data when an answer arrives.

LEMMA StoreEffect ==
  ASSUME TypeOK, NEW i \in Ids, Succeed(i), NEW q \in Queries
  PROVE  /\ q = req[i].label => data'[q] = req[i].answer /\ data'[q] # NoData
         /\ q # req[i].label =>
              /\ data'[q] = NoData <=> data[q] = NoData
              /\ data[q] # NoData => data'[q].params = data[q].params
              /\ q \notin AffectedBy(i) => data'[q] = data[q]
<1>1. data'[q] = IF q = req[i].label THEN req[i].answer
                 ELSE IF q \in AffectedBy(i) /\ data[q] # NoData THEN Told(data[q], i)
                 ELSE data[q]
  BY DEF Succeed
<1>2. req[i].answer \in Answer
  BY DEF TypeOK, Request
<1>3. CASE data[q] = NoData
  BY <1>1, <1>2, <1>3, NoDataAssumption
<1>4. CASE data[q] \in Answer
  <2>1. Told(data[q], i) \in Answer /\ Told(data[q], i).params = data[q].params
    BY <1>4, AnswerParts, AnswerChanges
  <2> QED  BY <1>1, <1>2, <1>4, <2>1, NoDataAssumption
<1> QED  BY <1>3, <1>4 DEF TypeOK

\* A finally counts what is still pending.

LEMMA FinallyEffect ==
  ASSUME TypeOK, NEW i \in Ids, Finally(i)
  PROVE  /\ req[i].label \in Labels /\ req[i].phase = "settled"
         /\ pending' = pending \ {i}
         /\ \A j \in Ids : /\ req'[j].label = req[j].label /\ req'[j].ok = req[j].ok
                           /\ req'[j].answer = req[j].answer
                           /\ req'[j].phase = IF j = i THEN "finished" ELSE req[j].phase
         /\ \A l \in Labels :
              /\ api'[l].hash = api[l].hash /\ api'[l].stamp = api[l].stamp
              /\ api'[l].isError = api[l].isError
              /\ l # req[i].label => api'[l].isLoading = api[l].isLoading
         /\ IF HasPending(req[i].label, pending \ {i})
            THEN api'[req[i].label].isLoading = api[req[i].label].isLoading
            ELSE ~api'[req[i].label].isLoading
<1>1. req[i].label \in Labels /\ req[i].phase = "settled" /\ pending' = pending \ {i}
  BY DEF TypeOK, Request, Finally
<1>2. \A j \in Ids : /\ req'[j].label = req[j].label /\ req'[j].ok = req[j].ok
                     /\ req'[j].answer = req[j].answer
                     /\ req'[j].phase = IF j = i THEN "finished" ELSE req[j].phase
  <2>1. req' = [req EXCEPT ![i].phase = "finished"] /\ req \in [Ids -> Request]
    BY DEF Finally, TypeOK
  <2>2. req'[i] = [req[i] EXCEPT !.phase = "finished"] /\ \A j \in Ids \ {i} : req'[j] = req[j]
    BY <2>1
  <2>3. req[i] \in Request
    BY <2>1
  <2> QED  BY <2>2, <2>3 DEF Request
<1>3. CASE HasPending(req[i].label, pending \ {i})
  <2>1. api' = api
    BY <1>3 DEF Finally, EndsLoading
  <2> QED  BY <1>1, <1>2, <1>3, <2>1
<1>4. CASE ~HasPending(req[i].label, pending \ {i})
  <2>1. api' = [api EXCEPT ![req[i].label].isLoading = FALSE]
    BY <1>4 DEF Finally, EndsLoading
  <2>2. \A l \in Labels : api'[l] = IF l = req[i].label
                                    THEN [api[l] EXCEPT !.isLoading = FALSE] ELSE api[l]
    BY <2>1 DEF TypeOK
  <2>3. ASSUME NEW l \in Labels
        PROVE  LET n == [api[l] EXCEPT !.isLoading = FALSE]
               IN  /\ ~n.isLoading /\ n.hash = api[l].hash /\ n.stamp = api[l].stamp
                   /\ n.isError = api[l].isError
    <3>1. api[l] \in Status
      BY DEF TypeOK
    <3> QED  BY <3>1, StatusParts
  <2> QED  BY <1>1, <1>2, <1>4, <2>2, <2>3
<1> QED  BY <1>3, <1>4

\* The caller's reaction ends a request.

LEMMA ContinueEffect ==
  ASSUME TypeOK, NEW i \in Ids, Continue(i)
  PROVE  /\ i \notin pending /\ req'[i].phase = "free" /\ req'[i].answer.misses = {}
         /\ \A j \in Ids \ {i} :
              /\ req'[j].label = req[j].label /\ req'[j].phase = req[j].phase
              /\ req'[j].ok = req[j].ok
              /\ req'[j].answer.params = req[j].answer.params
              /\ req'[j].answer.misses \subseteq req[j].answer.misses
         /\ \A q \in Queries :
              /\ data'[q] = NoData <=> data[q] = NoData
              /\ data[q] # NoData => /\ data'[q].params = data[q].params
                                     /\ data'[q].misses \subseteq data[q].misses
<1>1. i \notin pending /\ req'[i].phase = "free" /\ req'[i].answer.misses = {}
  BY DEF Continue, NoRequest, TypeOK
<1>2. ASSUME NEW j \in Ids \ {i}
      PROVE  /\ req'[j].label = req[j].label /\ req'[j].phase = req[j].phase
             /\ req'[j].ok = req[j].ok
             /\ req'[j].answer.params = req[j].answer.params
             /\ req'[j].answer.misses \subseteq req[j].answer.misses
  <2>1. req[j] \in Request /\ req[j].answer \in Answer
    BY DEF TypeOK, Request
  <2>2. /\ Forgotten(req[j].answer, i).params = req[j].answer.params
        /\ Forgotten(req[j].answer, i).misses \subseteq req[j].answer.misses
    BY <2>1, AnswerParts
  <2>3. req'[j] = [req[j] EXCEPT !.answer = Forgotten(@, i)]
    BY DEF Continue
  <2> QED  BY <2>1, <2>2, <2>3 DEF Request
<1>3. ASSUME NEW q \in Queries
      PROVE  /\ data'[q] = NoData <=> data[q] = NoData
             /\ data[q] # NoData => /\ data'[q].params = data[q].params
                                    /\ data'[q].misses \subseteq data[q].misses
  <2>1. data'[q] = IF data[q] # NoData THEN Forgotten(data[q], i) ELSE NoData
    BY DEF Continue
  <2>2. CASE data[q] = NoData
    BY <2>1, <2>2
  <2>3. CASE data[q] \in Answer
    BY <2>1, <2>3, AnswerParts, AnswerChanges, NoDataAssumption
  <2> QED  BY <2>2, <2>3 DEF TypeOK
<1> QED  BY <1>1, <1>2, <1>3

\* Signing out leaves aborted requests and no statuses.

LEMMA LeftPhase ==
  ASSUME NEW r \in Request, NEW i \in Ids
  PROVE  LeftBy(r, i).phase = (IF r.phase = "sent" THEN "aborted" ELSE r.phase)
         /\ LeftBy(r, i).answer.misses = r.answer.misses
<1>1. Aborting(r) \in Request /\ Aborting(r).answer = r.answer
      /\ Aborting(r).phase = IF r.phase = "sent" THEN "aborted" ELSE r.phase
  BY RequestChanges, RequestParts
<1>2. LeftBy(r, i) = OfOldSession(Aborting(r))
  BY DEF LeftBy, StillPending
<1>3. /\ OfOldSession(Aborting(r)).phase = Aborting(r).phase
      /\ OfOldSession(Aborting(r)).answer.misses = Aborting(r).answer.misses
  BY <1>1, RequestChanges, RequestParts
<1> QED  BY <1>1, <1>2, <1>3

LEMMA SignOutEffect ==
  ASSUME TypeOK, Leave \/ \E i \in Ids : Unauthorized(i)
  PROVE  /\ pending' = {} /\ \A q \in Queries : data'[q] = NoData
         /\ \A l \in Labels : ~api'[l].isLoading /\ api'[l].stamp = "reset"
         /\ \A j \in Ids : req'[j].answer.misses = req[j].answer.misses
         /\ \A j \in Ids : req'[j].phase \in {"free", "aborted"}
              \/ /\ req'[j].phase = "settled" /\ ~req'[j].ok
                 /\ api'[req'[j].label].isError
<1>1. CASE Leave
  <2>1. \A j \in Ids : req[j] \in Request /\ req[j].phase \in {"free", "sent"}
    BY <1>1 DEF TypeOK, Leave, User, Drained
  <2>2. \A j \in Ids : req'[j] = LeftBy(req[j], j)
    BY <1>1 DEF Leave
  <2>3. \A l \in Labels : api'[l] = NoStatus
    BY <1>1 DEF Leave
  <2> QED  BY <1>1, <2>1, <2>2, <2>3, LeftPhase DEF Leave, SignOut, StillPending, NoStatus
<1>2. ASSUME NEW i \in Ids, Unauthorized(i)
      PROVE  /\ pending' = {} /\ \A q \in Queries : data'[q] = NoData
             /\ \A l \in Labels : ~api'[l].isLoading /\ api'[l].stamp = "reset"
             /\ \A j \in Ids : req'[j].answer.misses = req[j].answer.misses
             /\ \A j \in Ids : req'[j].phase \in {"free", "aborted"}
                  \/ /\ req'[j].phase = "settled" /\ ~req'[j].ok
                     /\ api'[req'[j].label].isError
  <2>1. \A j \in Ids : req[j] \in Request /\ req[j].phase \in {"free", "sent"}
    BY <1>2 DEF TypeOK, Unauthorized, Drained
  <2>2. \A j \in Ids \ {i} : req'[j] = LeftBy(req[j], j)
    BY <1>2 DEF Unauthorized
  <2>3. /\ req'[i].label = req[i].label /\ req'[i].phase = "settled"
        /\ req'[i].ok = FALSE /\ req'[i].answer.misses = req[i].answer.misses
    <3>1. req'[i] = OfOldSession(Settled(req[i], FALSE))
      BY <1>2 DEF Unauthorized
    <3>2. /\ Settled(req[i], FALSE) \in Request
          /\ Settled(req[i], FALSE).label = req[i].label
          /\ Settled(req[i], FALSE).phase = "settled"
          /\ Settled(req[i], FALSE).ok = FALSE
          /\ Settled(req[i], FALSE).answer = req[i].answer
      BY <2>1, RequestChanges, RequestParts
    <3>3. LET r == OfOldSession(Settled(req[i], FALSE))
          IN  /\ r.label = req[i].label /\ r.phase = "settled"
              /\ r.ok = FALSE /\ r.answer.misses = req[i].answer.misses
      BY <3>2 DEF OfOldSession, Request, Answer
    <3> QED  BY <3>1, <3>3
  <2>4. /\ \A l \in Labels : ~api'[l].isLoading /\ api'[l].stamp = "reset"
        /\ api'[req[i].label].isError
    <3>1. \A l \in Labels : api'[l] = IF l = req[i].label THEN ErrorOf(NoStatus) ELSE NoStatus
      BY <1>2 DEF Unauthorized
    <3>2. NoStatus \in Status /\ ~NoStatus.isLoading /\ NoStatus.stamp = "reset"
      BY NoneChanged DEF NoStatus
    <3>3. req[i].label \in Labels
      BY <2>1 DEF Request
    <3>4. /\ ~ErrorOf(NoStatus).isLoading /\ ErrorOf(NoStatus).stamp = "reset"
          /\ ErrorOf(NoStatus).isError
      BY <3>2, StatusParts
    <3> QED  BY <3>1, <3>2, <3>3, <3>4
  <2>5. ASSUME NEW j \in Ids \ {i}
        PROVE  /\ req'[j].phase \in {"free", "aborted"}
               /\ req'[j].answer.misses = req[j].answer.misses
    <3>1. /\ LeftBy(req[j], j).phase = IF req[j].phase = "sent" THEN "aborted"
                                        ELSE req[j].phase
          /\ LeftBy(req[j], j).answer.misses = req[j].answer.misses
      BY <2>1, LeftPhase
    <3> QED  BY <2>1, <2>2, <3>1
  <2>6. pending' = {} /\ \A q \in Queries : data'[q] = NoData
    BY <1>2 DEF Unauthorized, SignOut, StillPending
  <2>7. \A j \in Ids : req'[j].answer.misses = req[j].answer.misses
    BY <2>3, <2>5
  <2>8. ASSUME NEW j \in Ids
        PROVE  req'[j].phase \in {"free", "aborted"}
                 \/ /\ req'[j].phase = "settled" /\ ~req'[j].ok
                    /\ api'[req'[j].label].isError
    <3>1. CASE j = i
      BY <2>3, <2>4, <3>1
    <3>2. CASE j # i
      BY <2>5, <3>2
    <3> QED  BY <3>1, <3>2
  <2> QED  BY <2>4, <2>6, <2>7, <2>8
<1> QED  BY <1>1, <1>2

-----------------------------------------------------------------------------
(***************************************************************************)
(* Loading flags.                                                          *)
(***************************************************************************)

LEMMA FlagKept ==
  ASSUME TypeOK, LoadingIffPending, pending' = pending,
         \A l \in Labels : api'[l].isLoading = api[l].isLoading,
         \A j \in pending : req'[j].label = req[j].label
  PROVE  LoadingIffPending'
<1>1. \A l \in Labels : HasPending(l, pending)' <=> HasPending(l, pending)
  BY DEF HasPending
<1> QED  BY <1>1 DEF LoadingIffPending

LEMMA FlagSend ==
  ASSUME TypeOK, LoadingIffPending, NEW l \in Labels, NEW p \in Params \cup {None}, Send(l, p)
  PROVE  LoadingIffPending'
<1>s. PICK i \in Ids : Sends(l, p, i)
  BY SendEffect
<1>1. /\ i \notin pending /\ pending' = (pending \ Cancelled(l)) \cup {i}
      /\ req'[i].label = l /\ \A j \in Ids \ {i} : req'[j].label = req[j].label
      /\ api'[l].isLoading /\ \A k \in Labels \ {l} : api'[k] = api[k]
  BY <1>s DEF Sends
<1>2. pending \subseteq Ids
  BY DEF TypeOK
<1>3. HasPending(l, pending)'
  BY <1>1 DEF HasPending
<1>4. ASSUME NEW k \in Labels \ {l}
      PROVE  HasPending(k, pending)' <=> HasPending(k, pending)
  BY <1>1, <1>2 DEF HasPending, Cancelled
<1> QED  BY <1>1, <1>3, <1>4 DEF LoadingIffPending

LEMMA FlagStep ==
  ASSUME TypeOK, LoadingIffPending, [Next]_vars
  PROVE  LoadingIffPending'
<1>t. pending \subseteq Ids
  BY DEF TypeOK
<1>1. ASSUME NEW q \in Queries, NEW p \in Params, Show(q, p)  PROVE LoadingIffPending'
  BY <1>1, FlagKept DEF Show
<1>2. ASSUME NEW q \in Queries, Hide(q)  PROVE LoadingIffPending'
  BY <1>2, FlagKept DEF Hide
<1>3. ASSUME NEW q \in Queries, NEW s \in Stamps, api' = [api EXCEPT ![q].stamp = s],
             UNCHANGED <<pending, req>>
      PROVE  LoadingIffPending'
  <2>1. \A l \in Labels : api'[l].isLoading = api[l].isLoading
    BY <1>3, StampEffect
  <2> QED  BY <1>3, <2>1, FlagKept
<1>4. ASSUME NEW q \in Queries, Refetch(q) \/ TtlElapses(q)  PROVE LoadingIffPending'
  BY <1>3, <1>4 DEF Refetch, TtlElapses, Stamps
<1>5. ASSUME NEW m \in Mutations, Mutate(m)  PROVE LoadingIffPending'
  BY <1>5, FlagSend DEF Mutate, Labels
<1>6. CASE Leave \/ \E i \in Ids : Unauthorized(i)
  <2>1. pending' = {} /\ \A l \in Labels : ~api'[l].isLoading
    BY <1>6, SignOutEffect
  <2> QED  BY <2>1 DEF LoadingIffPending, HasPending
<1>7. CASE SignIn
  BY <1>7, FlagKept DEF SignIn
<1>8. ASSUME NEW q \in Queries, Render(q)  PROVE LoadingIffPending'
  <2>1. CASE ShouldInvoke(q)
    BY <1>8, <2>1, FlagSend DEF Render, Labels, TypeOK
  <2>2. CASE ~ShouldInvoke(q)
    BY <1>8, <2>2, FlagKept DEF Render
  <2> QED  BY <2>1, <2>2
<1>9. ASSUME NEW i \in Ids, Serve(i)  PROVE LoadingIffPending'
  BY <1>9, <1>t, ServeEffect, FlagKept DEF Serve
<1>10. ASSUME NEW i \in Ids, Succeed(i)  PROVE LoadingIffPending'
  <2>1. req' = [req EXCEPT ![i] = Settled(@, TRUE)] /\ pending' = pending
    BY <1>10 DEF Succeed
  <2>2. \A l \in Labels : api'[l].isLoading = api[l].isLoading
    BY <1>10, SuccessEffect
  <2>3. \A j \in Ids : req'[j].label = req[j].label
    BY <2>1, SettleEffect
  <2> QED  BY <1>t, <2>1, <2>2, <2>3, FlagKept
<1>11. ASSUME NEW i \in Ids, Fail(i) \/ CatchAborted(i)  PROVE LoadingIffPending'
  <2>1. /\ api' = [api EXCEPT ![req[i].label] = ErrorOf(@)]
        /\ req' = [req EXCEPT ![i] = Settled(@, FALSE)] /\ pending' = pending
    BY <1>11 DEF Fail, CatchAborted
  <2>2. \A l \in Labels : api'[l].isLoading = api[l].isLoading
    BY <2>1, ErrorEffect
  <2>3. \A j \in Ids : req'[j].label = req[j].label
    BY <2>1, SettleEffect
  <2> QED  BY <1>t, <2>1, <2>2, <2>3, FlagKept
<1>12. ASSUME NEW i \in Ids, Finally(i)  PROVE LoadingIffPending'
  <2>0. pending' = pending \ {i} /\ \A j \in Ids : req'[j].label = req[j].label
    BY <1>12, FinallyEffect
  <2>1. \A l \in Labels : HasPending(l, pending)' <=> HasPending(l, pending \ {i})
    BY <1>t, <2>0 DEF HasPending
  <2>2. \A l \in Labels \ {req[i].label} :
           HasPending(l, pending \ {i}) <=> HasPending(l, pending)
    BY DEF HasPending
  <2>3. HasPending(req[i].label, pending \ {i}) => HasPending(req[i].label, pending)
    BY DEF HasPending
  <2>4. /\ req[i].label \in Labels
        /\ \A l \in Labels \ {req[i].label} : api'[l].isLoading = api[l].isLoading
        /\ IF HasPending(req[i].label, pending \ {i})
           THEN api'[req[i].label].isLoading = api[req[i].label].isLoading
           ELSE ~api'[req[i].label].isLoading
    BY <1>12, FinallyEffect
  <2>5. ASSUME NEW l \in Labels
        PROVE  api'[l].isLoading <=> HasPending(l, pending)'
    <3>1. api[l].isLoading <=> HasPending(l, pending)
      BY DEF LoadingIffPending
    <3>2. CASE l = req[i].label
      BY <2>1, <2>3, <2>4, <3>1, <3>2
    <3>3. CASE l # req[i].label
      BY <2>1, <2>2, <2>4, <3>1, <3>3
    <3> QED  BY <3>2, <3>3
  <2> QED  BY <2>5 DEF LoadingIffPending
<1>13. ASSUME NEW i \in Ids, Continue(i)  PROVE LoadingIffPending'
  <2>1. \A j \in pending : req'[j].label = req[j].label
    BY <1>13, <1>t, ContinueEffect
  <2> QED  BY <1>13, <2>1, FlagKept DEF Continue
<1>14. CASE UNCHANGED vars
  BY <1>14, FlagKept DEF vars
<1> QED
  BY <1>1, <1>2, <1>4, <1>5, <1>6, <1>7, <1>8, <1>9, <1>10, <1>11, <1>12, <1>13, <1>14
  DEF Next, UserStep, Answered, Reaction

\* The loading flag of the api reducer: the finally of a cancelled request does not
\* clear the flag of its successor, and no flag is left set.
THEOREM FlagsFollowRequests == Spec => []LoadingIffPending
<1>1. Init => LoadingIffPending
  BY NoneChanged DEF Init, LoadingIffPending, HasPending
<1> QED  BY <1>1, FlagStep, ApiTypeCorrect, PTL DEF Spec

-----------------------------------------------------------------------------
(***************************************************************************)
(* Resets.  Data that misses a reported change comes from an answer that   *)
(* was reset when the change was reported, never from one on its way.      *)
(***************************************************************************)
ResetInv == ResetStands /\ \A i \in Ids : Reported \notin req[i].answer.misses

LEMMA ResetKept ==
  ASSUME ResetInv,
         \A i \in Ids : req'[i].answer.misses \subseteq req[i].answer.misses \cup Ids,
         \A q \in Queries : /\ api'[q].stamp = "valid" => api[q].stamp = "valid"
                            /\ data'[q] # NoData =>
                                 /\ data[q] # NoData
                                 /\ data'[q].misses \subseteq data[q].misses \cup Ids
  PROVE  ResetInv'
  BY DEF ResetInv, ResetStands

LEMMA ResetStep ==
  ASSUME TypeOK, ResetInv, [Next]_vars
  PROVE  ResetInv'
<1>l. Queries \subseteq Labels
  BY DEF Labels
<1>1. ASSUME NEW l \in Labels, NEW p \in Params \cup {None}, Send(l, p), UNCHANGED data
      PROVE  ResetInv'
  <2>s. PICK i \in Ids : Sends(l, p, i)
    BY <1>1, SendEffect
  <2>1. /\ req'[i].answer.misses = {}
        /\ \A j \in Ids \ {i} : req'[j].answer = req[j].answer
        /\ \A k \in Labels : api'[k].stamp = api[k].stamp
    BY <2>s DEF Sends
  <2> QED  BY <1>1, <1>l, <2>1, ResetKept
<1>2. CASE UserStep
  <2>1. CASE \E q \in Queries : (\E p \in Params : Show(q, p)) \/ Hide(q)
    BY <2>1, ResetKept DEF Show, Hide
  <2>2. ASSUME NEW q \in Queries, Refetch(q) \/ TtlElapses(q)  PROVE ResetInv'
    <3>1. PICK s \in Stamps : s # "valid" /\ api' = [api EXCEPT ![q].stamp = s]
      BY <2>2 DEF Refetch, TtlElapses, Stamps
    <3>2. \A l \in Labels : api'[l].stamp \in {s, api[l].stamp}
      BY <3>1, StampEffect
    <3> QED  BY <1>l, <2>2, <3>1, <3>2, ResetKept DEF Refetch, TtlElapses
  <2>3. CASE \E m \in Mutations : Mutate(m)
    BY <1>1, <2>3 DEF Mutate, Labels
  <2>4. CASE Leave
    BY <2>4, <1>l, SignOutEffect, ResetKept
  <2> QED  BY <1>2, <2>1, <2>2, <2>3, <2>4 DEF UserStep
<1>3. CASE SignIn
  BY <1>3, ResetKept DEF SignIn
<1>4. ASSUME NEW q \in Queries, Render(q)  PROVE ResetInv'
  <2>1. CASE ShouldInvoke(q)
    BY <1>1, <1>4, <2>1 DEF Render, Labels, TypeOK
  <2>2. CASE ~ShouldInvoke(q)
    BY <1>4, <2>2, ResetKept DEF Render
  <2> QED  BY <2>1, <2>2
<1>5. ASSUME NEW i \in Ids, Serve(i)  PROVE ResetInv'
  <2>1. UNCHANGED api
    BY <1>5 DEF Serve
  <2> QED  BY <1>5, <2>1, ServeEffect, ResetKept
<1>6. ASSUME NEW i \in Ids, Succeed(i)  PROVE ResetInv'
  <2>1. \A j \in Ids : req'[j].answer = req[j].answer
    BY <1>6, SettleEffect DEF Succeed
  <2>2. ASSUME NEW q \in Queries, api'[q].stamp = "valid", data'[q] # NoData
        PROVE  Reported \notin data'[q].misses
    <3>1. CASE q = req[i].label
      BY <1>6, <3>1, StoreEffect DEF ResetInv
    <3>2. CASE q # req[i].label
      <4>1. q \notin AffectedBy(i) /\ api[q].stamp = "valid"
        BY <1>6, <1>l, <2>2, <3>2, SuccessEffect
      <4>2. data'[q] = data[q]
        BY <1>6, <3>2, <4>1, StoreEffect
      <4> QED  BY <2>2, <4>1, <4>2 DEF ResetInv, ResetStands
    <3> QED  BY <3>1, <3>2
  <2> QED  BY <2>1, <2>2 DEF ResetInv, ResetStands
<1>7. ASSUME NEW i \in Ids, Fail(i) \/ CatchAborted(i)  PROVE ResetInv'
  <2>1. \A j \in Ids : req'[j].answer = req[j].answer
    BY <1>7, SettleEffect DEF Fail, CatchAborted
  <2>2. \A l \in Labels : api'[l].stamp = api[l].stamp
    BY <1>7, ErrorEffect DEF Fail, CatchAborted
  <2>3. UNCHANGED data
    BY <1>7 DEF Fail, CatchAborted
  <2> QED  BY <1>l, <2>1, <2>2, <2>3, ResetKept
<1>8. ASSUME NEW i \in Ids, Unauthorized(i)  PROVE ResetInv'
  BY <1>8, <1>l, SignOutEffect, ResetKept
<1>9. ASSUME NEW i \in Ids, Finally(i)  PROVE ResetInv'
  <2>1. UNCHANGED data
    BY <1>9 DEF Finally
  <2> QED  BY <1>9, <1>l, <2>1, FinallyEffect, ResetKept
<1>10. ASSUME NEW i \in Ids, Continue(i)  PROVE ResetInv'
  <2>1. UNCHANGED api
    BY <1>10 DEF Continue
  <2>2. \A j \in Ids : req'[j].answer.misses \subseteq req[j].answer.misses
    BY <1>10, ContinueEffect
  <2> QED  BY <1>10, <2>1, <2>2, ContinueEffect, ResetKept
<1>11. CASE UNCHANGED vars
  BY <1>11, ResetKept DEF vars
<1> QED
  BY <1>2, <1>3, <1>4, <1>5, <1>6, <1>7, <1>8, <1>9, <1>10, <1>11
  DEF Next, Answered, Reaction

\* Stored data that misses a reported change is not shown as fresh: the reset of
\* the affected queries is not undone by a request that is already running.
THEOREM ResetsStand == Spec => []ResetStands
<1>1. Init => ResetInv
  BY DEF Init, ResetInv, ResetStands, NoRequest
<1>2. ResetInv => ResetStands
  BY DEF ResetInv
<1> QED  BY <1>1, <1>2, ResetStep, ApiTypeCorrect, PTL DEF Spec

-----------------------------------------------------------------------------
(***************************************************************************)
(* Verdicts.  What a caller reads as its outcome stays put until it reads  *)
(* it.  The reactions of a cancelled request may come between, but not     *)
(* after a success: then nothing is left to cancel, and a request sent     *)
(* meanwhile is not cancelled because the component has what it asked for. *)
(***************************************************************************)
Ended(i) == req[i].phase \in {"settled", "finished"}
Successful(i) == Ended(i) /\ req[i].ok

\* A query has one registered request at a time.
PendingInv ==
  /\ \A i \in Ids : req[i].phase = "sent" => i \in pending
  /\ \A i, j \in pending :
       req[i].label \in Queries /\ req[j].label = req[i].label => i = j

VerdictInv ==
  /\ \A i \in Ids : Ended(i) => (api[req[i].label].isError <=> ~req[i].ok)
  /\ \A i, j \in Ids : Successful(i) /\ req[j].label = req[i].label => req[j].phase # "aborted"
  /\ \A i \in Ids : Successful(i) /\ req[i].label \in Queries =>
       /\ api[req[i].label].stamp = "valid"
       /\ \A j \in Ids : req[j].phase = "sent" /\ req[j].label = req[i].label =>
            want[req[i].label] = api[req[i].label].hash

LEMMA VerdictImplies == VerdictInv => VerdictIsOwn
  BY DEF VerdictInv, VerdictIsOwn, Ended

\* Between two tasks no outcome waits to be read.

LEMMA VerdictVacuous ==
  ASSUME \A i \in Ids : req'[i].phase \in {"free", "sent", "aborted"}
  PROVE  VerdictInv'
  BY DEF VerdictInv, Ended, Successful

LEMMA PendingKept ==
  ASSUME TypeOK, PendingInv, pending' \subseteq pending,
         \A i \in pending' : req'[i].label = req[i].label,
         \A i \in Ids : req'[i].phase = "sent" =>
            req[i].phase = "sent" /\ (i \in pending => i \in pending')
  PROVE  PendingInv'
  BY DEF PendingInv

LEMMA PendingSend ==
  ASSUME TypeOK, PendingInv, NEW l \in Labels, NEW p \in Params \cup {None}, Send(l, p)
  PROVE  PendingInv'
<1>s. PICK i \in Ids : Sends(l, p, i)
  BY SendEffect
<1>1. /\ i \notin pending /\ pending' = (pending \ Cancelled(l)) \cup {i}
      /\ req'[i].label = l
      /\ \A j \in Ids \ {i} :
           /\ req'[j].label = req[j].label
           /\ req'[j].phase = IF j \in Cancelled(l) /\ req[j].phase = "sent"
                              THEN "aborted" ELSE req[j].phase
  BY <1>s DEF Sends
<1>2. \A j \in Ids : req'[j].phase = "sent" => j \in pending'
  BY <1>1 DEF PendingInv
<1>3. ASSUME NEW j \in pending' \ {i}
      PROVE  /\ j \in pending /\ req'[j].label = req[j].label
             /\ l \in Queries => req[j].label # l
  <2>1. j \in pending /\ j \notin Cancelled(l) /\ pending \subseteq Ids
    BY <1>1 DEF TypeOK
  <2>2. l \in Queries => l \notin Multi
    OBVIOUS
  <2> QED  BY <1>1, <2>1, <2>2 DEF Cancelled
<1>4. ASSUME NEW j \in pending', NEW k \in pending',
             req'[j].label \in Queries, req'[k].label = req'[j].label
      PROVE  j = k
  <2>1. CASE j = i
    BY <1>1, <1>3, <1>4, <2>1
  <2>2. CASE k = i
    BY <1>1, <1>3, <1>4, <2>2
  <2>3. CASE j # i /\ k # i
    BY <1>3, <1>4, <2>3 DEF PendingInv
  <2> QED  BY <2>1, <2>2, <2>3
<1> QED  BY <1>2, <1>4 DEF PendingInv

LEMMA PendingStep ==
  ASSUME TypeOK, PendingInv, [Next]_vars
  PROVE  PendingInv'
<1>t. pending \subseteq Ids
  BY DEF TypeOK
<1>0. ASSUME UNCHANGED <<pending, req>>  PROVE PendingInv'
  BY <1>0 DEF PendingInv
<1>1. ASSUME NEW i \in Ids, NEW good \in BOOLEAN, UNCHANGED pending,
             req' = [req EXCEPT ![i] = Settled(@, good)]
      PROVE  PendingInv'
  <2>1. \A j \in Ids : /\ req'[j].label = req[j].label
                       /\ req'[j].phase = IF j = i THEN "settled" ELSE req[j].phase
    BY <1>1, SettleEffect
  <2> QED  BY <1>1, <1>t, <2>1, PendingKept
<1>2. CASE UserStep
  <2>1. CASE \E q \in Queries : \/ \E p \in Params : Show(q, p)
                                \/ Hide(q) \/ Refetch(q) \/ TtlElapses(q)
    BY <1>0, <2>1 DEF Show, Hide, Refetch, TtlElapses
  <2>2. CASE \E m \in Mutations : Mutate(m)
    BY <2>2, PendingSend DEF Mutate, Labels
  <2>3. CASE Leave
    BY <2>3, SignOutEffect DEF PendingInv
  <2> QED  BY <1>2, <2>1, <2>2, <2>3 DEF UserStep
<1>3. CASE SignIn \/ UNCHANGED vars
  BY <1>0, <1>3 DEF SignIn, vars
<1>4. ASSUME NEW q \in Queries, Render(q)  PROVE PendingInv'
  <2>1. CASE ShouldInvoke(q)
    BY <1>4, <2>1, PendingSend DEF Render, Labels, TypeOK
  <2>2. CASE ~ShouldInvoke(q)
    BY <1>0, <1>4, <2>2 DEF Render
  <2> QED  BY <2>1, <2>2
<1>5. ASSUME NEW i \in Ids, Serve(i)  PROVE PendingInv'
  <2>1. UNCHANGED pending
    BY <1>5 DEF Serve
  <2> QED  BY <1>5, <1>t, <2>1, ServeEffect, PendingKept
<1>6. ASSUME NEW i \in Ids, Succeed(i) \/ Fail(i) \/ CatchAborted(i)  PROVE PendingInv'
  BY <1>1, <1>6 DEF Succeed, Fail, CatchAborted
<1>7. ASSUME NEW i \in Ids, Unauthorized(i)  PROVE PendingInv'
  BY <1>7, SignOutEffect DEF PendingInv
<1>8. ASSUME NEW i \in Ids, Finally(i)  PROVE PendingInv'
  <2>1. /\ pending' = pending \ {i}
        /\ \A j \in Ids : /\ req'[j].label = req[j].label
                          /\ req'[j].phase = IF j = i THEN "finished" ELSE req[j].phase
    BY <1>8, FinallyEffect
  <2> QED  BY <1>t, <2>1, PendingKept
<1>9. ASSUME NEW i \in Ids, Continue(i)  PROVE PendingInv'
  <2>1. UNCHANGED pending
    BY <1>9 DEF Continue
  <2>2. /\ i \notin pending /\ req'[i].phase = "free"
        /\ \A j \in Ids \ {i} : /\ req'[j].label = req[j].label
                                /\ req'[j].phase = req[j].phase
    BY <1>9, ContinueEffect
  <2> QED  BY <1>t, <2>1, <2>2, PendingKept
<1> QED
  BY <1>2, <1>3, <1>4, <1>5, <1>6, <1>7, <1>8, <1>9 DEF Next, Answered, Reaction

\* A step that leaves the outcomes and what they rest on alone.

LEMMA VerdictKept ==
  ASSUME TypeOK, VerdictInv,
         \A i \in Ids : Ended(i)' =>
            Ended(i) /\ req'[i].label = req[i].label /\ req'[i].ok = req[i].ok,
         \A i \in Ids : req'[i].phase \in {"aborted", "sent"} =>
            req'[i].phase = req[i].phase /\ req'[i].label = req[i].label,
         \A l \in Labels : /\ api'[l].isError = api[l].isError
                           /\ api'[l].stamp = api[l].stamp
                           /\ api'[l].hash = api[l].hash,
         UNCHANGED want
  PROVE  VerdictInv'
<1>1. \A i \in Ids : req[i].label \in Labels
  BY DEF TypeOK, Request
<1>2. Queries \subseteq Labels
  BY DEF Labels
<1>3. \A i \in Ids : Successful(i)' => Successful(i) /\ Ended(i)'
  BY DEF Successful
<1>4. ASSUME NEW i \in Ids, Ended(i)'
      PROVE  api'[req'[i].label].isError <=> ~req'[i].ok
  <2>1. Ended(i) /\ req'[i].label = req[i].label /\ req'[i].ok = req[i].ok
    BY <1>4
  <2>2. api[req[i].label].isError <=> ~req[i].ok
    BY <2>1 DEF VerdictInv
  <2> QED  BY <1>1, <2>1, <2>2
<1>5. ASSUME NEW i \in Ids, NEW j \in Ids, Successful(i)', req'[j].label = req'[i].label,
             req'[j].phase = "aborted"
      PROVE  FALSE
  <2>1. Successful(i) /\ req'[i].label = req[i].label
    BY <1>3, <1>5
  <2>2. req[j].phase = "aborted" /\ req[j].label = req[i].label
    BY <1>5, <2>1
  <2> QED  BY <2>1, <2>2 DEF VerdictInv
<1>6. ASSUME NEW i \in Ids, Successful(i)', req'[i].label \in Queries
      PROVE  /\ api'[req'[i].label].stamp = "valid"
             /\ \A j \in Ids : req'[j].phase = "sent" /\ req'[j].label = req'[i].label =>
                  want'[req'[i].label] = api'[req'[i].label].hash
  <2>1. Successful(i) /\ req'[i].label = req[i].label /\ req[i].label \in Labels
    BY <1>1, <1>3, <1>6
  <2>2. /\ api[req[i].label].stamp = "valid"
        /\ \A j \in Ids : req[j].phase = "sent" /\ req[j].label = req[i].label =>
             want[req[i].label] = api[req[i].label].hash
    BY <1>6, <2>1 DEF VerdictInv
  <2> QED  BY <2>1, <2>2
<1> QED  BY <1>4, <1>5, <1>6 DEF VerdictInv

\* A component that renders after a success has nothing to cancel.

LEMMA VerdictSend ==
  ASSUME TypeOK, VerdictInv, NEW q \in Queries, ShouldInvoke(q), want[q] # None,
         Send(q, want[q]), UNCHANGED want
  PROVE  VerdictInv'
<1>0. q \in Labels /\ want[q] \in Params \cup {None} /\ \A i \in Ids : req[i].label \in Labels
  BY DEF TypeOK, Labels, Request
<1>s. PICK i \in Ids : Sends(q, want[q], i)
  BY <1>0, SendEffect
<1>1. /\ req'[i].label = q /\ req'[i].phase = "sent"
      /\ \A j \in Ids \ {i} :
           /\ req'[j].label = req[j].label /\ req'[j].ok = req[j].ok
           /\ req'[j].phase = IF j \in Cancelled(q) /\ req[j].phase = "sent"
                              THEN "aborted" ELSE req[j].phase
      /\ api'[q].hash = want[q]
      /\ api'[q].stamp = api[q].stamp /\ api'[q].isError = api[q].isError
      /\ \A k \in Labels \ {q} : api'[k] = api[k]
  BY <1>s DEF Sends
<1>2. ASSUME NEW j \in Ids, Ended(j)'
      PROVE  j # i /\ Ended(j) /\ req'[j].label = req[j].label /\ req'[j].ok = req[j].ok
  BY <1>1, <1>2 DEF Ended
<1>3. \A j \in Ids : Successful(j)' => Ended(j)' /\ Successful(j)
  BY <1>2 DEF Successful
<1>4. ASSUME NEW j \in Ids, Ended(j)'
      PROVE  api'[req'[j].label].isError <=> ~req'[j].ok
  <2>1. Ended(j) /\ req'[j].label = req[j].label /\ req'[j].ok = req[j].ok
    BY <1>2, <1>4
  <2>2. api[req[j].label].isError <=> ~req[j].ok
    BY <2>1 DEF VerdictInv
  <2>3. api'[req[j].label].isError = api[req[j].label].isError
    BY <1>0, <1>1
  <2> QED  BY <2>1, <2>2, <2>3
<1>5. ASSUME NEW j \in Ids, NEW k \in Ids, Successful(j)', req'[k].label = req'[j].label,
             req'[k].phase = "aborted"
      PROVE  FALSE
  <2>1. /\ Successful(j) /\ k # i /\ req[k].label = req[j].label
    BY <1>1, <1>2, <1>3, <1>5
  <2>2. k \in Cancelled(q) /\ req[k].phase = "sent"
    <3>1. req[k].phase # "aborted"
      BY <2>1 DEF VerdictInv
    <3> QED  BY <1>1, <1>5, <2>1, <3>1
  <2>3. req[j].label = q
    BY <2>1, <2>2 DEF Cancelled
  <2>4. api[q].stamp = "valid" /\ want[q] = api[q].hash
    BY <2>1, <2>2, <2>3 DEF VerdictInv
  <2> QED  BY <2>4 DEF ShouldInvoke
<1>6. ASSUME NEW j \in Ids, Successful(j)', req'[j].label \in Queries
      PROVE  /\ api'[req'[j].label].stamp = "valid"
             /\ \A k \in Ids : req'[k].phase = "sent" /\ req'[k].label = req'[j].label =>
                  want'[req'[j].label] = api'[req'[j].label].hash
  <2>1. Successful(j) /\ req'[j].label = req[j].label /\ req[j].label \in Labels
    BY <1>0, <1>2, <1>3, <1>6
  <2>2. CASE req[j].label = q
    BY <1>1, <1>6, <2>1, <2>2 DEF VerdictInv
  <2>3. CASE req[j].label # q
    BY <1>1, <1>6, <2>1, <2>3 DEF VerdictInv
  <2> QED  BY <2>2, <2>3
<1> QED  BY <1>4, <1>5, <1>6 DEF VerdictInv

LEMMA VerdictStep ==
  ASSUME TypeOK, PendingInv, VerdictInv, [Next]_vars
  PROVE  VerdictInv'
<1>d. ASSUME Drained, \A j \in Ids : req'[j].phase \in {req[j].phase, "aborted", "sent"}
      PROVE  VerdictInv'
  <2>1. \A j \in Ids : req'[j].phase \in {"free", "sent", "aborted"}
    BY <1>d DEF Drained
  <2> QED  BY <2>1, VerdictVacuous
<1>1. CASE UserStep
  <2>1. CASE \E q \in Queries : \/ \E p \in Params : Show(q, p)
                                \/ Hide(q) \/ Refetch(q) \/ TtlElapses(q)
    BY <1>d, <2>1 DEF Show, Hide, Refetch, TtlElapses, User
  <2>2. ASSUME NEW m \in Mutations, Mutate(m)  PROVE VerdictInv'
    <3>1. m \in Labels /\ Send(m, None) /\ Drained
      BY <2>2 DEF Mutate, User, Labels
    <3>s. PICK i \in Ids : Sends(m, None, i)
      BY <3>1, SendEffect
    <3>2. \A j \in Ids : req'[j].phase \in {req[j].phase, "aborted", "sent"}
      BY <3>s DEF Sends
    <3> QED  BY <1>d, <3>1, <3>2
  <2>3. CASE Leave
    <3>1. \A j \in Ids : req'[j].phase \in {req[j].phase, "aborted", "sent"}
      BY <2>3, LeftPhase DEF Leave, TypeOK
    <3> QED  BY <1>d, <2>3, <3>1 DEF Leave, User
  <2> QED  BY <1>1, <2>1, <2>2, <2>3 DEF UserStep
<1>2. CASE SignIn
  BY <1>d, <1>2 DEF SignIn
<1>3. ASSUME NEW q \in Queries, Render(q)  PROVE VerdictInv'
  <2>1. CASE ShouldInvoke(q)
    BY <1>3, <2>1, VerdictSend DEF Render, RenderPending
  <2>2. CASE ~ShouldInvoke(q)
    BY <1>3, <2>2, VerdictKept DEF Render, Ended
  <2> QED  BY <2>1, <2>2
<1>4. ASSUME NEW i \in Ids, Serve(i)  PROVE VerdictInv'
  BY <1>d, <1>4, ServeEffect DEF Serve
<1>5. ASSUME NEW i \in Ids, Succeed(i)  PROVE VerdictInv'
  <2>0. req' = [req EXCEPT ![i] = Settled(@, TRUE)]
    BY <1>5 DEF Succeed
  <2>1. \A j \in Ids : /\ req'[j].label = req[j].label
                       /\ req'[j].phase = IF j = i THEN "settled" ELSE req[j].phase
                       /\ req'[j].ok = IF j = i THEN TRUE ELSE req[j].ok
    BY <2>0, SettleEffect
  <2>2. \A j \in Ids : req[j].phase \in {"free", "sent"}
    BY <1>5 DEF Succeed, Drained
  <2>3. \A j \in Ids : Ended(j)' => j = i
    BY <2>1, <2>2 DEF Ended
  <2>4. ~api'[req[i].label].isError /\ api'[req[i].label].stamp = "valid"
    BY <1>5, SuccessEffect
  <2>5. req[i].phase = "sent"
    BY <1>5 DEF Succeed
  <2>6. ASSUME req[i].label \in Queries, NEW j \in Ids, req'[j].phase = "sent",
               req'[j].label = req'[i].label
        PROVE  FALSE
    <3>1. j # i /\ req[j].phase = "sent" /\ req[j].label = req[i].label
      BY <2>1, <2>6
    <3>2. j \in pending /\ i \in pending
      BY <2>5, <3>1 DEF PendingInv
    <3> QED  BY <2>6, <3>1, <3>2 DEF PendingInv
  <2>7. ASSUME NEW j \in Ids, Ended(j)'
        PROVE  api'[req'[j].label].isError <=> ~req'[j].ok
    BY <2>1, <2>3, <2>4, <2>7
  <2>8. ASSUME NEW j \in Ids, NEW k \in Ids, Successful(j)'
        PROVE  req'[k].phase # "aborted"
    BY <2>1, <2>2
  <2>9. ASSUME NEW j \in Ids, Successful(j)', req'[j].label \in Queries
        PROVE  /\ api'[req'[j].label].stamp = "valid"
               /\ \A k \in Ids : req'[k].phase = "sent" /\ req'[k].label = req'[j].label =>
                    want'[req'[j].label] = api'[req'[j].label].hash
    <3>1. j = i
      BY <2>3, <2>9 DEF Successful
    <3> QED  BY <2>1, <2>4, <2>6, <2>9, <3>1
  <2> QED  BY <2>7, <2>8, <2>9 DEF VerdictInv
<1>6. ASSUME NEW i \in Ids, Fail(i) \/ CatchAborted(i)  PROVE VerdictInv'
  <2>0. /\ api' = [api EXCEPT ![req[i].label] = ErrorOf(@)]
        /\ req' = [req EXCEPT ![i] = Settled(@, FALSE)] /\ UNCHANGED want
    BY <1>6 DEF Fail, CatchAborted
  <2>1. \A j \in Ids : /\ req'[j].label = req[j].label
                       /\ req'[j].phase = IF j = i THEN "settled" ELSE req[j].phase
                       /\ req'[j].ok = IF j = i THEN FALSE ELSE req[j].ok
    BY <2>0, SettleEffect
  <2>2. /\ api'[req[i].label].isError
        /\ \A l \in Labels : /\ api'[l].hash = api[l].hash
                             /\ api'[l].stamp = api[l].stamp
                             /\ l # req[i].label => api'[l] = api[l]
    BY <2>0, ErrorEffect
  <2>3. \A j \in Ids : req[j].label \in Labels
    BY DEF TypeOK, Request
  <2>4. \A j \in Ids : Successful(j) => req[j].label # req[i].label
    <3>1. CASE Fail(i)
      BY <3>1 DEF Fail, Drained, Successful, Ended
    <3>2. CASE CatchAborted(i)
      BY <3>2 DEF CatchAborted, VerdictInv
    <3> QED  BY <1>6, <3>1, <3>2
  <2>5. \A j \in Ids : Successful(j)' => Successful(j)
    BY <2>1 DEF Successful, Ended
  <2>6. ASSUME NEW j \in Ids, Ended(j)'
        PROVE  api'[req'[j].label].isError <=> ~req'[j].ok
    <3>1. CASE j = i
      BY <2>1, <2>2, <3>1
    <3>2. CASE j # i
      <4>1. Ended(j)
        BY <2>1, <2>6, <3>2 DEF Ended
      <4>2. CASE req[j].label = req[i].label
        BY <2>1, <2>2, <2>4, <3>2, <4>1, <4>2 DEF Successful
      <4>3. CASE req[j].label # req[i].label
        <5>1. api[req[j].label].isError <=> ~req[j].ok
          BY <4>1 DEF VerdictInv
        <5>2. api'[req[j].label] = api[req[j].label]
          BY <2>2, <2>3, <4>3
        <5> QED  BY <2>1, <3>2, <5>1, <5>2
      <4> QED  BY <4>2, <4>3
    <3> QED  BY <3>1, <3>2
  <2>7. ASSUME NEW j \in Ids, NEW k \in Ids, Successful(j)', req'[k].label = req'[j].label
        PROVE  req'[k].phase # "aborted"
    <3>1. Successful(j) /\ req[k].label = req[j].label
      BY <2>1, <2>5, <2>7
    <3>2. req[k].phase # "aborted"
      BY <3>1 DEF VerdictInv
    <3> QED  BY <2>1, <3>2
  <2>8. ASSUME NEW j \in Ids, Successful(j)', req'[j].label \in Queries
        PROVE  /\ api'[req'[j].label].stamp = "valid"
               /\ \A k \in Ids : req'[k].phase = "sent" /\ req'[k].label = req'[j].label =>
                    want'[req'[j].label] = api'[req'[j].label].hash
    <3>1. Successful(j) /\ req'[j].label = req[j].label /\ req[j].label \in Labels
      BY <2>1, <2>3, <2>5, <2>8
    <3>2. /\ api[req[j].label].stamp = "valid"
          /\ \A k \in Ids : req[k].phase = "sent" /\ req[k].label = req[j].label =>
               want[req[j].label] = api[req[j].label].hash
      BY <2>8, <3>1 DEF VerdictInv
    <3>3. /\ api'[req[j].label].stamp = api[req[j].label].stamp
          /\ api'[req[j].label].hash = api[req[j].label].hash
      BY <2>2, <3>1
    <3>4. ASSUME NEW k \in Ids, req'[k].phase = "sent", req'[k].label = req'[j].label
          PROVE  want[req[j].label] = api[req[j].label].hash
      <4>1. req[k].phase = "sent" /\ req[k].label = req[j].label
        BY <2>1, <3>1, <3>4
      <4> QED  BY <3>2, <4>1
    <3>5. want' = want
      BY <2>0
    <3> QED  BY <3>1, <3>2, <3>3, <3>4, <3>5
  <2> QED  BY <2>6, <2>7, <2>8 DEF VerdictInv
<1>7. ASSUME NEW i \in Ids, Unauthorized(i)  PROVE VerdictInv'
  <2>1. \A j \in Ids : req'[j].phase \in {"free", "aborted"}
          \/ /\ req'[j].phase = "settled" /\ ~req'[j].ok
             /\ api'[req'[j].label].isError
    BY <1>7, SignOutEffect
  <2> QED  BY <2>1 DEF VerdictInv, Ended, Successful
<1>8. ASSUME NEW i \in Ids, Finally(i)  PROVE VerdictInv'
  <2>1. /\ req[i].phase = "settled"
        /\ \A j \in Ids : /\ req'[j].label = req[j].label /\ req'[j].ok = req[j].ok
                          /\ req'[j].phase = IF j = i THEN "finished" ELSE req[j].phase
        /\ \A l \in Labels : /\ api'[l].hash = api[l].hash /\ api'[l].stamp = api[l].stamp
                             /\ api'[l].isError = api[l].isError
    BY <1>8, FinallyEffect
  <2>2. \A j \in Ids : Ended(j)' => Ended(j)
    BY <2>1 DEF Ended
  <2>3. UNCHANGED want
    BY <1>8 DEF Finally
  <2> QED  BY <2>1, <2>2, <2>3, VerdictKept
<1>9. ASSUME NEW i \in Ids, Continue(i)  PROVE VerdictInv'
  <2>1. req'[i].phase = "free"
    BY <1>9, ContinueEffect
  <2>2. ASSUME NEW j \in Ids \ {i}
        PROVE  /\ req'[j].label = req[j].label
               /\ req'[j].phase = req[j].phase /\ req'[j].ok = req[j].ok
    BY <1>9, ContinueEffect
  <2>3. \A j \in Ids : Ended(j)' => j # i /\ Ended(j)
    BY <2>1, <2>2 DEF Ended
  <2>4. UNCHANGED <<want, api>>
    BY <1>9 DEF Continue
  <2> QED  BY <2>1, <2>2, <2>3, <2>4, VerdictKept
<1>10. CASE UNCHANGED vars
  BY <1>10, VerdictKept DEF vars, Ended
<1> QED
  BY <1>1, <1>2, <1>3, <1>4, <1>5, <1>6, <1>7, <1>8, <1>9, <1>10
  DEF Next, Answered, Reaction

\* A caller that reads the error flag of its label when its promise resolves reads
\* the outcome of its own request, whatever was cancelled or sent meanwhile.
THEOREM VerdictsAreOwn == Spec => []VerdictIsOwn
<1>1. Init => PendingInv /\ VerdictInv
  <2>1. ASSUME Init  PROVE pending = {} /\ \A i \in Ids : req[i].phase = "free"
    BY <2>1, NoneChanged DEF Init
  <2>2. ASSUME Init  PROVE PendingInv
    BY <2>1, <2>2 DEF PendingInv
  <2>3. ASSUME Init  PROVE VerdictInv
    BY <2>1, <2>3 DEF VerdictInv, Ended, Successful
  <2> QED  BY <2>2, <2>3
<1> QED
  BY <1>1, PendingStep, VerdictStep, VerdictImplies, ApiTypeCorrect, PTL DEF Spec

-----------------------------------------------------------------------------
(***************************************************************************)
(* Ready data.  A label that is not loading, whose time stamp is valid and *)
(* that shows no error owes the stamp to the last request registered for   *)
(* it.  The invariant says what that request leaves behind before its      *)
(* finally, while the label still shows as loading.                        *)
(***************************************************************************)
Matches(q) == data[q] # NoData /\ data[q].params = api[q].hash
Fresh(q) == ~api[q].isLoading /\ api[q].stamp = "valid" /\ ~api[q].isError

AnswerInv ==
  /\ \A q \in Queries : Fresh(q) => Matches(q)
  /\ \A i \in pending : req[i].label \in Queries =>
       /\ api[req[i].label].hash = req[i].answer.params
       /\ Successful(i) => Matches(req[i].label)

LEMMA AnswerImplies == AnswerInv => ReadyDataMatches
  BY DEF AnswerInv, ReadyDataMatches, Fresh, Matches, IsDataReady, ShouldInvoke

\* A step that neither stores, nor clears a loading flag, nor registers anything.

LEMMA AnswerKept ==
  ASSUME TypeOK, AnswerInv, pending' \subseteq pending,
         \A q \in Queries :
           /\ Fresh(q)' => Fresh(q)
           /\ api'[q].hash = api[q].hash
           /\ data'[q] = NoData <=> data[q] = NoData
           /\ data[q] # NoData => data'[q].params = data[q].params,
         \A i \in pending' :
           /\ req'[i].label = req[i].label
           /\ req'[i].answer.params = req[i].answer.params
           /\ Successful(i)' => Successful(i)
  PROVE  AnswerInv'
<1>1. ASSUME NEW q \in Queries, Matches(q)  PROVE Matches(q)'
  BY <1>1 DEF Matches
<1>2. ASSUME NEW q \in Queries, Fresh(q)'  PROVE Matches(q)'
  <2>1. Fresh(q)
    BY <1>2
  <2> QED  BY <1>1, <2>1 DEF AnswerInv
<1>3. ASSUME NEW i \in pending', req'[i].label \in Queries
      PROVE  /\ api'[req'[i].label].hash = req'[i].answer.params
             /\ Successful(i)' => Matches(req[i].label)'
  <2>1. i \in pending /\ req'[i].label = req[i].label
    BY <1>3
  <2>2. /\ api[req[i].label].hash = req[i].answer.params
        /\ Successful(i) => Matches(req[i].label)
    BY <1>3, <2>1 DEF AnswerInv
  <2>3. api'[req[i].label].hash = api[req[i].label].hash
    BY <1>3, <2>1
  <2>4. Successful(i) => data'[req[i].label] # NoData
                         /\ data'[req[i].label].params = api'[req[i].label].hash
    BY <1>3, <2>1, <2>2, <2>3 DEF Matches
  <2>5. /\ Successful(i)' => Successful(i)
        /\ req'[i].answer.params = req[i].answer.params
    BY <1>3
  <2> QED  BY <2>1, <2>2, <2>3, <2>4, <2>5 DEF Matches
<1> QED  BY <1>2, <1>3 DEF AnswerInv

\* A request for a query is the only one registered for it, and has no answer yet.

LEMMA AnswerSend ==
  ASSUME TypeOK, AnswerInv, NEW l \in Labels, NEW p \in Params \cup {None}, Send(l, p),
         UNCHANGED data
  PROVE  AnswerInv'
<1>s. PICK i \in Ids : Sends(l, p, i)
  BY SendEffect
<1>1. /\ req[i].phase = "free" /\ i \notin pending
      /\ pending' = (pending \ Cancelled(l)) \cup {i}
      /\ req'[i].label = l /\ req'[i].phase = "sent"
      /\ req'[i].answer.params = p /\ req'[i].answer.misses = {}
      /\ \A j \in Ids \ {i} :
           /\ req'[j].label = req[j].label /\ req'[j].ok = req[j].ok
           /\ req'[j].answer = req[j].answer
           /\ req'[j].phase = IF j \in Cancelled(l) /\ req[j].phase = "sent"
                              THEN "aborted" ELSE req[j].phase
      /\ api'[l].isLoading /\ api'[l].hash = p
      /\ api'[l].stamp = api[l].stamp /\ api'[l].isError = api[l].isError
      /\ \A k \in Labels \ {l} : api'[k] = api[k]
  BY <1>s DEF Sends
<1>2. Queries \subseteq Labels /\ pending \subseteq Ids
  BY DEF Labels, TypeOK
<1>3. ASSUME NEW q \in Queries \ {l}, Matches(q)  PROVE Matches(q)'
  BY <1>1, <1>2, <1>3 DEF Matches
<1>4. ASSUME NEW q \in Queries, Fresh(q)'  PROVE Matches(q)'
  <2>1. q # l
    BY <1>1, <1>4 DEF Fresh
  <2>2. Fresh(q)
    BY <1>1, <1>2, <1>4, <2>1 DEF Fresh
  <2> QED  BY <1>3, <2>1, <2>2 DEF AnswerInv
<1>5. ASSUME NEW j \in pending', req'[j].label \in Queries
      PROVE  /\ api'[req'[j].label].hash = req'[j].answer.params
             /\ Successful(j)' => Matches(req[j].label)'
  <2>1. CASE j = i
    <3>1. ~Successful(j)'
      BY <1>1, <2>1 DEF Successful, Ended
    <3> QED  BY <1>1, <2>1, <3>1
  <2>2. CASE j # i
    <3>1. /\ j \in pending /\ j \in Ids /\ j \notin Cancelled(l)
          /\ req'[j].label = req[j].label /\ req'[j].phase = req[j].phase
          /\ req'[j].ok = req[j].ok /\ req'[j].answer = req[j].answer
      BY <1>1, <1>2, <1>5, <2>2
    <3>2. req[j].label # l
      BY <1>5, <3>1, ApiAssumption DEF Cancelled
    <3>3. /\ api[req[j].label].hash = req[j].answer.params
          /\ Successful(j) => Matches(req[j].label)
      BY <1>5, <3>1 DEF AnswerInv
    <3>4. api'[req[j].label] = api[req[j].label]
      BY <1>1, <1>2, <1>5, <3>1, <3>2
    <3>5. Successful(j)' => Successful(j)
      BY <3>1 DEF Successful, Ended
    <3>6. Successful(j) => data[req[j].label] # NoData
                           /\ data[req[j].label].params = api[req[j].label].hash
      BY <3>3 DEF Matches
    <3>7. Successful(j)' => data'[req'[j].label] # NoData
                            /\ data'[req'[j].label].params = api'[req'[j].label].hash
      BY <3>1, <3>4, <3>5, <3>6
    <3> QED  BY <3>1, <3>3, <3>4, <3>7 DEF Matches
  <2> QED  BY <2>1, <2>2
<1> QED  BY <1>4, <1>5 DEF AnswerInv

\* The answer that is stored is the one of the registered request.

LEMMA AnswerSucceed ==
  ASSUME TypeOK, PendingInv, LoadingIffPending, AnswerInv, NEW i \in Ids, Succeed(i)
  PROVE  AnswerInv'
<1>1. i \in pending /\ req[i].phase = "sent" /\ UNCHANGED pending
  BY DEF Succeed, PendingInv
<1>2. req' = [req EXCEPT ![i] = Settled(@, TRUE)]
  BY DEF Succeed
<1>3. \A j \in Ids : /\ req'[j].label = req[j].label /\ req'[j].answer = req[j].answer
                     /\ req'[j].phase = IF j = i THEN "settled" ELSE req[j].phase
                     /\ req'[j].ok = IF j = i THEN TRUE ELSE req[j].ok
  BY <1>2, SettleEffect
<1>4. Queries \subseteq Labels /\ pending \subseteq Ids
  BY DEF Labels, TypeOK
<1>5. ASSUME NEW q \in Queries, q = req[i].label  PROVE Matches(q)' /\ ~Fresh(q)'
  <2>1. data'[q] = req[i].answer /\ data'[q] # NoData
    BY <1>5, StoreEffect
  <2>2. api'[q].hash = api[q].hash /\ api'[q].isLoading = api[q].isLoading
    BY <1>4, SuccessEffect
  <2>3. api[q].hash = req[i].answer.params
    BY <1>1, <1>5 DEF AnswerInv
  <2>4. api[q].isLoading
    BY <1>1, <1>4, <1>5 DEF LoadingIffPending, HasPending
  <2> QED  BY <2>1, <2>2, <2>3, <2>4 DEF Matches, Fresh
<1>6. ASSUME NEW q \in Queries, q # req[i].label
      PROVE  (Fresh(q)' => Fresh(q)) /\ (Matches(q) => Matches(q)')
  <2>1. /\ data'[q] = NoData <=> data[q] = NoData
        /\ data[q] # NoData => data'[q].params = data[q].params
    BY <1>6, StoreEffect
  <2>2. /\ api'[q].hash = api[q].hash /\ api'[q].isLoading = api[q].isLoading
        /\ api'[q].isError = api[q].isError
        /\ api'[q].stamp = IF q \in AffectedBy(i) THEN "reset" ELSE api[q].stamp
    BY <1>4, <1>6, SuccessEffect
  <2>3. Fresh(q)' => Fresh(q)
    BY <2>2 DEF Fresh
  <2>4. Matches(q) => Matches(q)'
    BY <2>1, <2>2 DEF Matches
  <2> QED  BY <2>3, <2>4
<1>7. ASSUME NEW q \in Queries, Fresh(q)'  PROVE Matches(q)'
  BY <1>5, <1>6, <1>7 DEF AnswerInv
<1>8. ASSUME NEW j \in pending', req'[j].label \in Queries
      PROVE  /\ api'[req'[j].label].hash = req'[j].answer.params
             /\ Successful(j)' => Matches(req[j].label)'
  <2>1. /\ j \in pending /\ j \in Ids /\ req'[j].label = req[j].label
        /\ req'[j].answer = req[j].answer
    BY <1>1, <1>3, <1>4, <1>8
  <2>2. /\ api[req[j].label].hash = req[j].answer.params
        /\ Successful(j) => Matches(req[j].label)
    BY <1>8, <2>1 DEF AnswerInv
  <2>3. api'[req[j].label].hash = api[req[j].label].hash
    BY <1>4, <1>8, <2>1, SuccessEffect
  <2>4. ASSUME Successful(j)'  PROVE Matches(req[j].label)'
    <3>0. PICK q \in Queries : q = req[j].label
      BY <1>8, <2>1
    <3>1. CASE j = i
      <4>1. Matches(q)'
        BY <1>5, <3>0, <3>1
      <4> QED  BY <2>1, <3>0, <4>1 DEF Matches
    <3>2. CASE j # i
      <4>1. Successful(j)
        BY <1>3, <2>1, <2>4, <3>2 DEF Successful, Ended
      <4>2. q # req[i].label
        BY <1>1, <2>1, <3>0, <3>2 DEF PendingInv
      <4>3. Matches(q)
        BY <2>2, <3>0, <4>1
      <4>4. Matches(q)'
        BY <1>6, <4>2, <4>3
      <4> QED  BY <2>1, <3>0, <4>4 DEF Matches
    <3> QED  BY <3>1, <3>2
  <2> QED  BY <2>1, <2>2, <2>3, <2>4
<1> QED  BY <1>7, <1>8 DEF AnswerInv

\* The finally that ends the loading of a query is the one of its only request.

LEMMA AnswerFinally ==
  ASSUME TypeOK, VerdictInv, LoadingIffPending, AnswerInv, NEW i \in Ids, Finally(i)
  PROVE  AnswerInv'
<1>1. /\ req[i].phase = "settled" /\ pending' = pending \ {i}
      /\ \A j \in Ids : /\ req'[j].label = req[j].label /\ req'[j].ok = req[j].ok
                        /\ req'[j].answer = req[j].answer
                        /\ req'[j].phase = IF j = i THEN "finished" ELSE req[j].phase
      /\ \A l \in Labels : /\ api'[l].hash = api[l].hash /\ api'[l].stamp = api[l].stamp
                           /\ api'[l].isError = api[l].isError
                           /\ l # req[i].label => api'[l].isLoading = api[l].isLoading
  BY FinallyEffect
<1>2. Queries \subseteq Labels /\ pending \subseteq Ids /\ UNCHANGED data
  BY DEF Labels, TypeOK, Finally
<1>3. \A q \in Queries : Matches(q) => Matches(q)'
  BY <1>1, <1>2 DEF Matches
<1>4. ASSUME NEW q \in Queries, Fresh(q)'  PROVE Matches(q)'
  <2>1. CASE Fresh(q)
    BY <1>3, <2>1 DEF AnswerInv
  <2>2. CASE ~Fresh(q)
    <3>1. q = req[i].label /\ api[q].isLoading /\ ~api'[q].isLoading
      BY <1>1, <1>2, <1>4, <2>2 DEF Fresh
    <3>2. ~HasPending(q, pending \ {i})
      BY <3>1, FinallyEffect
    <3>3. HasPending(q, pending)
      BY <1>2, <3>1 DEF LoadingIffPending
    <3>4. i \in pending
      BY <3>2, <3>3 DEF HasPending
    <3>5. ~api[q].isError
      BY <1>1, <1>2, <1>4 DEF Fresh
    <3>6. Ended(i)
      BY <1>1 DEF Ended
    <3>7. req[i].ok
      BY <3>1, <3>5, <3>6 DEF VerdictInv
    <3>8. Matches(q)
      BY <3>1, <3>4, <3>6, <3>7 DEF AnswerInv, Successful
    <3> QED  BY <1>3, <3>8
  <2> QED  BY <2>1, <2>2
<1>5. ASSUME NEW j \in pending', req'[j].label \in Queries
      PROVE  /\ api'[req'[j].label].hash = req'[j].answer.params
             /\ Successful(j)' => Matches(req[j].label)'
  <2>1. /\ j \in pending /\ j # i /\ j \in Ids /\ req'[j].label = req[j].label
        /\ req'[j].answer = req[j].answer
    BY <1>1, <1>2, <1>5
  <2>2. /\ api[req[j].label].hash = req[j].answer.params
        /\ Successful(j) => Matches(req[j].label)
    BY <1>5, <2>1 DEF AnswerInv
  <2>3. api'[req[j].label].hash = api[req[j].label].hash
    BY <1>1, <1>2, <1>5, <2>1
  <2>4. Successful(j)' => Successful(j)
    BY <1>1, <2>1 DEF Successful, Ended
  <2>5. Matches(req[j].label) =>
          data'[req[j].label] # NoData /\ data'[req[j].label].params = api'[req[j].label].hash
    BY <1>2, <2>3 DEF Matches
  <2> QED  BY <2>1, <2>2, <2>3, <2>4, <2>5 DEF Matches
<1> QED  BY <1>4, <1>5 DEF AnswerInv

LEMMA AnswerStep ==
  ASSUME TypeOK, PendingInv, VerdictInv, LoadingIffPending, AnswerInv, [Next]_vars
  PROVE  AnswerInv'
<1>l. Queries \subseteq Labels /\ pending \subseteq Ids
  BY DEF Labels, TypeOK
<1>0. ASSUME UNCHANGED <<api, data, pending, req>>  PROVE AnswerInv'
  BY <1>0, AnswerKept DEF Fresh, Successful, Ended
<1>1. CASE UserStep
  <2>1. CASE \E q \in Queries : (\E p \in Params : Show(q, p)) \/ Hide(q)
    BY <1>0, <2>1 DEF Show, Hide
  <2>2. ASSUME NEW q \in Queries, Refetch(q) \/ TtlElapses(q)  PROVE AnswerInv'
    <3>1. PICK s \in Stamps : s # "valid" /\ api' = [api EXCEPT ![q].stamp = s]
      BY <2>2 DEF Refetch, TtlElapses, Stamps
    <3>2. UNCHANGED <<data, pending, req>>
      BY <2>2 DEF Refetch, TtlElapses
    <3>3. \A l \in Labels : /\ api'[l].isLoading = api[l].isLoading
                            /\ api'[l].hash = api[l].hash
                            /\ api'[l].isError = api[l].isError
                            /\ api'[l].stamp = IF l = q THEN s ELSE api[l].stamp
      BY <3>1, StampEffect
    <3>4. ASSUME NEW k \in Queries  PROVE Fresh(k)' => Fresh(k)
      BY <1>l, <3>1, <3>3 DEF Fresh
    <3>5. ASSUME NEW i \in Ids  PROVE Successful(i)' => Successful(i)
      BY <3>2 DEF Successful, Ended
    <3> QED  BY <1>l, <3>2, <3>3, <3>4, <3>5, AnswerKept
  <2>3. CASE \E m \in Mutations : Mutate(m)
    BY <2>3, AnswerSend DEF Mutate, Labels
  <2>4. CASE Leave
    <3>1. /\ pending' = {}
          /\ \A q \in Queries : ~Fresh(q)'
      BY <1>l, <2>4, SignOutEffect DEF Fresh
    <3> QED  BY <3>1 DEF AnswerInv
  <2> QED  BY <1>1, <2>1, <2>2, <2>3, <2>4 DEF UserStep
<1>2. CASE SignIn \/ UNCHANGED vars
  BY <1>0, <1>2 DEF SignIn, vars
<1>3. ASSUME NEW q \in Queries, Render(q)  PROVE AnswerInv'
  <2>1. CASE ShouldInvoke(q)
    <3>1. q \in Labels /\ want[q] \in Params \cup {None} /\ Send(q, want[q]) /\ UNCHANGED data
      BY <1>3, <2>1 DEF Render, Labels, TypeOK
    <3> QED  BY <3>1, AnswerSend
  <2>2. CASE ~ShouldInvoke(q)
    BY <1>0, <1>3, <2>2 DEF Render
  <2> QED  BY <2>1, <2>2
<1>4. ASSUME NEW i \in Ids, Serve(i)  PROVE AnswerInv'
  <2>1. UNCHANGED <<api, pending>>
    BY <1>4 DEF Serve
  <2>2. ASSUME NEW j \in Ids
        PROVE  /\ req'[j].label = req[j].label
               /\ req'[j].answer.params = req[j].answer.params
               /\ Successful(j)' => Successful(j)
    BY <1>4, ServeEffect DEF Successful, Ended
  <2>3. ASSUME NEW q \in Queries
        PROVE  /\ Fresh(q)' => Fresh(q)
               /\ data'[q] = NoData <=> data[q] = NoData
               /\ data[q] # NoData => data'[q].params = data[q].params
    BY <1>4, <2>1, ServeEffect DEF Fresh
  <2> QED  BY <1>l, <2>1, <2>2, <2>3, AnswerKept
<1>5. ASSUME NEW i \in Ids, Succeed(i)  PROVE AnswerInv'
  BY <1>5, AnswerSucceed
<1>6. ASSUME NEW i \in Ids, Fail(i) \/ CatchAborted(i)  PROVE AnswerInv'
  <2>0. /\ api' = [api EXCEPT ![req[i].label] = ErrorOf(@)]
        /\ req' = [req EXCEPT ![i] = Settled(@, FALSE)] /\ UNCHANGED <<data, pending>>
    BY <1>6 DEF Fail, CatchAborted
  <2>1. \A j \in Ids : /\ req'[j].label = req[j].label /\ req'[j].answer = req[j].answer
                       /\ req'[j].phase = IF j = i THEN "settled" ELSE req[j].phase
                       /\ req'[j].ok = IF j = i THEN FALSE ELSE req[j].ok
    BY <2>0, SettleEffect
  <2>2. /\ api'[req[i].label].isError
        /\ \A l \in Labels : /\ api'[l].hash = api[l].hash
                             /\ l # req[i].label => api'[l] = api[l]
    BY <2>0, ErrorEffect
  <2>3. ASSUME NEW q \in Queries  PROVE Fresh(q)' => Fresh(q)
    BY <1>l, <2>2 DEF Fresh
  <2>4. ASSUME NEW j \in Ids  PROVE Successful(j)' => Successful(j)
    BY <2>1 DEF Successful, Ended
  <2> QED  BY <1>l, <2>0, <2>1, <2>2, <2>3, <2>4, AnswerKept
<1>7. ASSUME NEW i \in Ids, Unauthorized(i)  PROVE AnswerInv'
  <2>1. /\ pending' = {}
        /\ \A q \in Queries : ~Fresh(q)'
    BY <1>l, <1>7, SignOutEffect DEF Fresh
  <2> QED  BY <2>1 DEF AnswerInv
<1>8. ASSUME NEW i \in Ids, Finally(i)  PROVE AnswerInv'
  BY <1>8, AnswerFinally
<1>9. ASSUME NEW i \in Ids, Continue(i)  PROVE AnswerInv'
  <2>1. /\ UNCHANGED <<api, pending>> /\ i \notin pending
    BY <1>9, ContinueEffect DEF Continue
  <2>2. ASSUME NEW j \in Ids \ {i}
        PROVE  /\ req'[j].label = req[j].label
               /\ req'[j].answer.params = req[j].answer.params
               /\ Successful(j)' => Successful(j)
    BY <1>9, ContinueEffect DEF Successful, Ended
  <2>3. ASSUME NEW q \in Queries
        PROVE  /\ Fresh(q)' => Fresh(q)
               /\ data'[q] = NoData <=> data[q] = NoData
               /\ data[q] # NoData => data'[q].params = data[q].params
    BY <1>9, <2>1, ContinueEffect DEF Fresh
  <2> QED  BY <1>l, <2>1, <2>2, <2>3, AnswerKept
<1> QED
  BY <1>1, <1>2, <1>3, <1>4, <1>5, <1>6, <1>7, <1>8, <1>9 DEF Next, Answered, Reaction

\* Data that a component takes for ready answers the parameters it shows, whatever
\* requests were cancelled, failed or overtaken before (useApiState, isDataReady).
THEOREM ReadyDataIsOwn == Spec => []ReadyDataMatches
<1>1. Init => PendingInv /\ VerdictInv /\ LoadingIffPending /\ AnswerInv
  <2>1. ASSUME Init
        PROVE  /\ pending = {} /\ \A i \in Ids : req[i].phase = "free"
               /\ \A l \in Labels : ~api[l].isLoading /\ api[l].stamp = "reset"
    BY <2>1, NoneChanged DEF Init, NoStatus
  <2>2. ASSUME Init  PROVE PendingInv /\ LoadingIffPending
    BY <2>1, <2>2 DEF PendingInv, LoadingIffPending, HasPending
  <2>3. ASSUME Init  PROVE VerdictInv
    BY <2>1, <2>3 DEF VerdictInv, Ended, Successful
  <2>4. ASSUME Init  PROVE AnswerInv
    BY <2>1, <2>4 DEF AnswerInv, Fresh, Labels
  <2> QED  BY <2>2, <2>3, <2>4
<1> QED
  BY <1>1, PendingStep, VerdictStep, FlagStep, AnswerStep, AnswerImplies,
     ApiTypeCorrect, PTL DEF Spec
=============================================================================
