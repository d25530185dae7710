---------------------------- MODULE StorePatches ----------------------------
(***************************************************************************)
(* The lists that ngui keeps in its restapi store and patches by hand when *)
(* a mutation succeeds, instead of asking for them again                   *)
(* (api/restapi/reducer.ts, handlers.ts and the actions that use them):    *)
(* webhooks of a resource, policies of a pool, constraints of a resource,  *)
(* policies of the organization and ssh keys of an employee.  ApiRequests  *)
(* models the requests themselves; here a request is sent, served and      *)
(* answered, and what matters is the order of these steps.                 *)
(***************************************************************************)
EXTENDS Naturals, Sequences, FiniteSets, SequencesExt

CONSTANTS Owners,    \* resources, pools, organizations or employees
          Slots,     \* actions of a webhook, types of a policy or a constraint
          Values,    \* what a row holds: 1 is the default key among ssh keys
          Ids, Calls,
          MaxCalls,  \* bound: mutations the user makes
          Idle, None

ASSUME StoreAssumption == {0, 1} \subseteq Values /\ Values \subseteq Nat /\ MaxCalls \in Nat

VARIABLES
  kind,    \* which of the lists this is
  server,  \* the rows in the data base
  used,    \* identifiers the data base has given out
  cache,   \* the list in the store and whose it was when it was loaded
  view,    \* the owner whose page is shown
  query,   \* the request that loads the list
  call,    \* the mutations on their way
  made,    \* mutations made so far
  raced    \* history: what has gone wrong since the list was last loaded

vars == <<kind, server, used, cache, view, query, call, made, raced>>

Kinds == {"webhook", "policy", "constraint", "global", "key"}
Ops == {"create", "update", "delete"}
Row == [id : Ids, owner : Owners, slot : Slots, value : Values]
Cache == [of : Owners \cup {None}, rows : Seq(Row)]
Query == [owner : Owners, served : BOOLEAN, rows : Seq(Row),
          missed : BOOLEAN]        \* history: read before a mutation whose answer is out
Call == [op : Ops, row : Row, phase : {"sent", "served"},
         live : BOOLEAN,           \* not cancelled
         since : BOOLEAN,          \* history: served after the list on its way was read
         old : BOOLEAN]            \* history: a related mutation was served since

ASSUME NoDataAssumption == /\ Idle \notin Call /\ Idle \notin Query /\ None \notin Owners
                           /\ IsFiniteSet(Ids)

\* Operations of each kind that the pages offer.
Offered ==
  CASE kind = "policy" -> {"create", "update"}
    [] kind = "global" -> {"create", "update"}
    [] OTHER           -> {"create", "update", "delete"}

\* A mutation without a patch: the list is asked for again instead.
AsksAgain(op) == \/ kind = "global" /\ op = "create"
                 \/ kind = "key" /\ op = "delete"

(***************************************************************************)
(* The patches of the reducer.                                             *)
(***************************************************************************)
\* filter, as a recursive function.
Without(list, gone) ==
  LET kept[i \in 0..Len(list)] ==
        IF i = 0 THEN <<>>
        ELSE IF list[i] \in gone THEN kept[i - 1] ELSE Append(kept[i - 1], list[i])
  IN  kept[Len(list)]
WithId(list, id) == {row \in ToSet(list) : row.id = id}
InSlot(list, slot) == {row \in ToSet(list) : row.slot = slot}

\* Mutant of PatchWebhook: the changed webhook is put first.
PatchWebhookFirst(list, op, new) ==
  IF op = "delete" THEN Without(list, WithId(list, new.id)) ELSE <<new>> \o list

\* CREATE_WEBHOOK, UPDATE_WEBHOOK: appended in both cases; DELETE_WEBHOOK
PatchWebhook(list, op, new) ==
  IF op = "delete" THEN Without(list, WithId(list, new.id)) ELSE Append(list, new)

\* SET_POOL_POLICY, whatever the pool of the rows is.
PatchPolicy(list, new) == Append(Without(list, InSlot(list, new.slot)), new)

\* SET_RESOURCE_CONSTRAINT, DELETE_RESOURCE_CONSTRAINT
PatchConstraint(list, op, new) ==
  IF op = "delete" THEN Without(list, WithId(list, new.id)) ELSE PatchPolicy(list, new)

\* UPDATE_GLOBAL_POOL_POLICY, UPDATE_GLOBAL_RESOURCE_CONSTRAINT
PatchGlobal(list, new) ==
  [i \in DOMAIN list |-> IF list[i].id = new.id THEN new ELSE list[i]]

\* CREATE_SSH_KEY, UPDATE_SSH_KEY
PatchKey(list, op, new) ==
  IF op = "create" THEN Append(list, new)
  ELSE [i \in DOMAIN list |-> [list[i] EXCEPT !.value = IF list[i].id = new.id THEN 1 ELSE 0]]

Patched(list, op, new) ==
  CASE kind = "webhook"    -> PatchWebhook(list, op, new)
    [] kind = "policy"     -> PatchPolicy(list, new)
    [] kind = "constraint" -> PatchConstraint(list, op, new)
    [] kind = "global"     -> PatchGlobal(list, new)
    [] kind = "key"        -> PatchKey(list, op, new)

(***************************************************************************)
(* What a page shows of a list.                                            *)
(***************************************************************************)
Matching(list, slot) ==
  {i \in DOMAIN list : list[i].slot = slot /\ (kind = "policy" => list[i].owner = view)}

\* getTargetWebhooks keeps the last row of an action, PoolConstraints finds the
\* first policy of the type and of this pool.
Shown(list, slot) ==
  LET at == Matching(list, slot)
  IN  {list[i] : i \in {j \in at : \A k \in at : IF kind = "policy" THEN j <= k ELSE k <= j}}

\* Rows by slot, or the whole table.
Display(list) == IF kind \in {"global", "key"} THEN ToSet(list)
                 ELSE UNION {Shown(list, slot) : slot \in Slots}

Ready == query = Idle /\ cache.of = view
Of(owner) == {row \in server : row.owner = owner}

(***************************************************************************)
(* The list: asked for when another owner's is in the store or the ttl is  *)
(* over; a new request cancels the previous one.                           *)
(***************************************************************************)
Navigate(owner) ==
  /\ owner # view
  /\ view' = owner
  /\ UNCHANGED <<kind, server, used, cache, query, call, made, raced>>

Ask ==
  /\ query # Idle => query.owner # view
  /\ query' = [owner |-> view, served |-> FALSE, rows |-> <<>>, missed |-> FALSE]
  /\ call' = [c \in Calls |-> IF call[c] = Idle THEN Idle ELSE [call[c] EXCEPT !.since = FALSE]]
  /\ UNCHANGED <<kind, server, used, cache, view, made, raced>>

\* Whether the rows come in this order makes no difference to what is shown.
ServeQuery ==
  /\ query # Idle /\ ~query.served
  /\ query' = [query EXCEPT !.served = TRUE, !.rows = SetToSeq(Of(query.owner))]
  /\ UNCHANGED <<kind, server, used, cache, view, call, made, raced>>

AnswerQuery ==
  /\ query # Idle /\ query.served
  /\ cache' = [of |-> query.owner, rows |-> query.rows]
  /\ raced' = IF query.missed THEN {"overtaken"} ELSE {}
  /\ query' = Idle
  /\ UNCHANGED <<kind, server, used, view, call, made>>

(***************************************************************************)
(* Mutations.                                                              *)
(***************************************************************************)
\* Requests with the same label; the pages of the global lists allow several.
SameLabel(c, op, row) ==
  /\ call[c] # Idle /\ call[c].op = op
  /\ kind = "global" => op = "create"
  /\ kind = "constraint" /\ op # "delete" => call[c].row.slot = row.slot

\* A cancelled request that has been served goes unnoticed, and one that has not
\* may still be.
Miss(c) == call[c].phase = "served"

Mutate(c, op, row) ==
  /\ made < MaxCalls /\ made' = made + 1
  /\ call[c] = Idle
  /\ op \in Offered
  /\ call' = [d \in Calls |->
       IF d = c THEN [op |-> op, row |-> row, phase |-> "sent", live |-> TRUE,
                      since |-> FALSE, old |-> FALSE]
       ELSE IF SameLabel(d, op, row) /\ Miss(d) THEN Idle
       ELSE IF SameLabel(d, op, row) THEN [call[d] EXCEPT !.live = FALSE] ELSE call[d]]
  /\ LET lost == {d \in Calls : SameLabel(d, op, row) /\ Miss(d)}
     IN /\ raced' = IF lost = {} THEN raced ELSE raced \cup {"lost"}
        /\ query' = IF query # Idle /\ \E d \in lost : call[d].since
                    THEN [query EXCEPT !.missed = TRUE] ELSE query
  /\ UNCHANGED <<kind, server, used, cache, view>>

Create(c, id, slot, value) ==
  /\ Ready
  /\ id \notin used /\ \A d \in Calls : call[d] # Idle => call[d].row.id # id
  /\ kind # "key" => Shown(cache.rows, slot) = {}
  /\ Mutate(c, "create", [id |-> id, owner |-> view, slot |-> slot, value |-> value])

Update(c, row, value) ==
  /\ Ready
  /\ row \in Display(cache.rows)
  /\ kind = "key" => value = 1
  /\ Mutate(c, "update", [row EXCEPT !.value = value])

Delete(c, row) ==
  /\ Ready
  /\ row \in Display(cache.rows)
  /\ Mutate(c, "delete", row)

\* The data base: an employee has one default key, the first one, and the default
\* one is not deleted before the others; a slot is taken once.
Stored(op, new) ==
  LET keys == {row \in server : kind = "key" /\ row.owner = new.owner}
      kept == {row \in server : row.id # new.id}
  IN CASE op = "delete" -> kept
       [] kind = "key" /\ op = "create" ->
            server \cup {[new EXCEPT !.value = IF keys = {} THEN 1 ELSE 0]}
       [] kind = "key" /\ op = "update" ->
            {[row EXCEPT !.value = IF row \notin keys THEN @
                                   ELSE IF row.id = new.id THEN 1 ELSE 0] : row \in server}
       [] OTHER -> kept \cup {new}

Refused(op, new) ==
  \/ op # "create" /\ \A row \in server : row.id # new.id
  \/ op = "create" /\ kind # "key"
       /\ \E row \in server : row.owner = new.owner /\ row.slot = new.slot
  \/ op = "delete" /\ kind = "key" /\ \E row \in server :
       row.owner = new.owner /\ row.id # new.id
       /\ \E own \in server : own.id = new.id /\ own.value = 1

\* Two operations of which only the later one counts.
Related(row, new) == IF kind = "key" THEN row.owner = new.owner
                     ELSE row.owner = new.owner /\ row.slot = new.slot

\* The answer holds the row as the data base has it.
Serve(c) ==
  LET op == call[c].op  new == call[c].row
      answer == {row \in server' : row.id = new.id}
      watched == query # Idle /\ query.served
  IN /\ call[c] # Idle /\ call[c].phase = "sent"
     /\ ~Refused(op, new)
     /\ server' = Stored(op, new)
     /\ used' = used \cup {new.id}
     /\ call' = [d \in Calls |->
          IF d = c THEN IF call[c].live
                        THEN [call[c] EXCEPT !.phase = "served", !.since = watched,
                                !.row = IF op = "delete" THEN new ELSE CHOOSE row \in answer : TRUE]
                        ELSE Idle
          ELSE IF call[d] # Idle /\ Miss(d) /\ Related(call[d].row, new)
               THEN [call[d] EXCEPT !.old = TRUE] ELSE call[d]]
     /\ raced' = IF call[c].live THEN raced ELSE raced \cup {"lost"}
     /\ query' = IF ~call[c].live /\ watched THEN [query EXCEPT !.missed = TRUE] ELSE query
     /\ UNCHANGED <<kind, cache, view, made>>

\* A request that is refused or that fails on its way changes nothing.
Fail(c) ==
  /\ call[c] # Idle /\ call[c].phase = "sent"
  /\ call' = [call EXCEPT ![c] = Idle]
  /\ UNCHANGED <<kind, server, used, cache, view, query, made, raced>>

\* The answer of a later operation that is still to come will put things right: one
\* on the same row, or among ssh keys the choice of a default key, unless the answer
\* that comes now is of a key deleted since.
Corrected(c) ==
  \E d \in Calls \ {c} :
    /\ call[d] # Idle /\ Miss(d) /\ ~call[d].old
    /\ IF kind = "key"
       THEN /\ call[d].op = "update" /\ Related(call[d].row, call[c].row)
            /\ call[c].op = "create" => \E row \in server : row.id = call[c].row.id
       ELSE call[d].row.id = call[c].row.id

\* Mutant of Answered: the store is patched whatever became of the request.
AnsweredAnyway(c) == call[c] # Idle

\* onSuccess is dispatched for an answer of the server only.
Answered(c) == call[c] # Idle /\ call[c].phase = "served"

Answer(c) ==
  LET op == call[c].op  new == call[c].row
  IN /\ Answered(c)
     /\ cache' = IF AsksAgain(op) THEN [cache EXCEPT !.of = None]
                 ELSE [cache EXCEPT !.rows = Patched(cache.rows, op, new)]
     /\ raced' = raced \cup (IF cache.of # new.owner THEN {"foreign"} ELSE {})
                       \cup (IF call[c].old /\ ~Corrected(c) THEN {"reordered"} ELSE {})
     /\ query' = IF query # Idle /\ call[c].since THEN [query EXCEPT !.missed = TRUE] ELSE query
     /\ call' = [call EXCEPT ![c] = Idle]
     /\ UNCHANGED <<kind, server, used, view, made>>

Init ==
  /\ kind \in Kinds
  /\ server = {} /\ used = {}
  /\ cache = [of |-> None, rows |-> <<>>]
  /\ view \in Owners
  /\ query = Idle
  /\ call = [c \in Calls |-> Idle]
  /\ made = 0 /\ raced = {}

UserStep(c) ==
  \/ \E id \in Ids, slot \in Slots, value \in Values : Create(c, id, slot, value)
  \/ \E row \in Display(cache.rows), value \in Values : Update(c, row, value)
  \/ \E row \in Display(cache.rows) : Delete(c, row)

Next ==
  \/ \E owner \in Owners : Navigate(owner)
  \/ Ask \/ ServeQuery \/ AnswerQuery
  \/ \E c \in Calls : UserStep(c) \/ Serve(c) \/ Fail(c) \/ Answer(c)

Spec == Init /\ [][Next]_vars

-----------------------------------------------------------------------------
\* Every variable has its type, the rows of the data base are told apart by their
\* identifiers, and the store holds no row with an identifier that the data base did
\* not give out.
TypeOK ==
  /\ kind \in Kinds
  /\ server \subseteq Row /\ used \subseteq Ids
  /\ \A r, s \in server : r.id = s.id => r = s
  /\ cache \in Cache /\ \A row \in ToSet(cache.rows) : row.id \in used
  /\ view \in Owners
  /\ query \in Query \cup {Idle}
  /\ call \in [Calls -> Call \cup {Idle}]
  /\ \A c \in Calls : call[c] # Idle => call[c].op \in Offered
  /\ made \in 0..MaxCalls
  /\ raced \subseteq {"lost", "overtaken", "foreign", "reordered"}

Quiet == Ready /\ \A c \in Calls : call[c] = Idle

\* Once every answer is in, the page shows exactly the rows the data base has for
\* it: the patches made by hand, and the way the pages pick a row of the list,
\* together amount to a fresh list.  Only a mutation whose answer was cancelled or
\* came after a later one's, a list that was read before a mutation and arrived
\* after its answer, and a mutation answered over another owner's list are excepted.
ShownIsStored == Quiet /\ raced = {} => Display(cache.rows) = Of(view)
=============================================================================
