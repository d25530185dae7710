------------------------- MODULE ReportImport_proofs -------------------------
(***************************************************************************)
(* Proofs about ReportImport, for any thresholds and bounds.               *)
(***************************************************************************)
EXTENDS ReportImport, TLAPS

\* Deliveries are counted: a message that waits was delivered at most once per
\* loss, any other at most once more.
DeliveriesCounted ==
    \A i \in Imports :
        /\ msg[i].n =< losses + 1
        /\ msg[i].place = "queued" => msg[i].n =< losses

TypeInv == TypeOK /\ DeliveriesCounted

\* Initially the types hold.
LEMMA TypeInit == Init => TypeInv
<1> SUFFICES ASSUME Init PROVE TypeInv
  OBVIOUS
<1>1. imports \in [Imports -> Row]
  BY ThresholdAssumption DEF Init, Row, ImportStates
<1>2. msg \in [Imports -> Message]
  BY ThresholdAssumption, LimitAssumption DEF Init, Message
<1>3. TypeOK
  <2>1. jobs \subseteq Job /\ requested \in BOOLEAN
    BY DEF Init
  <2>2. /\ created \in 0 .. MaxImports /\ requests \in 0 .. MaxRequests
        /\ faults \in 0 .. MaxFaults /\ losses \in 0 .. MaxRedeliveries
    BY LimitAssumption DEF Init
  <2>3. redelivered \subseteq Imports /\ duplicated \subseteq Imports /\ halfway \subseteq Imports
    BY DEF Init
  <2> QED
    BY <1>1, <1>2, <2>1, <2>2, <2>3 DEF TypeOK
<1>4. DeliveriesCounted
  BY DEF Init, DeliveriesCounted
<1> QED
  BY <1>3, <1>4 DEF TypeInv

PCs == {"received", "listed", "blocked", "importing", "imported", "failing", "done"}

\* What a thread's step does to its record.
LEMMA JobSteps ==
    ASSUME NEW j \in Job
    PROVE  /\ j.id \in Imports /\ j.holds \in BOOLEAN /\ j.beat \in BOOLEAN
           /\ \A pc \in PCs : LET k == [j EXCEPT !.pc = pc]
                               IN  /\ k \in Job /\ k.id = j.id /\ k.holds = j.holds
                                   /\ k.pc = pc /\ k.beat = j.beat
                                   /\ k.rivals = j.rivals
           /\ \A b \in BOOLEAN : LET k == [j EXCEPT !.beat = b]
                                  IN  /\ k \in Job /\ k.id = j.id /\ k.holds = j.holds
                                      /\ k.pc = j.pc /\ k.beat = b
                                      /\ k.rivals = j.rivals
           /\ LET k == [j EXCEPT !.holds = FALSE]
              IN  /\ k \in Job /\ k.id = j.id /\ k.holds = FALSE
                  /\ k.pc = j.pc /\ k.beat = j.beat /\ k.rivals = j.rivals
BY DEF Job, PCs

\* What the check of the active imports does to a thread's record.
LEMMA ListedJob ==
    ASSUME NEW j \in Job, NEW pc \in PCs, NEW r \in SUBSET Imports
    PROVE  /\ Listed(j, pc, r) \in Job
           /\ Listed(j, pc, r).id = j.id /\ Listed(j, pc, r).holds = j.holds
           /\ Listed(j, pc, r).pc = pc /\ Listed(j, pc, r).beat = j.beat
           /\ Listed(j, pc, r).rivals = r
BY DEF Job, PCs, Listed

\* What edit() does to a row.
LEMMA RowSteps ==
    ASSUME NEW row \in Row
    PROVE  /\ \A state \in ImportStates :
                /\ Edited(row, state) \in Row
                /\ Edited(row, state).state = state
                /\ Edited(row, state).updated_age = 0
           /\ Touched(row) \in Row
           /\ Touched(row).state = row.state
           /\ Touched(row).updated_age = 0
<1>1. ASSUME NEW state \in ImportStates
      PROVE  /\ Edited(row, state) \in Row
             /\ Edited(row, state).state = state
             /\ Edited(row, state).updated_age = 0
  BY ThresholdAssumption DEF Row, Edited
<1>2. Touched(row) \in Row /\ Touched(row).state = row.state /\ Touched(row).updated_age = 0
  BY ThresholdAssumption DEF Row, Touched
<1> QED
  BY <1>1, <1>2

\* What the broker does to a message.
LEMMA MessageSteps ==
    ASSUME NEW m \in Message
    PROVE  /\ Requeued(m) \in Message
           /\ Requeued(m).place = "queued" /\ Requeued(m).n = m.n
           /\ Removed(m) \in Message
           /\ Removed(m).place = "none" /\ Removed(m).n = m.n
           /\ Delivered(m).place = "held" /\ Delivered(m).n = m.n + 1
           /\ m.n < MaxRedeliveries + 1 => Delivered(m) \in Message
<1>1. /\ Requeued(m) \in Message
      /\ Requeued(m).place = "queued" /\ Requeued(m).n = m.n
  BY DEF Message, Requeued
<1>2. /\ Removed(m) \in Message
      /\ Removed(m).place = "none" /\ Removed(m).n = m.n
  BY ThresholdAssumption DEF Message, Removed
<1>3. /\ Delivered(m).place = "held" /\ Delivered(m).n = m.n + 1
      /\ m.n < MaxRedeliveries + 1 => Delivered(m) \in Message
  BY LimitAssumption DEF Message, Delivered
<1> QED
  BY <1>1, <1>2, <1>3

\* A thread that moves on, with or without an edit of its row.
LEMMA ThreadType ==
    ASSUME TypeOK, NEW j \in jobs
    PROVE  /\ j \in Job /\ j.id \in Imports
           /\ \A pc \in PCs : Move(j, pc) => jobs' \subseteq Job
           /\ \A i \in Imports : \A state \in ImportStates :
                Edit(i, state) => imports' \in [Imports -> Row]
           /\ \A k \in Job : jobs' = (jobs \ {j}) \cup {k} => jobs' \subseteq Job
           /\ CountFault => faults' \in 0 .. MaxFaults
<1>1. j \in Job /\ j.id \in Imports
  BY JobSteps DEF TypeOK
<1>2. ASSUME NEW pc \in PCs, Move(j, pc)
      PROVE  jobs' \subseteq Job
  <2>1. [j EXCEPT !.pc = pc] \in Job
    BY <1>1, JobSteps
  <2> QED
    BY <1>2, <2>1 DEF Move, TypeOK
<1>3. ASSUME NEW i \in Imports, NEW state \in ImportStates, Edit(i, state)
      PROVE  imports' \in [Imports -> Row]
  <2>1. Edited(imports[i], state) \in Row
    BY RowSteps DEF TypeOK
  <2> QED
    BY <1>3, <2>1 DEF Edit, TypeOK
<1>4. \A k \in Job : jobs' = (jobs \ {j}) \cup {k} => jobs' \subseteq Job
  BY DEF TypeOK
<1>5. CountFault => faults' \in 0 .. MaxFaults
  BY LimitAssumption DEF CountFault, TypeOK
<1> QED
  BY <1>1, <1>2, <1>3, <1>4, <1>5

\* Requests, the broker and the clock keep the types.
LEMMA OutsideType ==
    ASSUME TypeInv,
           RestApi \/ Broker \/ Tick
    PROVE  TypeInv'
<1> USE DEF TypeInv
<1>1. ASSUME NEW recalculate \in BOOLEAN, Create(recalculate)
      PROVE  /\ imports' \in [Imports -> Row] /\ created' \in 0 .. MaxImports
             /\ msg' \in [Imports -> Message] /\ faults' \in 0 .. MaxFaults
             /\ DeliveriesCounted'
             /\ UNCHANGED <<jobs, requested, losses, redelivered, duplicated, halfway>>
  <2> DEFINE row == [state |-> "scheduled", is_recalculation |-> recalculate,
                     created_age |-> 0, updated_age |-> 0]
             m == [place |-> "queued", age |-> 0, n |-> 0]
  <2>1. row \in Row
    BY ThresholdAssumption DEF Row, ImportStates
  <2>2. m \in Message /\ m.n = 0
    BY ThresholdAssumption, LimitAssumption DEF Message
  <2>3. /\ created + 1 \in Imports /\ created' = created + 1
        /\ imports' = [imports EXCEPT ![created + 1] = row]
        /\ msg' = [msg EXCEPT ![created + 1] = m] \/ msg' = msg
        /\ CountFault \/ UNCHANGED faults
        /\ UNCHANGED <<jobs, requested, losses, redelivered, duplicated, halfway>>
    BY <1>1, LimitAssumption DEF Create, TypeOK, Imports, historyVars
  <2> HIDE DEF row, m
  <2>4. imports' \in [Imports -> Row] /\ msg' \in [Imports -> Message]
    BY <2>1, <2>2, <2>3 DEF TypeOK
  <2>5. created' \in 0 .. MaxImports
    BY <2>3, LimitAssumption DEF TypeOK, Imports
  <2>6. faults' \in 0 .. MaxFaults
    BY <2>3, LimitAssumption DEF CountFault, TypeOK
  <2>7. DeliveriesCounted'
    BY <2>2, <2>3 DEF DeliveriesCounted, TypeOK
  <2> QED
    BY <2>3, <2>4, <2>5, <2>6, <2>7
<1>2. CASE CheckSchedule
  <2>1. requests' \in 0 .. MaxRequests
    BY <1>2, LimitAssumption DEF CheckSchedule, TypeOK
  <2> QED
    BY <1>2, <2>1 DEF CheckSchedule, TypeOK, DeliveriesCounted, rowVars, historyVars
<1>3. CASE Schedule
  <2>1. requests' \in 0 .. MaxRequests
    BY <1>3, LimitAssumption DEF Schedule, TypeOK
  <2> QED
    BY <1>1, <1>3, <2>1 DEF Schedule, TypeOK
<1>4. CASE CompleteUpload \/ Recalculate
  BY <1>1, <1>4 DEF CompleteUpload, Recalculate, TypeOK
<1>5. ASSUME NEW i \in Imports, Receive(i)
      PROVE  TypeInv'
  <2>1. msg[i] \in Message /\ msg[i].n =< losses /\ msg[i].n \in Nat /\ losses \in Nat
        /\ losses =< MaxRedeliveries
    BY <1>5, LimitAssumption DEF Receive, TypeOK, DeliveriesCounted, Message
  <2>2. Delivered(msg[i]) \in Message /\ Delivered(msg[i]).n = msg[i].n + 1
        /\ Delivered(msg[i]).place = "held"
    BY <2>1, MessageSteps, LimitAssumption
  <2>3. msg' = [msg EXCEPT ![i] = Delivered(msg[i])]
    BY <1>5 DEF Receive
  <2>4. msg' \in [Imports -> Message]
    BY <2>2, <2>3 DEF TypeOK
  <2>5. DeliveriesCounted'
    BY <1>5, <2>1, <2>2, <2>3 DEF DeliveriesCounted, TypeOK, Receive, historyVars
  <2>6. [id |-> i, n |-> msg[i].n + 1, pc |-> "received", beat |-> FALSE,
         holds |-> TRUE, rivals |-> {}] \in Job
    BY <2>1, LimitAssumption DEF Job
  <2>7. jobs' \subseteq Job
    BY <1>5, <2>6 DEF Receive, TypeOK
  <2> QED
    BY <1>5, <2>4, <2>5, <2>7 DEF Receive, TypeOK, rowVars, historyVars
<1>6. ASSUME NEW i \in Imports, Expire(i)
      PROVE  TypeInv'
  <2>1. msg[i] \in Message
    BY DEF TypeOK
  <2>2. msg' = [msg EXCEPT ![i] = Removed(msg[i])]
    BY <1>6 DEF Expire
  <2>3. msg' \in [Imports -> Message]
    BY <2>1, <2>2, MessageSteps DEF TypeOK
  <2>4. DeliveriesCounted'
    BY <1>6, <2>1, <2>2, MessageSteps DEF DeliveriesCounted, TypeOK, Expire, historyVars
  <2> QED
    BY <1>6, <2>3, <2>4 DEF Expire, TypeOK, rowVars, historyVars
<1>7. CASE Tick
  <2>1. jobs' \subseteq Job
    <3>1. \A j \in jobs : [j EXCEPT !.beat = FALSE] \in Job
      BY JobSteps DEF TypeOK
    <3> QED
      BY <1>7, <3>1 DEF Tick
  <2>2. imports' \in [Imports -> Row]
    <3> SUFFICES ASSUME NEW i \in Imports
                 PROVE  imports'[i] \in Row
      BY <1>7 DEF Tick
    <3>1. imports[i] \in Row
      BY DEF TypeOK
    <3>2. CASE imports[i].state = "scheduled"
      BY <1>7, <3>1, <3>2, ThresholdAssumption DEF Tick, Row, Older
    <3>3. CASE imports[i].state = "in_progress"
      BY <1>7, <3>1, <3>3, ThresholdAssumption DEF Tick, Row, Older
    <3>4. CASE imports[i].state \notin {"scheduled", "in_progress"}
      BY <1>7, <3>1, <3>4 DEF Tick
    <3> QED
      BY <3>2, <3>3, <3>4
  <2>3. /\ msg' \in [Imports -> Message]
        /\ \A i \in Imports : msg'[i].n = msg[i].n /\ msg'[i].place = msg[i].place
    <3>1. \A i \in Imports : msg[i] \in Message
      BY DEF TypeOK
    <3> QED
      BY <1>7, <3>1, ThresholdAssumption DEF Tick, Message, Older
  <2>4. DeliveriesCounted'
    BY <1>7, <2>3 DEF DeliveriesCounted, Tick, historyVars
  <2> QED
    BY <1>7, <2>1, <2>2, <2>3, <2>4 DEF Tick, TypeOK, historyVars
<1> QED
  BY <1>2, <1>3, <1>4, <1>5, <1>6, <1>7 DEF RestApi, Broker

\* The threads, their heartbeats and what ends them keep the types.
LEMMA JobType ==
    ASSUME TypeInv, NEW j \in jobs,
           Thread(j) \/ Beat(j) \/ Crash(j) \/ Disconnect(j)
    PROVE  TypeInv'
<1> USE DEF TypeInv
<1>t. /\ j \in Job /\ j.id \in Imports
      /\ \A pc \in PCs : Move(j, pc) => jobs' \subseteq Job
      /\ \A i \in Imports : \A state \in ImportStates :
           Edit(i, state) => imports' \in [Imports -> Row]
      /\ \A k \in Job : jobs' = (jobs \ {j}) \cup {k} => jobs' \subseteq Job
      /\ CountFault => faults' \in 0 .. MaxFaults
  BY ThreadType
<1>d. UNCHANGED <<msg, losses>> => DeliveriesCounted'
  BY DEF DeliveriesCounted
<1>m. msg[j.id] \in Message
  BY <1>t DEF TypeOK
<1>1. CASE ListActive(j)
  <2>1. \A r \in SUBSET Imports : \A pc \in PCs :
           Listed(j, pc, r) \in Job
    BY <1>t, ListedJob
  <2>2. {k.id : k \in Importing} \ {j.id} \in SUBSET Imports
    <3>1. \A k \in Importing : k.id \in Imports
      BY JobSteps DEF Importing, TypeOK
    <3> QED
      BY <3>1
  <2>3. jobs' \subseteq Job
    <3> DEFINE pc == IF Active \ {j.id} = {} THEN "listed" ELSE "blocked"
               r == {k.id : k \in Importing} \ {j.id}
    <3>1. Listed(j, pc, r) \in Job
      BY <2>1, <2>2 DEF PCs
    <3>2. jobs' = (jobs \ {j}) \cup {Listed(j, pc, r)}
      BY <1>1 DEF ListActive
    <3> QED
      BY <1>t, <3>1, <3>2
  <2> QED
    BY <1>1, <1>d, <2>3 DEF ListActive, TypeOK, rowVars, historyVars
<1>2. CASE Cancel(j)
  BY <1>2, <1>t, <1>d DEF Cancel, TypeOK, PCs, ImportStates, historyVars
<1>3. CASE Begin(j)
  BY <1>3, <1>t, <1>d DEF Begin, TypeOK, PCs, ImportStates, historyVars
<1>4. CASE SetupRaises(j)
  <2>1. imports' \in [Imports -> Row]
    BY <1>4, <1>t DEF SetupRaises, TypeOK, ImportStates
  <2> QED
    BY <1>4, <1>t, <1>d, <2>1 DEF SetupRaises, TypeOK, PCs, historyVars
<1>5. CASE Import(j)
  BY <1>5, <1>t, <1>d DEF Import, TypeOK, PCs, rowVars, historyVars
<1>6. CASE SetCompleted(j)
  BY <1>6, <1>t, <1>d DEF SetCompleted, EditCompleted, TypeOK, PCs, ImportStates, historyVars
<1>7. CASE CompletedRaises(j)
  <2>1. imports' \in [Imports -> Row]
    BY <1>7, <1>t DEF CompletedRaises, EditCompleted, TypeOK, ImportStates
  <2>2. requested' \in BOOLEAN
    BY <1>7 DEF CompletedRaises, EditCompleted, TypeOK
  <2> QED
    BY <1>7, <1>t, <1>d, <2>1, <2>2 DEF CompletedRaises, TypeOK, PCs
<1>8. CASE SetFailed(j)
  BY <1>8, <1>t, <1>d DEF SetFailed, TypeOK, PCs, ImportStates, historyVars
<1>9. CASE FailedRaises(j)
  BY <1>9, <1>t, <1>d DEF FailedRaises, TypeOK, PCs, rowVars, historyVars
<1>10. CASE Ack(j)
  <2>1. msg' = msg \/ msg' = [msg EXCEPT ![j.id] = Removed(msg[j.id])]
    BY <1>10 DEF Ack
  <2>2. msg' \in [Imports -> Message]
    BY <1>t, <1>m, <2>1, MessageSteps DEF TypeOK
  <2>3. DeliveriesCounted'
    BY <1>10, <1>t, <1>m, <2>1, MessageSteps DEF Ack, DeliveriesCounted, TypeOK, historyVars
  <2> QED
    BY <1>10, <2>2, <2>3 DEF Ack, TypeOK, rowVars, historyVars
<1>11. CASE Beat(j)
  <2>1. [j EXCEPT !.beat = TRUE] \in Job
    BY <1>t, JobSteps
  <2>2. jobs' \subseteq Job
    BY <1>11, <1>t, <2>1 DEF Beat, Heartbeat, HeartbeatFails
  <2>3. CASE Heartbeat(j)
    <3>1. Touched(imports[j.id]) \in Row
      BY <1>t, RowSteps DEF TypeOK
    <3>2. imports' \in [Imports -> Row]
      BY <2>3, <3>1 DEF Heartbeat, TypeOK
    <3> QED
      BY <2>3, <1>d, <2>2, <3>2 DEF Heartbeat, TypeOK, historyVars
  <2>4. CASE HeartbeatFails(j)
    BY <2>4, <1>t, <1>d, <2>2 DEF HeartbeatFails, TypeOK, rowVars, historyVars
  <2> QED
    BY <1>11, <2>3, <2>4 DEF Beat
<1>12. CASE Crash(j) \/ Disconnect(j)
  <2>1. msg' = msg \/ msg' = [msg EXCEPT ![j.id] = Requeued(msg[j.id])]
    BY <1>12 DEF Crash, Disconnect
  <2>2. msg' \in [Imports -> Message]
    BY <1>t, <1>m, <2>1, MessageSteps DEF TypeOK
  <2>3. losses' = losses + 1 /\ losses' \in 0 .. MaxRedeliveries /\ redelivered' \subseteq Imports
    BY <1>12, <1>t, LimitAssumption DEF Crash, Disconnect, CountLoss, TypeOK
  <2>4. \A i \in Imports : msg'[i].n = msg[i].n /\ msg[i].n \in Nat
    <3>1. \A i \in Imports : msg[i].n \in Nat
      BY LimitAssumption DEF TypeOK, Message
    <3>2. Requeued(msg[j.id]).n = msg[j.id].n
      BY <1>m, MessageSteps
    <3> QED
      BY <1>t, <2>1, <3>1, <3>2 DEF TypeOK
  <2>5. DeliveriesCounted'
    BY <2>3, <2>4, LimitAssumption DEF DeliveriesCounted, TypeOK
  <2>6. jobs' \subseteq Job
    <3>1. [j EXCEPT !.holds = FALSE] \in Job
      BY <1>t, JobSteps
    <3>2. CASE Crash(j)
      BY <3>2 DEF Crash, TypeOK
    <3>3. CASE Disconnect(j)
      BY <3>1, <3>3, <1>t DEF Disconnect
    <3> QED
      BY <1>12, <3>2, <3>3
  <2>7. duplicated' \subseteq Imports
    BY <1>12, <1>t DEF Crash, Disconnect, TypeOK
  <2> QED
    BY <1>12, <2>2, <2>3, <2>5, <2>6, <2>7 DEF Crash, Disconnect, TypeOK, rowVars
<1> QED
  BY <1>1, <1>2, <1>3, <1>4, <1>5, <1>6, <1>7, <1>8, <1>9, <1>10, <1>11, <1>12 DEF Thread

\* Every step keeps the types.
LEMMA TypeStep == TypeInv /\ [Next]_vars => TypeInv'
<1> SUFFICES ASSUME TypeInv, [Next]_vars
             PROVE  TypeInv'
  OBVIOUS
<1>1. CASE UNCHANGED vars
  BY <1>1 DEF vars, TypeInv, TypeOK, DeliveriesCounted
<1>2. CASE Next
  BY <1>2, OutsideType, JobType DEF Next
<1> QED
  BY <1>1, <1>2

(***************************************************************************)
(* Rows, messages and threads stay well formed for any thresholds and      *)
(* bounds; a message is delivered at most once more than it was lost.      *)
(***************************************************************************)
THEOREM ImportTypeCorrect == Spec => []TypeOK
<1>1. TypeInv => TypeOK
  BY DEF TypeInv
<1> QED
  BY <1>1, TypeInit, TypeStep, PTL DEF Spec

-----------------------------------------------------------------------------
(* The check of the active imports.                                         *)

\* Who works on what: a message is held by one thread, and a thread without
\* its message belongs to a duplicated import.  Nothing exists before its row.
Ownership ==
    /\ \A j \in jobs : j.id =< created
    /\ \A i \in Imports : msg[i].place # "none" => i =< created
    /\ \A j \in jobs : j.holds => msg[j.id].place = "held"
    /\ \A j, k \in jobs : j.holds /\ k.holds /\ j.id = k.id => j = k
    /\ \A j \in jobs : ~j.holds => j.id \in duplicated

\* The row of a live import is in progress and as fresh as its heartbeats.
RowsFresh ==
    \A j \in jobs :
        j.pc = "importing" /\ j.id \notin duplicated =>
            /\ imports[j.id].state = "in_progress"
            /\ imports[j.id].updated_age =< faults + (IF j.beat THEN 0 ELSE 1)

LiveInv == Ownership /\ RowsFresh /\ CheckSeesLiveImports

\* The states a row may have while its thread is at pc.
InPhase(pc, state) ==
    /\ pc \in {"received", "listed", "blocked"} => state = "scheduled"
    /\ pc \in {"importing", "imported"} => state = "in_progress"
    /\ pc = "failing" => state \in {"in_progress", "completed"}

\* While an import is delivered once, where its thread is tells its state.
PhaseInv ==
    /\ \A j \in jobs : j.id \notin redelivered => InPhase(j.pc, imports[j.id].state)
    /\ \A i \in Imports :
          msg[i].place = "queued" /\ i \notin redelivered =>
              imports[i].state = "scheduled"
    /\ \A i \in Imports : i > created => imports[i].state = "none"
    /\ duplicated \subseteq redelivered

\* Initially there is no thread, message or row.
LEMMA LiveInit == Init => LiveInv /\ PhaseInv
BY DEF Init, LiveInv, PhaseInv, InPhase, Ownership, RowsFresh, CheckSeesLiveImports

\* A thread that keeps its import and its message keeps the ownership.
LEMMA OwnershipKept ==
    ASSUME Ownership, NEW j \in jobs, NEW k,
           jobs' = (jobs \ {j}) \cup {k}, k.id = j.id, k.holds = j.holds,
           UNCHANGED <<msg, created, duplicated>>
    PROVE  Ownership'
BY DEF Ownership

\* Threads of one import that is not duplicated are one thread.
LEMMA OneThread ==
    ASSUME TypeInv, Ownership, NEW j \in jobs, NEW k \in jobs,
           j.id = k.id, j.id \notin duplicated
    PROVE  j = k
<1>1. j.holds /\ k.holds
  BY JobSteps DEF Ownership, TypeInv, TypeOK
<1> QED
  BY <1>1 DEF Ownership

\* A thread past its check saw no rival, whatever it does next.
LEMMA RivalsKept ==
    ASSUME CheckSeesLiveImports, NEW j \in jobs, NEW k,
           jobs' = (jobs \ {j}) \cup {k}, k.rivals = j.rivals,
           k.pc \in {"listed", "importing", "imported"} =>
              j.pc \in {"listed", "importing", "imported"},
           duplicated \subseteq duplicated'
    PROVE  CheckSeesLiveImports'
BY DEF CheckSeesLiveImports

\* A thread that does not import changes no row but its own.
LEMMA FreshKept ==
    ASSUME TypeInv, Ownership, RowsFresh, NEW j \in jobs, NEW k,
           jobs' = (jobs \ {j}) \cup {k}, k.id = j.id, k.pc # "importing",
           \A i \in Imports : i # j.id => imports'[i] = imports[i],
           UNCHANGED duplicated, faults' \in {faults, faults + 1}
    PROVE  RowsFresh'
<1> SUFFICES ASSUME NEW l \in jobs', l.pc = "importing", l.id \notin duplicated'
             PROVE  /\ imports'[l.id].state = "in_progress"
                    /\ imports'[l.id].updated_age =< faults' + (IF l.beat THEN 0 ELSE 1)
  BY DEF RowsFresh
<1>1. l \in jobs /\ l # j
  OBVIOUS
<1>2. l.id # j.id /\ l.id \in Imports
  <2>1. j \in Job /\ l \in Job /\ l.id \in Imports
    BY <1>1, JobSteps DEF TypeInv, TypeOK
  <2>2. l.id # j.id
    BY <1>1, OneThread
  <2> QED  BY <2>1, <2>2
<1>3. imports'[l.id] = imports[l.id]
  BY <1>2
<1>4. imports[l.id].updated_age \in Nat /\ faults \in Nat
  BY <1>2, ThresholdAssumption, LimitAssumption DEF TypeInv, TypeOK, Row
<1> QED
  BY <1>1, <1>3, <1>4 DEF RowsFresh

\* edit() changes one row.
LEMMA OtherRows ==
    ASSUME TypeInv, NEW i \in Imports, NEW state \in ImportStates, Edit(i, state)
    PROVE  /\ \A k \in Imports : k # i => imports'[k] = imports[k]
           /\ imports'[i].state = state
           /\ imports'[i].updated_age = 0
BY RowSteps DEF TypeInv, TypeOK, Edit

\* Requests, the broker and the clock keep LiveInv: only the clock ages a row,
\* and it waits for the heartbeats.
LEMMA OutsideLive ==
    ASSUME TypeInv, LiveInv, RestApi \/ Broker \/ Tick
    PROVE  LiveInv'
<1> USE DEF LiveInv
<1>j. \A j \in jobs : j \in Job /\ j.id \in Imports /\ j.beat \in BOOLEAN
  BY JobSteps DEF TypeInv, TypeOK
<1>1. ASSUME NEW recalculate \in BOOLEAN, Create(recalculate)
      PROVE  LiveInv'
  <2>1. /\ created' = created + 1 /\ created \in Nat /\ created + 1 \in Imports
        /\ \A i \in Imports : i # created + 1 => /\ imports'[i] = imports[i]
                                                 /\ msg'[i].place = msg[i].place
        /\ faults' \in {faults, faults + 1}
        /\ UNCHANGED <<jobs, duplicated>>
    BY <1>1, LimitAssumption
    DEF Create, CountFault, TypeInv, TypeOK, Imports, historyVars
  <2>2. \A j \in jobs : j.id # created + 1 /\ j.id =< created + 1
    BY <1>j, <2>1, LimitAssumption DEF Ownership, Imports
  <2>3. Ownership'
    <3>1. \A i \in Imports : msg'[i].place # "none" => i =< created'
      BY <2>1, LimitAssumption DEF Ownership, Imports
    <3>2. \A j \in jobs : j.holds => msg'[j.id].place = "held"
      BY <1>j, <2>1, <2>2 DEF Ownership
    <3> QED
      BY <2>1, <2>2, <3>1, <3>2 DEF Ownership
  <2>4. RowsFresh'
    <3>1. \A j \in jobs : imports'[j.id] = imports[j.id]
      BY <1>j, <2>1, <2>2
    <3>2. \A j \in jobs : imports[j.id].updated_age \in Nat
      BY <1>j, ThresholdAssumption DEF TypeInv, TypeOK, Row
    <3>3. faults \in Nat
      BY LimitAssumption DEF TypeInv, TypeOK
    <3> QED
      BY <2>1, <3>1, <3>2, <3>3 DEF RowsFresh
  <2>5. CheckSeesLiveImports'
    BY <2>1 DEF CheckSeesLiveImports
  <2> QED
    BY <2>3, <2>4, <2>5
<1>2. CASE CheckSchedule
  BY <1>2 DEF CheckSchedule, Ownership, RowsFresh, CheckSeesLiveImports, rowVars, historyVars
<1>3. CASE Schedule
  BY <1>1, <1>3 DEF Schedule
<1>4. CASE CompleteUpload \/ Recalculate
  BY <1>1, <1>4 DEF CompleteUpload, Recalculate
<1>5. ASSUME NEW i \in Imports, Receive(i)
      PROVE  LiveInv'
  <2> DEFINE new == [id |-> i, n |-> msg[i].n + 1, pc |-> "received", beat |-> FALSE,
                     holds |-> TRUE, rivals |-> {}]
  <2>1. /\ jobs' = jobs \cup {new} /\ msg[i].place = "queued"
        /\ UNCHANGED <<imports, created, faults, duplicated>>
    BY <1>5 DEF Receive, rowVars, historyVars
  <2>2. new.id = i /\ new.holds = TRUE /\ new.pc = "received"
    OBVIOUS
  <2> HIDE DEF new
  <2>3. /\ \A k \in Imports : k # i => msg'[k] = msg[k]
        /\ msg'[i].place = "held"
    <3>1. msg' = [msg EXCEPT ![i] = Delivered(msg[i])] /\ Delivered(msg[i]).place = "held"
      BY <1>5, MessageSteps DEF Receive, TypeInv, TypeOK
    <3> QED
      BY <3>1 DEF TypeInv, TypeOK
  <2>4. \A j \in jobs : j.holds => j.id # i
    BY <2>1 DEF Ownership
  <2>5. Ownership'
    BY <1>j, <2>1, <2>2, <2>3, <2>4 DEF Ownership
  <2>6. RowsFresh' /\ CheckSeesLiveImports'
    BY <2>1, <2>2 DEF RowsFresh, CheckSeesLiveImports
  <2> QED
    BY <2>5, <2>6
<1>6. ASSUME NEW i \in Imports, Expire(i)
      PROVE  LiveInv'
  <2>1. /\ msg[i].place = "queued"
        /\ UNCHANGED <<imports, created, jobs, faults, duplicated>>
    BY <1>6 DEF Expire, rowVars, historyVars
  <2>2. /\ \A k \in Imports : k # i => msg'[k] = msg[k]
        /\ msg'[i].place = "none"
    <3>1. msg' = [msg EXCEPT ![i] = Removed(msg[i])] /\ Removed(msg[i]).place = "none"
      BY <1>6, MessageSteps DEF Expire, TypeInv, TypeOK
    <3> QED
      BY <3>1 DEF TypeInv, TypeOK
  <2>3. \A j \in jobs : j.holds => j.id # i
    BY <2>1 DEF Ownership
  <2> QED
    BY <1>j, <2>1, <2>2, <2>3 DEF Ownership, RowsFresh, CheckSeesLiveImports
<1>7. CASE Tick
  <2>1. \A k \in jobs' : \E j \in jobs :
           /\ k.id = j.id /\ k.holds = j.holds /\ k.pc = j.pc
           /\ k.rivals = j.rivals /\ k.beat = FALSE
           /\ k = [j EXCEPT !.beat = FALSE]
    <3> SUFFICES ASSUME NEW k \in jobs'
                 PROVE  \E j \in jobs :
                          /\ k.id = j.id /\ k.holds = j.holds /\ k.pc = j.pc
                          /\ k.rivals = j.rivals /\ k.beat = FALSE
                          /\ k = [j EXCEPT !.beat = FALSE]
      OBVIOUS
    <3>1. PICK j \in jobs : k = [j EXCEPT !.beat = FALSE]
      BY <1>7 DEF Tick
    <3>2. /\ k.id = j.id /\ k.holds = j.holds /\ k.pc = j.pc
          /\ k.rivals = j.rivals /\ k.beat = FALSE
      BY <1>j, <3>1, JobSteps
    <3> QED
      BY <3>1, <3>2
  <2>2. /\ \A i \in Imports : msg'[i].place = msg[i].place
        /\ UNCHANGED <<created, faults, duplicated>>
    <3>1. \A i \in Imports : msg[i] \in Message
      BY DEF TypeInv, TypeOK
    <3>2. \A i \in Imports : msg'[i].place = msg[i].place
      BY <1>7, <3>1 DEF Tick, Message
    <3> QED
      BY <1>7, <3>2 DEF Tick, historyVars
  <2>3. Ownership'
    <3>1. ASSUME NEW k \in jobs', NEW l \in jobs', k.holds, l.holds, k.id = l.id
          PROVE  k = l
      <4>1. PICK j \in jobs : k.id = j.id /\ k.holds = j.holds /\ k = [j EXCEPT !.beat = FALSE]
        BY <2>1
      <4>2. PICK m \in jobs : l.id = m.id /\ l.holds = m.holds /\ l = [m EXCEPT !.beat = FALSE]
        BY <2>1
      <4>3. j = m
        BY <3>1, <4>1, <4>2 DEF Ownership
      <4> QED
        BY <4>1, <4>2, <4>3, Zenon
    <3>2. \A k \in jobs' : /\ k.id =< created'
                           /\ k.holds => msg'[k.id].place = "held"
                           /\ ~k.holds => k.id \in duplicated'
      BY <1>j, <2>1, <2>2 DEF Ownership
    <3> QED
      BY <2>2, <3>1, <3>2 DEF Ownership
  <2>4. RowsFresh'
    <3> SUFFICES ASSUME NEW k \in jobs', k.pc = "importing", k.id \notin duplicated'
                 PROVE  /\ imports'[k.id].state = "in_progress"
                        /\ imports'[k.id].updated_age =< faults' + (IF k.beat THEN 0 ELSE 1)
      BY DEF RowsFresh
    <3>1. PICK j \in jobs : k.id = j.id /\ j.pc = "importing" /\ k.beat = FALSE
      BY <2>1
    <3>2. j.beat
      BY <1>7, <3>1 DEF Tick
    <3>3. /\ imports[j.id] \in Row /\ imports[j.id].state = "in_progress"
          /\ imports[j.id].updated_age =< faults /\ faults \in Nat
      BY <1>j, <2>2, <3>1, <3>2, LimitAssumption DEF RowsFresh, TypeInv, TypeOK
    <3>4. imports'[j.id] = [imports[j.id] EXCEPT !.updated_age =
                              Older(imports[j.id].updated_age, ACTIVE_IMPORT_THRESHOLD + 1)]
      BY <1>7, <1>j, <3>3 DEF Tick
    <3>5. /\ imports'[j.id].state = "in_progress"
          /\ imports'[j.id].updated_age =< imports[j.id].updated_age + 1
          /\ imports[j.id].updated_age \in Nat
          /\ imports'[j.id].updated_age \in Nat
      BY <3>3, <3>4, ThresholdAssumption DEF Row, Older
    <3> QED
      BY <2>2, <3>1, <3>3, <3>5
  <2>5. CheckSeesLiveImports'
    BY <2>1, <2>2 DEF CheckSeesLiveImports
  <2> QED
    BY <2>3, <2>4, <2>5
<1> QED
  BY <1>2, <1>3, <1>4, <1>5, <1>6, <1>7 DEF RestApi, Broker

\* A thread that leaves the import phase, or never was in it, keeps LiveInv.
LEMMA MoveLive ==
    ASSUME TypeInv, LiveInv, NEW j \in jobs,
           NEW pc \in PCs \ {"listed", "importing"},
           Move(j, pc),
           pc = "imported" => j.pc = "importing",
           \A i \in Imports : i # j.id => imports'[i] = imports[i],
           faults' \in {faults, faults + 1},
           UNCHANGED <<msg, created, duplicated>>
    PROVE  LiveInv'
<1> DEFINE k == [j EXCEPT !.pc = pc]
<1>1. /\ jobs' = (jobs \ {j}) \cup {k} /\ k.id = j.id /\ k.holds = j.holds
      /\ k.pc = pc /\ k.rivals = j.rivals
  BY JobSteps DEF Move, TypeInv, TypeOK
<1> HIDE DEF k
<1>2. Ownership'
  BY <1>1, OwnershipKept DEF LiveInv
<1>3. RowsFresh'
  BY <1>1, FreshKept DEF LiveInv
<1>4. CheckSeesLiveImports'
  BY <1>1, RivalsKept DEF LiveInv, PCs
<1> QED
  BY <1>2, <1>3, <1>4 DEF LiveInv

\* The threads keep LiveInv.  The check itself: a live import of another id
\* has a fresh row in progress, so a thread that goes on had no rival.
LEMMA JobLive ==
    ASSUME TypeInv, LiveInv, NEW j \in jobs,
           Thread(j) \/ Beat(j) \/ Crash(j) \/ Disconnect(j)
    PROVE  LiveInv'
<1> USE DEF LiveInv
<1>t. /\ j \in Job /\ j.id \in Imports /\ faults \in Nat
      /\ \A l \in jobs : l \in Job /\ l.id \in Imports /\ l.beat \in BOOLEAN
      /\ \A i \in Imports : imports[i] \in Row /\ imports[i].updated_age \in Nat
  <2>1. \A l \in jobs : l \in Job /\ l.id \in Imports /\ l.beat \in BOOLEAN
    BY JobSteps DEF TypeInv, TypeOK
  <2>2. \A i \in Imports : imports[i] \in Row /\ imports[i].updated_age \in Nat
    BY ThresholdAssumption DEF TypeInv, TypeOK, Row
  <2>3. faults \in Nat
    BY LimitAssumption DEF TypeInv, TypeOK
  <2> QED
    BY <2>1, <2>2, <2>3
<1>e. ASSUME NEW state \in ImportStates, Edit(j.id, state)
      PROVE  \A i \in Imports : i # j.id => imports'[i] = imports[i]
  BY <1>t, <1>e, OtherRows
<1>f. CountFault => faults' \in {faults, faults + 1}
  BY DEF CountFault
<1>1. CASE ListActive(j)
  <2> DEFINE pc == IF Active \ {j.id} = {} THEN "listed" ELSE "blocked"
             r == {l.id : l \in Importing} \ {j.id}
             k == Listed(j, pc, r)
  <2>1. pc \in PCs /\ r \in SUBSET Imports
    BY <1>t DEF PCs, Importing
  <2>2. /\ jobs' = (jobs \ {j}) \cup {k} /\ k.id = j.id /\ k.holds = j.holds
        /\ k.pc = pc /\ k.rivals = r
    BY <1>1, <1>t, <2>1, ListedJob DEF ListActive
  <2>3. UNCHANGED <<imports, msg, created, duplicated, faults>>
    BY <1>1 DEF ListActive, rowVars, historyVars
  <2>4. pc = "listed" => r \subseteq duplicated
    <3> SUFFICES ASSUME Active \ {j.id} = {}, NEW l \in Importing,
                        l.id # j.id, l.id \notin duplicated
                 PROVE  FALSE
      OBVIOUS
    <3>1. /\ l \in jobs /\ imports[l.id].state = "in_progress"
          /\ imports[l.id].updated_age =< faults + 1
      BY <1>t DEF Importing, RowsFresh
    <3>2. faults + 1 =< ACTIVE_IMPORT_THRESHOLD
      BY HeartbeatAssumption, LimitAssumption, ThresholdAssumption DEF TypeInv, TypeOK
    <3>3. l.id \in Active
      BY <1>t, <3>1, <3>2, ThresholdAssumption DEF Active
    <3> QED
      BY <3>3
  <2> HIDE DEF k
  <2>5. k.pc # "importing" /\ k.pc # "imported" /\ (k.pc = "listed" => k.rivals \subseteq duplicated)
    BY <2>2, <2>4
  <2> HIDE DEF r, pc
  <2>6. Ownership'
    BY <2>2, <2>3, OwnershipKept
  <2>7. RowsFresh'
    BY <2>2, <2>3, <2>5, FreshKept
  <2>8. CheckSeesLiveImports'
    BY <2>2, <2>3, <2>5 DEF CheckSeesLiveImports
  <2> QED
    BY <2>6, <2>7, <2>8
<1>2. CASE Cancel(j)
  BY <1>2, <1>e, MoveLive DEF Cancel, PCs, ImportStates, historyVars
<1>3. CASE Begin(j)
  <2> DEFINE k == [j EXCEPT !.pc = "importing"]
  <2>1. /\ jobs' = (jobs \ {j}) \cup {k} /\ k.id = j.id /\ k.holds = j.holds
        /\ k.pc = "importing" /\ k.rivals = j.rivals /\ j.pc = "listed"
    BY <1>3, <1>t, JobSteps DEF Begin, Move, PCs
  <2>2. UNCHANGED <<msg, created, duplicated, faults>>
    BY <1>3 DEF Begin, historyVars
  <2>3. /\ \A i \in Imports : i # j.id => imports'[i] = imports[i]
        /\ imports'[j.id].state = "in_progress"
        /\ imports'[j.id].updated_age = 0
    BY <1>3, <1>t, OtherRows DEF Begin, ImportStates
  <2> HIDE DEF k
  <2>4. Ownership'
    BY <2>1, <2>2, OwnershipKept
  <2>5. RowsFresh'
    <3> SUFFICES ASSUME NEW l \in jobs', l.pc = "importing", l.id \notin duplicated'
                 PROVE  /\ imports'[l.id].state = "in_progress"
                        /\ imports'[l.id].updated_age =< faults' + (IF l.beat THEN 0 ELSE 1)
      BY DEF RowsFresh
    <3>1. CASE l.id = j.id
      BY <1>t, <2>2, <2>3, <3>1
    <3>2. CASE l.id # j.id
      <4>1. l \in jobs /\ imports'[l.id] = imports[l.id]
        BY <1>t, <2>1, <2>3, <3>2
      <4> QED
        BY <2>2, <4>1 DEF RowsFresh
    <3> QED
      BY <3>1, <3>2
  <2>6. CheckSeesLiveImports'
    BY <2>1, <2>2, RivalsKept
  <2> QED
    BY <2>4, <2>5, <2>6
<1>4. CASE SetupRaises(j)
  <2>1. \A i \in Imports : i # j.id => imports'[i] = imports[i]
    BY <1>4, <1>e DEF SetupRaises, ImportStates
  <2> QED
    BY <1>4, <1>f, <2>1, MoveLive DEF SetupRaises, PCs, historyVars
<1>5. CASE Import(j)
  BY <1>5, MoveLive DEF Import, PCs, rowVars, historyVars
<1>6. CASE SetCompleted(j)
  BY <1>6, <1>e, MoveLive DEF SetCompleted, EditCompleted, PCs, ImportStates, historyVars
<1>7. CASE CompletedRaises(j)
  <2>1. \A i \in Imports : i # j.id => imports'[i] = imports[i]
    BY <1>7, <1>e DEF CompletedRaises, EditCompleted, ImportStates
  <2> QED
    BY <1>7, <1>f, <2>1, MoveLive DEF CompletedRaises, PCs
<1>8. CASE SetFailed(j)
  BY <1>8, <1>e, MoveLive DEF SetFailed, PCs, ImportStates, historyVars
<1>9. CASE FailedRaises(j)
  BY <1>9, <1>f, MoveLive DEF FailedRaises, PCs, rowVars, historyVars
<1>10. CASE Ack(j) \/ Crash(j)
  <2>1. /\ jobs' = jobs \ {j}
        /\ UNCHANGED <<imports, created, faults, duplicated>>
    BY <1>10 DEF Ack, Crash, rowVars, historyVars
  <2>2. /\ \A i \in Imports : i # j.id => msg'[i] = msg[i]
        /\ ~j.holds => UNCHANGED msg
    BY <1>10, <1>t DEF Ack, Crash, TypeInv, TypeOK
  <2>3. \A i \in Imports : msg'[i].place # "none" => i =< created
    <3>1. j.id =< created
      BY DEF Ownership
    <3> QED
      BY <2>2, <3>1 DEF Ownership
  <2>4. \A l \in jobs' : l.holds => msg'[l.id].place = "held"
    BY <1>t, <2>1, <2>2 DEF Ownership
  <2>5. Ownership'
    BY <2>1, <2>3, <2>4 DEF Ownership
  <2> QED
    BY <2>1, <2>5 DEF RowsFresh, CheckSeesLiveImports
<1>11. CASE Disconnect(j)
  <2> DEFINE k == [j EXCEPT !.holds = FALSE]
  <2>1. /\ jobs' = (jobs \ {j}) \cup {k} /\ k.id = j.id /\ k.holds = FALSE
        /\ k.pc = j.pc /\ k.rivals = j.rivals /\ j.holds
    BY <1>11, <1>t, JobSteps DEF Disconnect
  <2>2. /\ duplicated' = duplicated \cup {j.id}
        /\ UNCHANGED <<imports, created, faults>>
        /\ \A i \in Imports : i # j.id => msg'[i] = msg[i]
    BY <1>11, <1>t DEF Disconnect, rowVars, TypeInv, TypeOK
  <2> HIDE DEF k
  <2>3. \A l \in jobs' : l.holds => l \in jobs /\ l.id # j.id
    BY <2>1 DEF Ownership
  <2>4. Ownership'
    <3>1. \A i \in Imports : msg'[i].place # "none" => i =< created'
      BY <2>2 DEF Ownership
    <3>2. \A l \in jobs' : l.holds => msg'[l.id].place = "held"
      BY <1>t, <2>2, <2>3 DEF Ownership
    <3>3. \A l \in jobs' : l.id =< created' /\ (~l.holds => l.id \in duplicated')
      BY <2>1, <2>2 DEF Ownership
    <3> QED
      BY <2>3, <3>1, <3>2, <3>3 DEF Ownership
  <2>5. RowsFresh'
    BY <2>1, <2>2 DEF RowsFresh
  <2>6. CheckSeesLiveImports'
    BY <2>1, <2>2, RivalsKept
  <2> QED
    BY <2>4, <2>5, <2>6
<1>12. CASE Beat(j)
  <2> DEFINE k == [j EXCEPT !.beat = TRUE]
  <2>1. /\ jobs' = (jobs \ {j}) \cup {k} /\ k.id = j.id /\ k.holds = j.holds
        /\ k.pc = j.pc /\ k.rivals = j.rivals /\ k.beat = TRUE /\ ~j.beat
    BY <1>12, <1>t, JobSteps DEF Beat, Heartbeat, HeartbeatFails, Beating
  <2>2. UNCHANGED <<msg, created, duplicated>>
    BY <1>12 DEF Beat, Heartbeat, HeartbeatFails, rowVars, historyVars
  <2>3. \A i \in Imports : i # j.id => imports'[i] = imports[i]
    BY <1>12, <1>t DEF Beat, Heartbeat, HeartbeatFails, rowVars, TypeInv, TypeOK
  <2>4. /\ imports'[j.id].state = imports[j.id].state
        /\ \/ imports'[j.id].updated_age = 0 /\ faults' = faults
           \/ imports'[j.id] = imports[j.id] /\ faults' = faults + 1
    BY <1>12, <1>t, RowSteps
    DEF Beat, Heartbeat, HeartbeatFails, CountFault, rowVars, TypeInv, TypeOK
  <2> HIDE DEF k
  <2>5. Ownership'
    BY <2>1, <2>2, OwnershipKept
  <2>6. RowsFresh'
    <3> SUFFICES ASSUME NEW l \in jobs', l.pc = "importing", l.id \notin duplicated'
                 PROVE  /\ imports'[l.id].state = "in_progress"
                        /\ imports'[l.id].updated_age =< faults' + (IF l.beat THEN 0 ELSE 1)
      BY DEF RowsFresh
    <3>1. CASE l = k
      <4>1. /\ imports[j.id].state = "in_progress"
            /\ imports[j.id].updated_age =< faults + 1
        BY <2>1, <2>2, <3>1 DEF RowsFresh
      <4> QED
        BY <1>t, <2>1, <2>4, <3>1, <4>1
    <3>2. CASE l # k
      <4>1. l \in jobs /\ l # j /\ l.id # j.id
        BY <2>1, <2>2, <3>2, OneThread
      <4>2. imports'[l.id] = imports[l.id]
        BY <1>t, <2>3, <4>1
      <4>3. faults' \in {faults, faults + 1}
        BY <2>4
      <4> QED
        BY <1>t, <2>2, <4>1, <4>2, <4>3 DEF RowsFresh
    <3> QED
      BY <3>1, <3>2
  <2>7. CheckSeesLiveImports'
    BY <2>1, <2>2, RivalsKept
  <2> QED
    BY <2>5, <2>6, <2>7
<1> QED
  BY <1>1, <1>2, <1>3, <1>4, <1>5, <1>6, <1>7, <1>8, <1>9, <1>10, <1>11, <1>12 DEF Thread

\* Every step keeps LiveInv.
LEMMA LiveStep == TypeInv /\ LiveInv /\ [Next]_vars => LiveInv'
<1> SUFFICES ASSUME TypeInv, LiveInv, [Next]_vars
             PROVE  LiveInv'
  OBVIOUS
<1>1. CASE UNCHANGED vars
  BY <1>1 DEF vars, LiveInv, Ownership, RowsFresh, CheckSeesLiveImports
<1>2. CASE Next
  BY <1>2, OutsideLive, JobLive DEF Next
<1> QED
  BY <1>1, <1>2

(***************************************************************************)
(* report_import's check of the active imports is sound for any number of  *)
(* imports, threads, crashes and retries, as long as fewer heartbeats are  *)
(* missed than fit into ACTIVE_IMPORT_THRESHOLD (HeartbeatAssumption).     *)
(***************************************************************************)
THEOREM LiveImportsSeen == Spec => []CheckSeesLiveImports
<1>1. LiveInv => CheckSeesLiveImports
  BY DEF LiveInv
<1> QED
  BY <1>1, TypeInit, LiveInit, TypeStep, LiveStep, PTL DEF Spec

-----------------------------------------------------------------------------
(* The outcome of an import.                                                *)

\* A thread that moves on within its phase keeps PhaseInv and every outcome.
LEMMA PhaseKept ==
    ASSUME TypeInv, Ownership, PhaseInv, NEW j \in jobs, NEW k,
           jobs' = (jobs \ {j}) \cup {k}, k.id = j.id,
           \A i \in Imports : i # j.id => imports'[i] = imports[i],
           UNCHANGED <<msg, created, redelivered, duplicated>>,
           j.id \notin redelivered =>
              /\ InPhase(k.pc, imports'[j.id].state)
              /\ imports[j.id].state = "failed" => imports'[j.id].state = "failed"
              /\ imports[j.id].state = "completed" =>
                    imports'[j.id].state \in {"completed", "failed"}
    PROVE  PhaseInv' /\ OutcomeKept
<1>t. j.id \in Imports /\ j.id \in Nat /\ created \in Nat /\ j.id =< created
  <2>1. j.id \in Imports
    BY JobSteps DEF TypeInv, TypeOK
  <2>2. j.id \in Nat /\ created \in Nat
    BY <2>1, LimitAssumption DEF Imports, TypeInv, TypeOK
  <2> QED
    BY <2>1, <2>2 DEF Ownership
<1>1. ASSUME NEW l \in jobs', l.id \notin redelivered
      PROVE  InPhase(l.pc, imports'[l.id].state)
  <2>1. CASE l = k
    BY <1>1, <2>1
  <2>2. CASE l # k
    <3>1. l \in jobs /\ l # j /\ l.id \notin duplicated /\ l.id \in Imports
      BY <1>1, <2>2, JobSteps DEF PhaseInv, TypeInv, TypeOK
    <3>2. l.id # j.id
      BY <3>1, OneThread
    <3> QED
      BY <1>1, <3>1, <3>2 DEF PhaseInv
  <2> QED
    BY <2>1, <2>2
<1>2. ASSUME NEW i \in Imports, msg[i].place = "queued", i \notin redelivered
      PROVE  imports'[i].state = "scheduled"
  <2>1. i # j.id
    BY <1>2, JobSteps DEF Ownership, PhaseInv, TypeInv, TypeOK
  <2> QED
    BY <1>2, <2>1 DEF PhaseInv
<1>3. ASSUME NEW i \in Imports, i > created
      PROVE  imports'[i].state = "none"
  <2>1. i # j.id
    BY <1>3, <1>t DEF Imports
  <2> QED
    BY <1>3, <2>1 DEF PhaseInv
<1>4. OutcomeKept
  BY <1>t DEF OutcomeKept
<1> QED
  BY <1>1, <1>2, <1>3, <1>4 DEF PhaseInv

\* Requests, the broker and the clock change no outcome.
LEMMA OutsidePhase ==
    ASSUME TypeInv, Ownership, PhaseInv, RestApi \/ Broker \/ Tick
    PROVE  PhaseInv' /\ OutcomeKept
<1>j. \A j \in jobs : j \in Job /\ j.id \in Imports /\ j.id =< created
  BY JobSteps DEF TypeInv, TypeOK, Ownership
<1>c. created \in Nat
  BY LimitAssumption DEF TypeInv, TypeOK
<1>1. ASSUME NEW recalculate \in BOOLEAN, Create(recalculate)
      PROVE  PhaseInv' /\ OutcomeKept
  <2>1. /\ created' = created + 1 /\ created + 1 \in Imports
        /\ \A i \in Imports : i # created + 1 => /\ imports'[i] = imports[i]
                                                 /\ msg'[i] = msg[i]
        /\ imports'[created + 1].state = "scheduled"
        /\ UNCHANGED <<jobs, redelivered, duplicated>>
    BY <1>1, LimitAssumption DEF Create, TypeInv, TypeOK, Imports, historyVars
  <2>2. imports[created + 1].state = "none"
    BY <1>c, <2>1 DEF PhaseInv, Imports
  <2>3. \A j \in jobs : imports'[j.id] = imports[j.id]
    BY <1>j, <1>c, <2>1 DEF Imports
  <2>4. \A i \in Imports : i > created' => i > created /\ i # created + 1
    BY <1>c, <2>1 DEF Imports
  <2>5. PhaseInv'
    BY <2>1, <2>3, <2>4 DEF PhaseInv
  <2>6. OutcomeKept
    BY <2>1, <2>2 DEF OutcomeKept
  <2> QED
    BY <2>5, <2>6
<1>2. CASE CheckSchedule
  BY <1>2 DEF CheckSchedule, PhaseInv, OutcomeKept, rowVars, historyVars
<1>3. CASE Schedule
  BY <1>1, <1>3 DEF Schedule
<1>4. CASE CompleteUpload \/ Recalculate
  BY <1>1, <1>4 DEF CompleteUpload, Recalculate
<1>5. ASSUME NEW i \in Imports, Receive(i)
      PROVE  PhaseInv' /\ OutcomeKept
  <2> DEFINE new == [id |-> i, n |-> msg[i].n + 1, pc |-> "received", beat |-> FALSE,
                     holds |-> TRUE, rivals |-> {}]
  <2>1. /\ jobs' = jobs \cup {new} /\ new.id = i /\ new.pc = "received"
        /\ msg[i].place = "queued"
        /\ UNCHANGED <<imports, created, redelivered, duplicated>>
    BY <1>5 DEF Receive, rowVars, historyVars
  <2> HIDE DEF new
  <2>2. \A k \in Imports : msg'[k].place = "queued" => msg[k].place = "queued"
    <3>1. msg' = [msg EXCEPT ![i] = Delivered(msg[i])]
      BY <1>5 DEF Receive
    <3> QED
      BY <2>1, <3>1 DEF TypeInv, TypeOK
  <2>3. i \notin redelivered => InPhase("received", imports[i].state)
    BY <2>1 DEF PhaseInv, InPhase
  <2> QED
    BY <2>1, <2>2, <2>3 DEF PhaseInv, OutcomeKept
<1>6. ASSUME NEW i \in Imports, Expire(i)
      PROVE  PhaseInv' /\ OutcomeKept
  <2>1. /\ msg[i].place = "queued"
        /\ UNCHANGED <<imports, created, jobs, redelivered, duplicated>>
        /\ msg' = [msg EXCEPT ![i] = Removed(msg[i])]
    BY <1>6 DEF Expire, rowVars, historyVars
  <2>2. \A k \in Imports : msg'[k].place = "queued" => msg[k].place = "queued"
    BY <2>1 DEF TypeInv, TypeOK
  <2> QED
    BY <2>1, <2>2 DEF PhaseInv, OutcomeKept
<1>7. CASE Tick
  <2>1. \A i \in Imports : imports'[i].state = imports[i].state
    <3>1. \A i \in Imports : imports[i] \in Row
      BY DEF TypeInv, TypeOK
    <3> QED
      BY <1>7, <3>1 DEF Tick, Row
  <2>2. \A i \in Imports : msg'[i].place = msg[i].place
    <3>1. \A i \in Imports : msg[i] \in Message
      BY DEF TypeInv, TypeOK
    <3> QED
      BY <1>7, <3>1 DEF Tick, Message
  <2>3. \A k \in jobs' : \E j \in jobs : k.id = j.id /\ k.pc = j.pc
    <3> SUFFICES ASSUME NEW k \in jobs'
                 PROVE  \E j \in jobs : k.id = j.id /\ k.pc = j.pc
      OBVIOUS
    <3>1. PICK j \in jobs : k = [j EXCEPT !.beat = FALSE]
      BY <1>7 DEF Tick
    <3>2. k.id = j.id /\ k.pc = j.pc
      BY <1>j, <3>1, JobSteps
    <3> QED
      BY <3>2
  <2>4. UNCHANGED <<created, redelivered, duplicated>>
    BY <1>7 DEF Tick, historyVars
  <2>5. \A k \in jobs' : k.id \notin redelivered => InPhase(k.pc, imports'[k.id].state)
    BY <1>j, <2>1, <2>3 DEF PhaseInv
  <2> QED
    BY <2>1, <2>2, <2>4, <2>5 DEF PhaseInv, OutcomeKept
<1> QED
  BY <1>2, <1>3, <1>4, <1>5, <1>6, <1>7 DEF RestApi, Broker

\* A thread changes the outcome of its own import only, and only from the state
\* its phase stands for.
LEMMA JobPhase ==
    ASSUME TypeInv, Ownership, PhaseInv, NEW j \in jobs,
           Thread(j) \/ Beat(j) \/ Crash(j) \/ Disconnect(j)
    PROVE  PhaseInv' /\ OutcomeKept
<1>t. j \in Job /\ j.id \in Imports /\ \A i \in Imports : imports[i] \in Row
  BY JobSteps DEF TypeInv, TypeOK
<1>p. j.id \notin redelivered => InPhase(j.pc, imports[j.id].state)
  BY DEF PhaseInv
<1>e. ASSUME NEW state \in ImportStates, Edit(j.id, state)
      PROVE  /\ \A i \in Imports : i # j.id => imports'[i] = imports[i]
             /\ imports'[j.id].state = state
  BY <1>t, <1>e, OtherRows
<1>m. ASSUME NEW pc \in PCs, Move(j, pc)
      PROVE  \E k : jobs' = (jobs \ {j}) \cup {k} /\ k.id = j.id /\ k.pc = pc
  <2>1. LET k == [j EXCEPT !.pc = pc] IN k.id = j.id /\ k.pc = pc
    BY <1>t, JobSteps
  <2> QED
    BY <1>m, <2>1 DEF Move
<1>1. CASE ListActive(j)
  <2>1. PICK pc \in {"listed", "blocked"}, r \in SUBSET Imports :
           jobs' = (jobs \ {j}) \cup {Listed(j, pc, r)}
    <3>1. \A l \in jobs : l.id \in Imports
      BY JobSteps DEF TypeInv, TypeOK
    <3>2. {l.id : l \in Importing} \ {j.id} \in SUBSET Imports
      BY <3>1 DEF Importing
    <3> QED
      BY <1>1, <3>2 DEF ListActive
  <2>2. Listed(j, pc, r).id = j.id /\ Listed(j, pc, r).pc = pc
    BY <1>t, ListedJob DEF PCs
  <2>3. UNCHANGED <<imports, msg, created, redelivered, duplicated>> /\ j.pc = "received"
    BY <1>1 DEF ListActive, rowVars, historyVars
  <2>4. j.id \notin redelivered => InPhase(pc, imports[j.id].state)
    BY <1>p, <2>3 DEF InPhase
  <2> QED
    BY <2>1, <2>2, <2>3, <2>4, PhaseKept
<1>2. CASE Cancel(j)
  <2>1. PICK k : jobs' = (jobs \ {j}) \cup {k} /\ k.id = j.id /\ k.pc = "done"
    BY <1>2, <1>m DEF Cancel, PCs
  <2> QED
    BY <1>2, <1>e, <1>p, <2>1, PhaseKept DEF Cancel, InPhase, ImportStates, historyVars
<1>3. CASE Begin(j)
  <2>1. PICK k : jobs' = (jobs \ {j}) \cup {k} /\ k.id = j.id /\ k.pc = "importing"
    BY <1>3, <1>m DEF Begin, PCs
  <2> QED
    BY <1>3, <1>e, <1>p, <2>1, PhaseKept DEF Begin, InPhase, ImportStates, historyVars
<1>4. CASE SetupRaises(j)
  <2>1. PICK k : jobs' = (jobs \ {j}) \cup {k} /\ k.id = j.id /\ k.pc = "done"
    BY <1>4, <1>m DEF SetupRaises, PCs
  <2>2. /\ \A i \in Imports : i # j.id => imports'[i] = imports[i]
        /\ j.pc \in {"received", "listed", "blocked"}
    BY <1>4, <1>e DEF SetupRaises, ImportStates
  <2> QED
    BY <1>4, <1>p, <2>1, <2>2, PhaseKept DEF SetupRaises, InPhase, historyVars
<1>5. CASE Import(j)
  <2>1. PICK pc \in {"imported", "failing"} : Move(j, pc)
    BY <1>5 DEF Import
  <2>2. PICK k : jobs' = (jobs \ {j}) \cup {k} /\ k.id = j.id /\ k.pc = pc
    BY <1>m, <2>1 DEF PCs
  <2> QED
    BY <1>5, <1>p, <2>1, <2>2, PhaseKept DEF Import, InPhase, rowVars, historyVars
<1>6. CASE SetCompleted(j)
  <2>1. PICK k : jobs' = (jobs \ {j}) \cup {k} /\ k.id = j.id /\ k.pc = "done"
    BY <1>6, <1>m DEF SetCompleted, PCs
  <2> QED
    BY <1>6, <1>e, <1>p, <2>1, PhaseKept
    DEF SetCompleted, EditCompleted, InPhase, ImportStates, historyVars
<1>7. CASE CompletedRaises(j)
  <2>1. PICK k : jobs' = (jobs \ {j}) \cup {k} /\ k.id = j.id /\ k.pc = "failing"
    BY <1>7, <1>m DEF CompletedRaises, PCs
  <2>2. /\ \A i \in Imports : i # j.id => imports'[i] = imports[i]
        /\ imports'[j.id].state \in {imports[j.id].state, "completed"}
        /\ j.pc = "imported"
    BY <1>7, <1>e DEF CompletedRaises, EditCompleted, ImportStates
  <2> QED
    BY <1>7, <1>p, <2>1, <2>2, PhaseKept DEF CompletedRaises, InPhase
<1>8. CASE SetFailed(j)
  <2>1. PICK k : jobs' = (jobs \ {j}) \cup {k} /\ k.id = j.id /\ k.pc = "done"
    BY <1>8, <1>m DEF SetFailed, PCs
  <2> QED
    BY <1>8, <1>e, <1>p, <2>1, PhaseKept DEF SetFailed, InPhase, ImportStates, historyVars
<1>9. CASE FailedRaises(j)
  <2>1. PICK k : jobs' = (jobs \ {j}) \cup {k} /\ k.id = j.id /\ k.pc = "done"
    BY <1>9, <1>m DEF FailedRaises, PCs
  <2> QED
    BY <1>9, <1>p, <2>1, PhaseKept DEF FailedRaises, InPhase, rowVars, historyVars
<1>10. CASE Ack(j)
  <2>1. /\ jobs' = jobs \ {j}
        /\ UNCHANGED <<imports, created, redelivered, duplicated>>
        /\ msg' = msg \/ msg' = [msg EXCEPT ![j.id] = Removed(msg[j.id])]
    BY <1>10 DEF Ack, rowVars, historyVars
  <2>2. Removed(msg[j.id]).place = "none"
    BY DEF Removed
  <2>3. \A i \in Imports : msg'[i].place = "queued" => msg[i].place = "queued"
    BY <1>t, <2>1, <2>2 DEF TypeInv, TypeOK
  <2> QED
    BY <2>1, <2>3 DEF PhaseInv, OutcomeKept
<1>11. CASE Crash(j) \/ Disconnect(j)
  <2>1. /\ UNCHANGED <<imports, created>>
        /\ redelivered' = redelivered \cup {j.id}
        /\ duplicated' \subseteq duplicated \cup {j.id}
        /\ msg' = msg \/ msg' = [msg EXCEPT ![j.id] = Requeued(msg[j.id])]
    BY <1>11 DEF Crash, Disconnect, CountLoss, rowVars
  <2>2. \A i \in Imports : i # j.id => msg'[i] = msg[i]
    BY <2>1 DEF TypeInv, TypeOK
  <2>3. \A l \in jobs' : l \in jobs \/ l.id = j.id
    <3>1. LET k == [j EXCEPT !.holds = FALSE] IN k.id = j.id
      BY <1>t, JobSteps
    <3> QED
      BY <1>11, <3>1 DEF Crash, Disconnect
  <2> QED
    BY <2>1, <2>2, <2>3 DEF PhaseInv, OutcomeKept
<1>12. CASE Beat(j)
  <2> DEFINE k == [j EXCEPT !.beat = TRUE]
  <2>1. jobs' = (jobs \ {j}) \cup {k} /\ k.id = j.id /\ k.pc = j.pc
    BY <1>12, <1>t, JobSteps DEF Beat, Heartbeat, HeartbeatFails
  <2>2. /\ UNCHANGED <<msg, created, redelivered, duplicated>>
        /\ imports' = imports \/ imports' = [imports EXCEPT ![j.id] = Touched(imports[j.id])]
    BY <1>12 DEF Beat, Heartbeat, HeartbeatFails, rowVars, historyVars
  <2>3. /\ \A i \in Imports : i # j.id => imports'[i] = imports[i]
        /\ imports'[j.id].state = imports[j.id].state
    BY <1>t, <2>2, RowSteps DEF TypeInv, TypeOK
  <2> HIDE DEF k
  <2> QED
    BY <1>p, <2>1, <2>2, <2>3, PhaseKept
<1> QED
  BY <1>1, <1>2, <1>3, <1>4, <1>5, <1>6, <1>7, <1>8, <1>9, <1>10, <1>11, <1>12 DEF Thread

\* Every step keeps PhaseInv and the outcomes.
LEMMA PhaseStep ==
    TypeInv /\ LiveInv /\ PhaseInv /\ [Next]_vars => PhaseInv' /\ [OutcomeKept]_vars
<1> SUFFICES ASSUME TypeInv, LiveInv, PhaseInv, [Next]_vars
             PROVE  PhaseInv' /\ [OutcomeKept]_vars
  OBVIOUS
<1>1. CASE UNCHANGED vars
  BY <1>1 DEF vars, PhaseInv
<1>2. CASE Next
  BY <1>2, OutsidePhase, JobPhase DEF Next, LiveInv
<1> QED
  BY <1>1, <1>2

(***************************************************************************)
(* The outcome rest_api shows for an import is final: no interleaving of   *)
(* requests, threads, heartbeats and failed calls reopens a finished       *)
(* import whose message was delivered once.                                *)
(***************************************************************************)
THEOREM OutcomesFinal == Spec => OutcomeIsFinal
BY TypeInit, LiveInit, TypeStep, LiveStep, PhaseStep, PTL DEF Spec, OutcomeIsFinal

-----------------------------------------------------------------------------
(* The first completed import.                                              *)

\* A thread that is about to report a failure did not complete its import.
NoCompletedFailure ==
    \A j \in jobs : j.pc = "failing" => imports[j.id].state # "completed"

\* FirstImportRequestsRun says nothing while a recalculation is completed, so it
\* also rests on completed imports staying completed.
RequestInv ==
    redelivered = {} /\ halfway = {} => NoCompletedFailure /\ FirstImportRequestsRun

LEMMA RequestInit == Init => RequestInv
BY DEF Init, RequestInv, NoCompletedFailure, FirstImportRequestsRun

LEMMA RequestImplies == RequestInv => FirstImportRequestsRun
BY DEF RequestInv, FirstImportRequestsRun

\* The completed imports, and their kind, stay the same.
SameCompleted ==
    \A i \in Imports :
        /\ imports'[i].state = "completed" <=> imports[i].state = "completed"
        /\ imports[i].state = "completed" =>
              imports'[i].is_recalculation = imports[i].is_recalculation

LEMMA RequestKept ==
    ASSUME TypeInv, NoCompletedFailure, FirstImportRequestsRun, SameCompleted,
           UNCHANGED <<requested, redelivered, halfway>>,
           \A l \in jobs' : l.id \in Imports,
           \A l \in jobs' : l.pc = "failing" =>
              \/ imports[l.id].state # "completed"
              \/ \E k \in jobs : k.pc = "failing" /\ k.id = l.id
    PROVE  NoCompletedFailure' /\ FirstImportRequestsRun'
<1>1. NoCompletedFailure'
  BY DEF NoCompletedFailure, SameCompleted
<1>2. FirstImportRequestsRun'
  BY DEF FirstImportRequestsRun, SameCompleted
<1> QED
  BY <1>1, <1>2

\* Requests, the broker and the clock complete nothing.
LEMMA OutsideRequest ==
    ASSUME TypeInv, TypeInv', PhaseInv, NoCompletedFailure, FirstImportRequestsRun,
           RestApi \/ Broker \/ Tick
    PROVE  NoCompletedFailure' /\ FirstImportRequestsRun'
<1>j. \A j \in jobs' : j.id \in Imports
  BY JobSteps DEF TypeInv, TypeOK
<1>c. created \in Nat
  BY LimitAssumption DEF TypeInv, TypeOK
<1>0. UNCHANGED <<requested, redelivered, halfway>>
  BY DEF RestApi, Broker, Tick, CheckSchedule, Schedule, CompleteUpload, Recalculate, Create,
         Receive, Expire, rowVars, historyVars
<1>1. CASE RestApi
  <2>1. UNCHANGED jobs
    BY <1>1 DEF RestApi, CheckSchedule, Schedule, CompleteUpload, Recalculate, Create
  <2>2. SameCompleted
    <3>1. CASE UNCHANGED imports
      BY <3>1 DEF SameCompleted
    <3>2. CASE \E r : /\ created < MaxImports
                      /\ imports' = [imports EXCEPT ![created + 1] =
                           [state |-> "scheduled", is_recalculation |-> r,
                            created_age |-> 0, updated_age |-> 0]]
      <4>1. created + 1 \in Imports
        BY <1>c, <3>2, LimitAssumption DEF Imports
      <4>2. imports[created + 1].state = "none"
        BY <1>c, <4>1 DEF PhaseInv
      <4> QED
        BY <3>2, <4>1, <4>2 DEF SameCompleted, TypeInv, TypeOK
    <3> QED
      BY <1>1, <3>1, <3>2
      DEF RestApi, CheckSchedule, Schedule, CompleteUpload, Recalculate, Create, rowVars
  <2> QED
    BY <1>0, <1>j, <2>1, <2>2, RequestKept
<1>2. CASE Broker
  <2>1. SameCompleted
    BY <1>2 DEF Broker, Receive, Expire, rowVars, SameCompleted
  <2>2. \A l \in jobs' : l.pc = "failing" => l \in jobs
    BY <1>2 DEF Broker, Receive, Expire
  <2> QED
    BY <1>0, <1>j, <2>1, <2>2, RequestKept
<1>3. CASE Tick
  <2>1. ASSUME NEW i \in Imports
        PROVE  /\ imports'[i].state = imports[i].state
               /\ imports'[i].is_recalculation = imports[i].is_recalculation
    <3>1. imports[i] \in Row
      BY DEF TypeInv, TypeOK
    <3> QED
      BY <1>3, <3>1 DEF Tick, Row
  <2>2. \A l \in jobs' : \E k \in jobs : l.pc = k.pc /\ l.id = k.id
    <3>1. \A k \in jobs : /\ [k EXCEPT !.beat = FALSE].pc = k.pc
                          /\ [k EXCEPT !.beat = FALSE].id = k.id
      BY JobSteps DEF TypeInv, TypeOK
    <3>2. \A l \in jobs' : \E k \in jobs : l = [k EXCEPT !.beat = FALSE]
      BY <1>3 DEF Tick
    <3> QED
      BY <3>1, <3>2
  <2>3. SameCompleted
    BY <2>1 DEF SameCompleted
  <2> QED
    BY <1>0, <1>j, <2>2, <2>3, RequestKept
<1> QED
  BY <1>1, <1>2, <1>3

\* A thread completes its own import, and asks for a run unless an import created
\* earlier is completed.
LEMMA JobRequest ==
    ASSUME TypeInv, TypeInv', Ownership, PhaseInv, NoCompletedFailure,
           FirstImportRequestsRun, NEW j \in jobs,
           Thread(j) \/ Beat(j) \/ Crash(j) \/ Disconnect(j),
           redelivered = {}, halfway = {}, redelivered' = {}, halfway' = {}
    PROVE  NoCompletedFailure' /\ FirstImportRequestsRun'
<1>t. j \in Job /\ j.id \in Imports /\ \A i \in Imports : imports[i] \in Row
  BY JobSteps DEF TypeInv, TypeOK
<1>j. \A l \in jobs' : l.id \in Imports
  BY JobSteps DEF TypeInv, TypeOK
<1>p. InPhase(j.pc, imports[j.id].state)
  BY DEF PhaseInv
<1>m. ASSUME NEW pc \in PCs, Move(j, pc)
      PROVE  \A l \in jobs' : l \in jobs \/ (l.pc = pc /\ l.id = j.id)
  <2>1. LET k == [j EXCEPT !.pc = pc] IN k.id = j.id /\ k.pc = pc
    BY <1>t, JobSteps
  <2> QED
    BY <1>m, <2>1 DEF Move
<1>1. ASSUME NEW state \in ImportStates \ {"completed"},
             UNCHANGED imports \/ (Edit(j.id, state) /\ imports[j.id].state # "completed"),
             UNCHANGED requested,
             NEW pc \in PCs, Move(j, pc),
             pc = "failing" => imports[j.id].state # "completed"
      PROVE  NoCompletedFailure' /\ FirstImportRequestsRun'
  <2>1. SameCompleted
    BY <1>t, <1>1, OtherRows DEF SameCompleted
  <2>2. \A l \in jobs' : l \in jobs \/ (l.pc = pc /\ l.id = j.id)
    BY <1>1, <1>m
  <2> QED
    BY <1>1, <1>j, <2>1, <2>2, RequestKept
<1>2. CASE Cancel(j) \/ Begin(j) \/ SetFailed(j) \/ SetupRaises(j)
  <2>1. j.pc = "failing" => imports[j.id].state # "completed"
    BY DEF NoCompletedFailure
  <2>2. imports[j.id].state # "completed"
    BY <1>2, <1>p, <2>1 DEF InPhase, Cancel, Begin, SetFailed, SetupRaises
  <2> QED
    BY <1>2, <1>1, <2>2 DEF Cancel, Begin, SetFailed, SetupRaises, PCs, ImportStates
<1>3. CASE Import(j) \/ FailedRaises(j)
  <2>1. imports[j.id].state # "completed" \/ Move(j, "done")
    BY <1>3, <1>p DEF InPhase, Import, FailedRaises
  <2>2. UNCHANGED <<imports, requested>>
    BY <1>3 DEF Import, FailedRaises, rowVars
  <2> QED
    BY <1>3, <1>1, <2>1, <2>2 DEF Import, FailedRaises, PCs, ImportStates
<1>4. CASE SetCompleted(j)
  <2>1. /\ \A i \in Imports : i # j.id => imports'[i] = imports[i]
        /\ imports'[j.id].state = "completed"
        /\ imports'[j.id].is_recalculation = imports[j.id].is_recalculation
    <3>1. Edit(j.id, "completed")
      BY <1>4 DEF SetCompleted, EditCompleted
    <3> QED
      BY <1>t, <3>1 DEF Edit, Edited, TypeInv, TypeOK
  <2>2. requested' = (requested \/ (~imports[j.id].is_recalculation /\ IsInitial(j.id)))
    BY <1>4 DEF SetCompleted, EditCompleted
  <2>3. /\ \A l \in jobs' : l \in jobs \/ (l.pc = "done" /\ l.id = j.id)
        /\ j.pc = "imported"
    BY <1>4, <1>m DEF SetCompleted, PCs
  <2>4. NoCompletedFailure'
    <3>1. ASSUME NEW l \in jobs, l.pc = "failing"
          PROVE  l.id # j.id
      BY <2>3, <3>1, OneThread DEF PhaseInv
    <3> QED
      BY <1>j, <2>1, <2>3, <3>1 DEF NoCompletedFailure
  <2>5. FirstImportRequestsRun'
    <3> SUFFICES ASSUME NEW i \in Imports, imports'[i].state = "completed",
                        ~imports'[i].is_recalculation,
                        \A k \in Imports :
                           imports'[k].is_recalculation => imports'[k].state # "completed"
                 PROVE  requested'
      BY DEF FirstImportRequestsRun
    <3>1. CASE \E k \in Imports : k # j.id /\ imports[k].state = "completed"
      <4>1. PICK k \in Imports : k # j.id /\ imports[k].state = "completed"
        BY <3>1
      <4>2. ~imports[k].is_recalculation
        BY <2>1, <4>1
      <4>3. \A h \in Imports : imports[h].is_recalculation => imports[h].state # "completed"
        BY <1>p, <2>1, <2>3 DEF InPhase
      <4>4. requested
        BY <4>1, <4>2, <4>3 DEF FirstImportRequestsRun
      <4> QED
        BY <2>2, <4>4
    <3>2. CASE \A k \in Imports : k # j.id => imports[k].state # "completed"
      <4>1. ~imports[j.id].is_recalculation
        BY <2>1, <1>t
      <4>2. IsInitial(j.id)
        BY <1>t, <3>2 DEF IsInitial, Imports
      <4> QED
        BY <2>2, <4>1, <4>2
    <3> QED
      BY <3>1, <3>2
  <2> QED
    BY <2>4, <2>5
<1>5. CASE CompletedRaises(j) \/ Crash(j) \/ Disconnect(j)
  BY <1>5 DEF CompletedRaises, Crash, Disconnect, CountLoss
<1>6. CASE ListActive(j)
  <2>1. SameCompleted /\ UNCHANGED requested
    BY <1>6 DEF ListActive, rowVars, SameCompleted
  <2>2. \A l \in jobs' : l \in jobs \/ l.pc \in {"listed", "blocked"}
    BY <1>6 DEF ListActive, Listed
  <2> QED
    BY <1>j, <2>1, <2>2, RequestKept
<1>7. CASE Ack(j)
  <2>1. SameCompleted /\ UNCHANGED requested /\ jobs' \subseteq jobs
    BY <1>7 DEF Ack, rowVars, SameCompleted
  <2> QED
    BY <1>j, <2>1, RequestKept
<1>8. CASE Beat(j)
  <2>1. /\ \A i \in Imports : /\ imports'[i].state = imports[i].state
                              /\ imports'[i].is_recalculation = imports[i].is_recalculation
        /\ UNCHANGED requested
    <3>1. /\ Touched(imports[j.id]).state = imports[j.id].state
          /\ Touched(imports[j.id]).is_recalculation = imports[j.id].is_recalculation
      BY <1>t DEF Touched, Row
    <3> QED
      BY <1>8, <3>1 DEF Beat, Heartbeat, HeartbeatFails, rowVars, TypeInv, TypeOK
  <2>2. \A l \in jobs' : l \in jobs \/ (l.pc = j.pc /\ l.id = j.id)
    <3>1. LET k == [j EXCEPT !.beat = TRUE] IN k.pc = j.pc /\ k.id = j.id
      BY <1>t, JobSteps
    <3>2. jobs' = (jobs \ {j}) \cup {[j EXCEPT !.beat = TRUE]}
      BY <1>8 DEF Beat, Heartbeat, HeartbeatFails
    <3> QED
      BY <3>1, <3>2
  <2>3. SameCompleted
    BY <2>1 DEF SameCompleted
  <2> QED
    BY <1>j, <2>1, <2>2, <2>3, RequestKept
<1> QED
  BY <1>2, <1>3, <1>4, <1>5, <1>6, <1>7, <1>8 DEF Thread

LEMMA RequestStep ==
    TypeInv /\ LiveInv /\ PhaseInv /\ RequestInv /\ [Next]_vars => RequestInv'
<1> SUFFICES ASSUME TypeInv, LiveInv, PhaseInv, RequestInv, [Next]_vars,
                    redelivered' = {}, halfway' = {}
             PROVE  NoCompletedFailure' /\ FirstImportRequestsRun'
  BY DEF RequestInv
<1>1. redelivered = {} /\ halfway = {}
  BY DEF Next, vars, RestApi, Broker, Tick, CheckSchedule, Schedule, CompleteUpload,
         Recalculate, Create, Receive, Expire, Thread, Beat, Crash, Disconnect, CountLoss,
         ListActive, Cancel, Begin, SetupRaises, Import, SetCompleted, CompletedRaises,
         SetFailed, FailedRaises, Ack, Heartbeat, HeartbeatFails, historyVars
<1>2. CASE UNCHANGED vars
  BY <1>1, <1>2 DEF vars, RequestInv, NoCompletedFailure, FirstImportRequestsRun
<1>3. CASE Next
  BY <1>1, <1>3, TypeStep, OutsideRequest, JobRequest DEF Next, LiveInv, RequestInv
<1> QED
  BY <1>2, <1>3

(***************************************************************************)
(* The first completed regular import of an organization asks for a        *)
(* checklist run: the imports finish in any order and rest_api looks at    *)
(* the completed one created first, but whichever completes first finds    *)
(* none before it.                                                         *)
(***************************************************************************)
THEOREM FirstImportAsksForRun == Spec => []FirstImportRequestsRun
<1>1. Spec => [](TypeInv /\ LiveInv /\ PhaseInv /\ RequestInv)
  BY TypeInit, LiveInit, RequestInit, TypeStep, LiveStep, PhaseStep, RequestStep, PTL DEF Spec
<1> QED
  BY <1>1, RequestImplies, PTL
=============================================================================
