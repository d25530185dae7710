----------------------------- MODULE ExpenseLedger -----------------------------
(***************************************************************************)
(* The clean expenses of one cloud account: an import writes raw expenses  *)
(* to MongoDB and then, resource by resource, compares their daily costs   *)
(* with what ClickHouse holds and appends rows that correct it.  A row has *)
(* a cost and a sign; the expense of a day is the sum of cost * sign.      *)
(*                                                                         *)
(* Nothing in ClickHouse is locked: between the query of the old rows and  *)
(* the insert, another import may insert and the table may merge its       *)
(* parts.  ReportImport keeps imports of an account apart, but not after a *)
(* lost connection and not between its check and its mark, so overlapping  *)
(* imports are part of the model.                                          *)
(***************************************************************************)
EXTENDS Integers, Sequences, FiniteSets, FiniteSetsExt, SequencesExt

CONSTANTS
    Importers,      \* threads that import the account
    Resources,      \* its resources; a chunk is one resource
    Dates,          \* the days of the import period
    Costs,          \* daily costs a report may give
    NoCost,         \* no raw expense, no row
    MaxImports      \* bound: imports started

ASSUME LedgerAssumption ==
    /\ Costs \subseteq Int
    /\ NoCost \notin Int \cup Importers
    /\ Resources # {}
    /\ IsFiniteSet(Dates)
    /\ MaxImports \in Nat

VARIABLES
    raw,            \* MongoDB raw_expenses: cost of a resource and day
    identity,       \* and its report_identity: the active import that wrote it
    expenses,       \* ClickHouse: the blocks of a resource and day, in order
    total_cost,     \* MongoDB resources.total_cost
    imp,            \* the importers
    started,        \* imports started so far
    entered,        \* history: the cost last inserted
    overlapped,     \* history: two imports were active at once
    torn,           \* history: resources with an insert but no new total_cost
    synced          \* history: the import started last has completed

stores == <<raw, identity, expenses, total_cost>>
historyVars == <<entered, overlapped, torn, synced>>
vars == <<raw, identity, expenses, total_cost, imp, started, entered,
          overlapped, torn, synced>>

Keys == Resources \X Dates

\* The rows one insert, or one merge, leaves for a key: a row with sign -1 (or
\* none), then one with sign 1.
Block == [minus : Int \cup {NoCost}, plus : Int]

Importer ==
    [pc : {"idle", "loading", "cleared", "generating", "reading", "writing",
           "inserted", "summed"},
     todo : SUBSET Resources, resource : Resources,
     want : [Dates -> Costs \cup {NoCost}],
     seen : [Dates -> Int \cup {NoCost}], sum : Int]

\* The type invariant of the module.
TypeOK ==
    /\ raw \in [Keys -> Costs \cup {NoCost}]
    /\ identity \in [Keys -> Importers \cup {NoCost}]
    /\ expenses \in [Keys -> Seq(Block)]
    /\ total_cost \in [Resources -> Int]
    /\ imp \in [Importers -> Importer]
    /\ started \in 0 .. MaxImports
    /\ entered \in [Keys -> Costs \cup {NoCost}]
    /\ overlapped \in BOOLEAN
    /\ torn \subseteq Resources
    /\ synced \in BOOLEAN

-----------------------------------------------------------------------------
(* What the queries compute.                                                *)

Value(b) == IF b.minus = NoCost THEN b.plus ELSE b.plus - b.minus
Sign(b) == IF b.minus = NoCost THEN 1 ELSE 0

\* sum(cost * sign) and sum(sign) over the rows of a key.
Total(k) == FoldLeft(LAMBDA sum, b : sum + Value(b), 0, expenses[k])
Exists(k) == FoldLeft(LAMBDA sum, b : sum + Sign(b), 0, expenses[k])

\* get_common_resource_expense_info
ResourceTotal(r) == MapThenSumSet(LAMBDA d : Total(<<r, d>>), Dates)

\* CollapsingMergeTree merges two neighbouring parts: of the rows of a key it
\* keeps the last row with sign 1, and the first with sign -1 if there are as
\* many of one sign as of the other.
Collapse(p, q) ==
    [minus |-> IF q.minus = NoCost THEN NoCost ELSE p.minus, plus |-> q.plus]

Idle ==
    [pc |-> "idle", todo |-> {}, resource |-> CHOOSE r \in Resources : TRUE,
     want |-> [d \in Dates |-> NoCost], seen |-> [d \in Dates |-> NoCost],
     sum |-> 0]

Init ==
    /\ raw = [k \in Keys |-> NoCost]
    /\ identity = [k \in Keys |-> NoCost]
    /\ expenses = [k \in Keys |-> <<>>]
    /\ total_cost = [r \in Resources |-> 0]
    /\ imp = [i \in Importers |-> Idle]
    /\ started = 0
    /\ entered = [k \in Keys |-> NoCost]
    /\ overlapped = FALSE
    /\ torn = {}
    /\ synced = FALSE

-----------------------------------------------------------------------------
(* BaseReportImporter, one action per query or update.                      *)

\* A new importer, with a report_identity of its own; in another month than the
\* last import, detect_period_start removes the raw expenses of the period.
StartImport(i) ==
    /\ imp[i].pc = "idle"
    /\ started < MaxImports
    /\ started' = started + 1
    /\ imp' = [imp EXCEPT ![i].pc = "loading"]
    /\ overlapped' = (overlapped \/ \E j \in Importers : imp[j].pc # "idle")
    /\ synced' = FALSE
    /\ \/ UNCHANGED <<raw, identity>>
       \/ /\ raw' = [k \in Keys |-> NoCost]
          /\ identity' = [k \in Keys |-> NoCost]
    /\ UNCHANGED <<expenses, total_cost, entered, torn>>

\* update_raw_records: the report gives a cost for a resource and day.
UpdateRawRecords(i) ==
    /\ imp[i].pc = "loading"
    /\ \E k \in Keys, c \in Costs :
          /\ raw' = [raw EXCEPT ![k] = c]
          /\ identity' = [identity EXCEPT ![k] = i]
    /\ UNCHANGED <<expenses, total_cost, imp, started, historyVars>>

\* clear_rudiments: between the first and the last day loaded, what this import
\* did not write is deleted.  Some clouds' importers have no such step.
ClearRudiments(i) ==
    /\ imp[i].pc = "loading"
    /\ \E days \in SUBSET Dates :
          LET gone == {k \in Keys : k[2] \in days /\ identity[k] # i}
          IN  /\ raw' = [k \in Keys |-> IF k \in gone THEN NoCost ELSE raw[k]]
              /\ identity' =
                    [k \in Keys |-> IF k \in gone THEN NoCost ELSE identity[k]]
    /\ imp' = [imp EXCEPT ![i].pc = "cleared"]
    /\ UNCHANGED <<expenses, total_cost, started, historyVars>>

\* get_resource_ids
GetResourceIds(i) ==
    /\ imp[i].pc = "cleared"
    /\ imp' = [imp EXCEPT ![i].pc = "generating", ![i].todo =
                 {r \in Resources : \E d \in Dates : raw[<<r, d>>] # NoCost}]
    /\ UNCHANGED <<stores, started, historyVars>>

\* get_raw_expenses_by_filters and clean_expenses_for_resource; a chunk whose
\* raw expenses are gone is empty and nothing is saved.
ReadRaw(i) ==
    /\ imp[i].pc = "generating"
    /\ \E r \in imp[i].todo :
          LET want == [d \in Dates |-> raw[<<r, d>>]]
              next == IF \E d \in Dates : want[d] # NoCost
                      THEN "reading" ELSE "generating"
          IN  imp' = [imp EXCEPT ![i].pc = next, ![i].resource = r,
                                 ![i].todo = @ \ {r}, ![i].want = want]
    /\ UNCHANGED <<stores, started, historyVars>>

\* Mutant of ReadLedger: the first row of a day is taken for its expense.
ReadFirstRow(i) ==
    /\ imp[i].pc = "reading"
    /\ LET r == imp[i].resource
       IN  imp' = [imp EXCEPT ![i].pc = "writing", ![i].seen =
                     [d \in Dates |-> IF expenses[<<r, d>>] = <<>> THEN NoCost
                                      ELSE Head(expenses[<<r, d>>]).plus]]
    /\ UNCHANGED <<stores, started, historyVars>>

\* get_clickhouse_expenses, summed by day.
ReadLedger(i) ==
    /\ imp[i].pc = "reading"
    /\ LET r == imp[i].resource
       IN  imp' = [imp EXCEPT ![i].pc = "writing", ![i].seen =
                     [d \in Dates |->
                        IF expenses[<<r, d>>] = <<>> \/ Exists(<<r, d>>) = 0
                        THEN NoCost ELSE Total(<<r, d>>)]]
    /\ UNCHANGED <<stores, started, historyVars>>

\* Mutant of Corrected: a day without a raw expense differs as well.
CorrectedAll(i) == {d \in Dates : imp[i].want[d] # imp[i].seen[d]}

\* Mutant of Corrected: a day that has rows is left alone.
CorrectedNew(i) ==
    {d \in Dates : imp[i].want[d] # NoCost /\ imp[i].seen[d] = NoCost}

\* The days whose cost differs from what was read.
Corrected(i) ==
    {d \in Dates : imp[i].want[d] # NoCost /\ imp[i].want[d] # imp[i].seen[d]}

\* Mutant of Corrections: a day without rows is cancelled as a cost of zero.
CorrectionsZero(i) ==
    [k \in Keys |->
       IF k[1] = imp[i].resource /\ k[2] \in Corrected(i)
       THEN Append(expenses[k],
                   [minus |-> IF imp[i].seen[k[2]] = NoCost THEN 0
                              ELSE imp[i].seen[k[2]],
                    plus |-> imp[i].want[k[2]]])
       ELSE expenses[k]]

\* The table with the rows of gen_clickhouse_expense: the old cost with sign -1
\* when there was one, the new cost with sign 1.
Corrections(i) ==
    [k \in Keys |->
       IF k[1] = imp[i].resource /\ k[2] \in Corrected(i)
       THEN Append(expenses[k], [minus |-> imp[i].seen[k[2]],
                                 plus |-> imp[i].want[k[2]]])
       ELSE expenses[k]]

\* No later import has the report_identity of one that ended.
Forget(i) ==
    identity' = [k \in Keys |-> IF identity[k] = i THEN NoCost ELSE identity[k]]

Entered(i) ==
    [k \in Keys |->
       IF k[1] = imp[i].resource /\ k[2] \in Corrected(i)
       THEN imp[i].want[k[2]] ELSE entered[k]]

\* update_clickhouse_expenses, skipped when no day differs.
Insert(i) ==
    /\ imp[i].pc = "writing"
    /\ expenses' = Corrections(i)
    /\ entered' = Entered(i)
    /\ imp' = [imp EXCEPT ![i].pc =
                 IF Corrected(i) = {} THEN "generating" ELSE "inserted"]
    /\ UNCHANGED <<raw, identity, total_cost, started, overlapped, torn, synced>>

\* Mutant of QueryTotals: total_cost is computed from the raw expenses.
QueryRawTotals(i) ==
    /\ imp[i].pc = "inserted"
    /\ imp' = [imp EXCEPT ![i].pc = "summed", ![i].sum =
                 MapThenSumSet(LAMBDA d : imp[i].want[d],
                               {d \in Dates : imp[i].want[d] # NoCost})]
    /\ UNCHANGED <<stores, started, historyVars>>

\* update_resource_expense_info: the query, then the update.
QueryTotals(i) ==
    /\ imp[i].pc = "inserted"
    /\ imp' = [imp EXCEPT ![i].pc = "summed",
                          ![i].sum = ResourceTotal(imp[i].resource)]
    /\ UNCHANGED <<stores, started, historyVars>>

UpdateResourceInfo(i) ==
    /\ imp[i].pc = "summed"
    /\ total_cost' = [total_cost EXCEPT ![imp[i].resource] = imp[i].sum]
    /\ torn' = torn \ {imp[i].resource}
    /\ imp' = [imp EXCEPT ![i].pc = "generating"]
    /\ UNCHANGED <<raw, identity, expenses, started, entered, overlapped, synced>>

\* Every resource is saved: update_cloud_import_time.
Finish(i) ==
    /\ imp[i].pc = "generating"
    /\ imp[i].todo = {}
    /\ imp' = [imp EXCEPT ![i] = Idle]
    /\ synced' = \A j \in Importers \ {i} : imp[j].pc = "idle"
    /\ Forget(i)
    /\ UNCHANGED <<raw, expenses, total_cost, started, entered, overlapped, torn>>

\* A call raises or the process dies; an insert may have been applied.
Abort(i) ==
    /\ imp[i].pc # "idle"
    /\ imp' = [imp EXCEPT ![i] = Idle]
    /\ Forget(i)
    /\ \/ /\ torn' = IF imp[i].pc \in {"inserted", "summed"}
                     THEN torn \cup {imp[i].resource} ELSE torn
          /\ UNCHANGED <<expenses, entered>>
       \/ /\ imp[i].pc = "writing"
          /\ Corrected(i) # {}
          /\ expenses' = Corrections(i)
          /\ entered' = Entered(i)
          /\ torn' = torn \cup {imp[i].resource}
    /\ UNCHANGED <<raw, total_cost, started, overlapped, synced>>

\* ClickHouse merges two neighbouring parts that hold rows of the key.
Merge(k) ==
    /\ \E n \in 1 .. Len(expenses[k]) - 1 :
          expenses' = [expenses EXCEPT ![k] =
             SubSeq(@, 1, n - 1) \o <<Collapse(@[n], @[n + 1])>>
               \o SubSeq(@, n + 2, Len(@))]
    /\ UNCHANGED <<raw, identity, total_cost, imp, started, historyVars>>

ImportStep(i) ==
    \/ StartImport(i) \/ UpdateRawRecords(i) \/ ClearRudiments(i)
    \/ GetResourceIds(i) \/ ReadRaw(i) \/ ReadLedger(i) \/ Insert(i)
    \/ QueryTotals(i) \/ UpdateResourceInfo(i) \/ Finish(i) \/ Abort(i)

Next ==
    \/ \E i \in Importers : ImportStep(i)
    \/ \E k \in Keys : Merge(k)

Spec == Init /\ [][Next]_vars

-----------------------------------------------------------------------------
(* Properties.                                                              *)

(***************************************************************************)
(* Importing again is safe: when the import started last has completed and *)
(* no two imports ever overlapped, the expense of every day is the raw     *)
(* cost, whatever failed before and however often the table was merged.    *)
(***************************************************************************)
TotalsMatchRaw ==
    ~overlapped /\ synced =>
        \A k \in Keys : raw[k] # NoCost => Total(k) = raw[k]

(***************************************************************************)
(* Overlapping imports can spoil the total of a day, but not for good: as  *)
(* soon as the parts of a day are merged into one, the day has a single    *)
(* row, the cost that was inserted last.                                   *)
(***************************************************************************)
CollapsedIsLast ==
    \A k \in Keys :
        Len(expenses[k]) = 1 =>
            expenses[k][1] = [minus |-> NoCost, plus |-> entered[k]]

(***************************************************************************)
(* The total_cost of a resource is the sum of its expenses when no import  *)
(* is saving it, unless an import ended between its insert and its update  *)
(* (the next import finds no day that differs and does not repair it), or  *)
(* two imports overlapped.                                                 *)
(***************************************************************************)
ResourceTotalsExact ==
    ~overlapped =>
        \A r \in Resources \ torn :
            \/ total_cost[r] = ResourceTotal(r)
            \/ \E i \in Importers :
                  imp[i].pc \in {"inserted", "summed"} /\ imp[i].resource = r

=============================================================================
