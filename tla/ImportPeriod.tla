----------------------------- MODULE ImportPeriod -----------------------------
(***************************************************************************)
(* Which days an import of a cloud account covers.  Every importer chooses *)
(* the start of its period from the time of the last completed import and  *)
(* the latest day of the account in ClickHouse, loads raw expenses from    *)
(* there on and rewrites the clean expense of each day that has one.  The  *)
(* cloud publishes usage late; an import can fail between two chunks of    *)
(* resources; nobody imports for a while.                                  *)
(*                                                                         *)
(* Time counts parts of days; a part of a day is also a unit of usage.     *)
(* A cost is the set of the parts it counts.                               *)
(***************************************************************************)
EXTENDS Integers, FiniteSets, FiniteSetsExt

CONSTANTS
    Clouds,         \* the importers: some of "gcp", "azure" and "alibaba"
    Resources,      \* resources of the account; a chunk is one resource
    Lookback,       \* days azure (1) and gcp (3) go back
    MonthDays,      \* bound: days in a month
    Lag,            \* parts of a day after which usage is published at the latest
    MaxTime,        \* bound: parts of days in a behaviour
    MaxFailures     \* bound: imports that fail

ASSUME PeriodAssumption ==
    /\ Clouds \subseteq {"gcp", "azure", "alibaba"}
    /\ Resources # {}
    /\ MonthDays \in Nat \ {0} /\ Lag \in Nat \ {0}
    /\ Lookback \in Nat /\ MaxTime \in Nat /\ MaxFailures \in Nat
    /\ Lag <= MaxTime

VARIABLES
    cloud,          \* the cloud of the account
    now,            \* the clock
    published,      \* when the cloud published a part's usage; 0: not yet
    raw,            \* MongoDB raw_expenses: parts of each resource
    clean,          \* ClickHouse: what the expense of a resource and day counts
    last_import_at, \* of the cloud account; 0: never imported
    imp,            \* the import in progress
    failures,       \* imports that failed
    first,          \* history: start of the first import that completed
    complete,       \* history: load time of the last completed import
    torn,           \* history: an import failed with some chunks saved
    again,          \* history: that import went back from the latest day
    steady          \* history: no day went by without a completed import

vars == <<cloud, now, published, raw, clean, last_import_at, imp, failures,
          first, complete, torn, steady, again>>

PartsOfDay == 2
Parts == 0 .. MaxTime - 1
Day(t) == t \div PartsOfDay
DayStart(d) == d * PartsOfDay
Days == {Day(s) : s \in Parts}
Month(t) == Day(t) \div MonthDays

\* get_month_start
MonthStart(t) == DayStart(Month(t) * MonthDays)

\* gcp has one raw expense per hour, the others one per day, which grows.
StartDate(s) == IF cloud = "gcp" THEN s ELSE DayStart(Day(s))

Available == {s \in Parts : published[s] # 0}
NoImport == [pc |-> "idle", start |-> 0, todo |-> {}, loaded |-> 0, again |-> FALSE]

\* The type invariant of the module.
TypeOK ==
    /\ cloud \in Clouds
    /\ now \in 0 .. MaxTime
    /\ published \in [Parts -> 0 .. MaxTime]
    /\ raw \subseteq Resources \X Parts
    /\ clean \in [Resources \X Days -> SUBSET Parts]
    /\ last_import_at \in 0 .. MaxTime
    /\ imp \in [pc : {"idle", "loading", "saving"}, start : 0 .. MaxTime,
                todo : SUBSET Resources, loaded : 0 .. MaxTime, again : BOOLEAN]
    /\ failures \in 0 .. MaxFailures
    /\ first \in 0 .. MaxTime /\ complete \in 0 .. MaxTime
    /\ torn \in BOOLEAN /\ steady \in BOOLEAN /\ again \in BOOLEAN

Init ==
    /\ cloud \in Clouds
    /\ now = Lag
    /\ published = [s \in Parts |-> IF s = 0 THEN Lag ELSE 0]
    /\ raw = {}
    /\ clean = [k \in Resources \X Days |-> {}]
    /\ last_import_at = 0
    /\ imp = NoImport
    /\ failures = 0
    /\ first = 0 /\ complete = 0
    /\ torn = FALSE /\ steady = TRUE
    /\ again = FALSE

\* Usage is published well within the days an importer goes back; the first import
\* covers those days; there are two days in a month.
ASSUME LookbackAssumption ==
    /\ Lag <= DayStart(Lookback - 1) + 1
    /\ Lookback <= 3 * MonthDays
    /\ MonthDays > 1

-----------------------------------------------------------------------------
(* The clock and the cloud.                                                 *)

\* An import takes less than a part of a day.
Tick ==
    /\ now < MaxTime
    /\ imp.pc = "idle"
    /\ now' = now + 1
    /\ \E new \in SUBSET {s \in Parts \ Available : s <= now} :
          /\ {s \in Parts \ Available : s + Lag <= now + 1} \subseteq new
          /\ published' = [s \in Parts |-> IF s \in new THEN now + 1
                                           ELSE published[s]]
    /\ UNCHANGED <<cloud, raw, clean, last_import_at, imp, failures, first,
                   complete, torn, steady, again>>

-----------------------------------------------------------------------------
(* detect_period_start                                                      *)

\* get_last_import_date: the latest day with an expense of any resource.
Expensed == {d \in Days : \E r \in Resources : clean[<<r, d>>] # {}}
get_last_import_date == DayStart(Max(Expensed))

\* Mutant of FirstStart: not cut at the first day of the account.
FirstStartEarlier == MonthStart(now) - DayStart(3 * MonthDays)

\* set_period_start, of an account that was never imported.
FirstStart == LET start == MonthStart(now) - DayStart(3 * MonthDays)
              IN  IF start < 0 THEN 0 ELSE start

FromFirstOfMonth(t) == IF Day(t) % MonthDays = 0 /\ Day(t) > 0
                       THEN MonthStart(DayStart(Day(t) - 1)) ELSE t

\* The base importer, in the month of the last import.
SameMonthStart ==
    FromFirstOfMonth(IF Expensed = {} THEN last_import_at ELSE get_last_import_date)

\* Mutant of GoBack: the days that the cloud publishes late are not loaded again.
GoBackNot == get_last_import_date

GoBack == LET start == get_last_import_date - DayStart(Lookback)
          IN  IF start < 0 THEN 0 ELSE start

SameMonth == last_import_at # 0 /\ Month(last_import_at) = Month(now)

PeriodStart ==
    IF last_import_at = 0 THEN FirstStart
    ELSE IF ~SameMonth THEN last_import_at
    ELSE IF cloud \in {"gcp", "azure"} /\ Expensed # {} THEN GoBack
    ELSE SameMonthStart

\* A new importer; after a change of month the raw expenses since the last import
\* are removed.
Begin ==
    /\ imp.pc = "idle"
    /\ imp' = [NoImport EXCEPT !.pc = "loading", !.start = PeriodStart,
                              !.again = SameMonth]
    /\ raw' = IF last_import_at # 0 /\ ~SameMonth
              THEN {e \in raw : StartDate(e[2]) < PeriodStart} ELSE raw
    /\ UNCHANGED <<cloud, now, published, clean, last_import_at, failures, first,
                   complete, torn, steady, again>>

-----------------------------------------------------------------------------
(* data_import                                                              *)

\* What load_raw_data asks the cloud for: gcp the exports of the days from the
\* start on, alibaba the bills of those days, azure the usage since the start.
Loaded ==
    {s \in Available : CASE cloud = "gcp" -> Day(published[s]) >= Day(imp.start)
                         [] cloud = "alibaba" -> Day(s) >= Day(imp.start)
                         [] cloud = "azure" -> StartDate(s) >= imp.start}

\* get_resource_ids, once the raw expenses are loaded.
ResourceIds(expenses) ==
    {r \in Resources : \E e \in expenses : e[1] = r /\ StartDate(e[2]) >= imp.start}

LoadRaw ==
    /\ imp.pc = "loading"
    /\ LET new == raw \cup (Resources \X Loaded)
       IN  /\ raw' = new
           /\ imp' = [imp EXCEPT !.pc = "saving", !.todo = ResourceIds(new),
                                 !.loaded = now]
    /\ UNCHANGED <<cloud, now, published, clean, last_import_at, failures, first,
                   complete, torn, steady, again>>

\* Mutant of Read: the usage of a day is cut at the time the period starts.
ReadWithin(r) == {s \in Parts : <<r, s>> \in raw /\ s >= imp.start}

\* The raw expenses of a resource that generate_clean_records reads.
Read(r) == {s \in Parts : <<r, s>> \in raw /\ StartDate(s) >= imp.start}

\* save_clean_expenses of a chunk.
SaveClean(r) ==
    /\ imp.pc = "saving"
    /\ r \in imp.todo
    /\ clean' = [k \in Resources \X Days |->
                   LET cost == {s \in Read(r) : Day(s) = k[2]}
                   IN  IF k[1] = r /\ cost # {} THEN cost ELSE clean[k]]
    /\ imp' = [imp EXCEPT !.todo = @ \ {r}]
    /\ UNCHANGED <<cloud, now, published, raw, last_import_at, failures, first,
                   complete, torn, steady, again>>

\* update_cloud_import_time
Finish ==
    /\ imp.pc = "saving"
    /\ imp.todo = {}
    /\ last_import_at' = now
    /\ first' = IF last_import_at = 0 THEN imp.start ELSE first
    /\ complete' = imp.loaded
    /\ again' = imp.again
    /\ steady' = (steady /\ (last_import_at = 0 \/ Day(now) <= Day(last_import_at) + 1))
    /\ imp' = NoImport
    /\ UNCHANGED <<cloud, now, published, raw, clean, failures, torn>>

\* A call raises or the worker dies, with part of the days loaded or part of the
\* chunks saved.
Fail ==
    /\ imp.pc # "idle"
    /\ failures < MaxFailures
    /\ failures' = failures + 1
    /\ IF imp.pc = "loading"
       THEN \E d \in Days : raw' = raw \cup (Resources \X {s \in Loaded : Day(s) <= d})
       ELSE UNCHANGED raw
    /\ torn' = (torn \/ imp.pc = "saving")
    /\ imp' = NoImport
    /\ UNCHANGED <<cloud, now, published, clean, last_import_at, first, complete, steady,
                   again>>

Next == Tick \/ Begin \/ LoadRaw \/ (\E r \in Resources : SaveClean(r)) \/ Finish \/ Fail

Spec == Init /\ [][Next]_vars

-----------------------------------------------------------------------------
(* Properties.                                                              *)

\* Published when the last completed import loaded and no older than the first one
\* goes back, but not in the expenses.
Missing == {e \in Resources \X Parts :
              /\ StartDate(e[2]) >= first
              /\ published[e[2]] \in 1 .. complete
              /\ e[2] \notin clean[<<e[1], Day(e[2])>>]}

(***************************************************************************)
(* gcp.py, azure.py: usage that the cloud publishes late is loaded by a    *)
(* later import.  As long as imports complete every day and none fails     *)
(* between two chunks, an import in the month of the last one leaves       *)
(* nothing behind, also of the days before a change of month, when one     *)
(* import started at the time of the last instead.                         *)
(***************************************************************************)
LateUsageCounted ==
    steady /\ ~torn /\ again /\ cloud \in {"gcp", "azure"} /\ imp.pc = "idle"
      => Missing = {}

(***************************************************************************)
(* With one raw expense per day, the expense of a day never loses usage it *)
(* has counted, whatever day an import starts at, which raw expenses it    *)
(* removes and where it fails: a day is saved as a whole or not at all.    *)
(* gcp.py has raw expenses by the hour, and the import after a change of   *)
(* month starts within a day.                                              *)
(***************************************************************************)
DayNeverShrinks ==
    [][cloud # "gcp" =>
         \A k \in Resources \X Days : clean[k] \subseteq clean'[k]]_vars
=============================================================================
