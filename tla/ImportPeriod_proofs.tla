-------------------------- MODULE ImportPeriod_proofs --------------------------
(***************************************************************************)
(* Theorems about ImportPeriod, for every value of its constants: every    *)
(* import starts within the time that has passed, a cloud with one raw     *)
(* expense per day never loses usage it has counted, and with imports      *)
(* every day late usage is counted, also across a change of month.         *)
(***************************************************************************)
EXTENDS ImportPeriod, WellFoundedInduction, TLAPS

-----------------------------------------------------------------------------
(* Days and months.                                                         *)

\* A part of a day lies in its day, and the day starts no later.
LEMMA DayOfPart ==
    ASSUME NEW t \in Nat
    PROVE  /\ Day(t) \in Nat /\ DayStart(Day(t)) \in Nat
           /\ DayStart(Day(t)) <= t /\ t < DayStart(Day(t)) + PartsOfDay
           /\ Day(t) <= t
  BY DEF Day, DayStart, PartsOfDay

LEMMA MonthOfPart ==
    ASSUME NEW t \in Nat
    PROVE  MonthStart(t) \in Nat /\ MonthStart(t) <= t
<1>1. MonthDays \in Nat /\ MonthDays > 0
  BY PeriodAssumption
<1>2. Day(t) \in Nat /\ DayStart(Day(t)) <= t
  BY DayOfPart
<1>3. ASSUME NEW d \in Nat
      PROVE  (d \div MonthDays) * MonthDays \in Nat /\ (d \div MonthDays) * MonthDays <= d
  BY <1>1
<1>4. ASSUME NEW d \in Nat, NEW e \in Nat, e <= d
      PROVE  DayStart(e) \in Nat /\ DayStart(e) <= DayStart(d)
  BY <1>4 DEF DayStart, PartsOfDay
<1> DEFINE e == Month(t) * MonthDays
<1>5. e \in Nat /\ e <= Day(t)
  BY <1>2, <1>3 DEF Month
<1>6. DayStart(Day(t)) \in Nat
  BY DayOfPart
<1> HIDE DEF e
<1>7. DayStart(e) \in Nat /\ DayStart(e) <= t
  BY <1>2, <1>4, <1>5, <1>6
<1> QED  BY <1>7 DEF MonthStart, e

\* The latest day of a set of days is one of them.
LEMMA LatestDay ==
    ASSUME NEW S \in SUBSET Days, S # {}
    PROVE  Max(S) \in S
<1> DEFINE R == OpToRel(<, Nat)
           Q == {n \in Nat : MaxTime - n \in S}
<1>1. \A d \in Days : d \in 0 .. MaxTime
  <2>1. ASSUME NEW s \in Parts  PROVE Day(s) \in 0 .. MaxTime
    BY PeriodAssumption DEF Parts, Day, PartsOfDay
  <2> QED  BY <2>1 DEF Days
<1>2. MaxTime \in Nat
  BY PeriodAssumption
<1>3. Q # {}
  <2>1. PICK d \in S : d \in 0 .. MaxTime
    BY <1>1
  <2>2. MaxTime - d \in Nat /\ MaxTime - (MaxTime - d) = d
    BY <1>2, <2>1
  <2> QED  BY <2>1, <2>2
<1>4. IsWellFoundedOn(R, Nat)
  BY NatLessThanWellFounded
<1>5. PICK m \in Q : \A k \in Q : ~(<<k, m>> \in R)
  <2> HIDE DEF R, Q
  <2>1. Q \subseteq Nat
    BY DEF Q
  <2> QED  BY <1>3, <1>4, <2>1, WFMin
<1>6. ASSUME NEW y \in S  PROVE MaxTime - m >= y
  <2>1. y \in 0 .. MaxTime
    BY <1>1
  <2>2. MaxTime - y \in Q
    BY <1>2, <2>1
  <2>3. ~(MaxTime - y < m)
    BY <1>5, <2>2 DEF OpToRel
  <2> QED  BY <1>2, <2>1, <2>3
<1>7. MaxTime - m \in S
  OBVIOUS
<1> QED  BY <1>6, <1>7 DEF Max

-----------------------------------------------------------------------------
(* Types.                                                                   *)

Import == [pc : {"idle", "loading", "saving"}, start : 0 .. MaxTime,
           todo : SUBSET Resources, loaded : 0 .. MaxTime, again : BOOLEAN]

LEMMA LastDateTyped ==
    ASSUME TypeOK, Expensed # {}
    PROVE  get_last_import_date \in 0 .. MaxTime
<1>1. Max(Expensed) \in Days
  BY LatestDay DEF Expensed
<1>2. PICK s \in Parts : Max(Expensed) = Day(s)
  BY <1>1 DEF Days
<1>3. s \in Nat /\ s <= MaxTime /\ MaxTime \in Nat
  BY PeriodAssumption DEF Parts
<1> QED  BY <1>2, <1>3, DayOfPart DEF get_last_import_date

\* Whatever an importer computes its period from, the period starts at a time that has
\* been (detect_period_start).
LEMMA PeriodTyped ==
    ASSUME TypeOK
    PROVE  PeriodStart \in 0 .. MaxTime
<1>0. /\ MaxTime \in Nat /\ MonthDays \in Nat /\ Lookback \in Nat
      /\ now \in Nat /\ now <= MaxTime /\ last_import_at \in 0 .. MaxTime
  BY PeriodAssumption DEF TypeOK
<1>1. FirstStart \in 0 .. MaxTime
  <2>1. MonthStart(now) \in Nat /\ MonthStart(now) <= now
    BY <1>0, MonthOfPart
  <2>2. DayStart(3 * MonthDays) \in Nat
    BY <1>0 DEF DayStart, PartsOfDay
  <2> QED  BY <1>0, <2>1, <2>2 DEF FirstStart
<1>2. Expensed # {} => GoBack \in 0 .. MaxTime
  <2>1. DayStart(Lookback) \in Nat
    BY <1>0 DEF DayStart, PartsOfDay
  <2> QED  BY <1>0, <2>1, LastDateTyped DEF GoBack
<1>3. ASSUME NEW t \in 0 .. MaxTime  PROVE FromFirstOfMonth(t) \in 0 .. MaxTime
  <2>1. CASE Day(t) % MonthDays = 0 /\ Day(t) > 0
    <3> DEFINE u == DayStart(Day(t) - 1)
    <3>1. u \in Nat /\ u <= t
      BY <1>0, <2>1 DEF Day, DayStart, PartsOfDay
    <3> HIDE DEF u
    <3>2. MonthStart(u) \in Nat /\ MonthStart(u) <= u
      BY <3>1, MonthOfPart
    <3>3. FromFirstOfMonth(t) = MonthStart(u)
      BY <2>1 DEF FromFirstOfMonth, u
    <3> QED  BY <1>0, <3>1, <3>2, <3>3
  <2>2. CASE ~(Day(t) % MonthDays = 0 /\ Day(t) > 0)
    BY <2>2 DEF FromFirstOfMonth
  <2> QED  BY <2>1, <2>2
<1>4. SameMonthStart \in 0 .. MaxTime
  <2> DEFINE t == IF Expensed = {} THEN last_import_at ELSE get_last_import_date
  <2>1. t \in 0 .. MaxTime
    BY <1>0, LastDateTyped
  <2> HIDE DEF t
  <2>2. FromFirstOfMonth(t) \in 0 .. MaxTime
    BY <1>3, <2>1
  <2> QED  BY <2>2 DEF SameMonthStart, t
<1> QED  BY <1>0, <1>1, <1>2, <1>4 DEF PeriodStart

LEMMA PeriodTypeInit == Init => TypeOK
<1> SUFFICES ASSUME Init PROVE TypeOK
  OBVIOUS
<1>1. MaxTime \in Nat /\ MaxFailures \in Nat /\ Lag \in 0 .. MaxTime
  BY PeriodAssumption
<1>2. published \in [Parts -> 0 .. MaxTime] /\ now \in 0 .. MaxTime
  BY <1>1 DEF Init
<1>3. imp \in Import
  BY <1>1 DEF Init, NoImport, Import
<1>4. clean \in [Resources \X Days -> SUBSET Parts] /\ raw \subseteq Resources \X Parts
  BY DEF Init
<1>5. torn \in BOOLEAN /\ steady \in BOOLEAN /\ again \in BOOLEAN
  BY DEF Init
<1>6. last_import_at \in 0 .. MaxTime /\ first \in 0 .. MaxTime /\ failures \in 0 .. MaxFailures
      /\ complete \in 0 .. MaxTime /\ cloud \in Clouds
  BY <1>1 DEF Init
<1> QED  BY <1>2, <1>3, <1>4, <1>5, <1>6 DEF Import, TypeOK

LEMMA PeriodTypeStep ==
    ASSUME TypeOK, [Next]_vars
    PROVE  TypeOK'
<1>0. /\ MaxTime \in Nat /\ MaxFailures \in Nat /\ now \in 0 .. MaxTime
      /\ imp \in Import /\ NoImport \in Import
  BY PeriodAssumption DEF TypeOK, Import, NoImport
<1>1. CASE Tick
  <2>1. now' \in 0 .. MaxTime
    BY <1>0, <1>1 DEF Tick
  <2>2. PICK new : published' = [s \in Parts |-> IF s \in new THEN now + 1 ELSE published[s]]
    BY <1>1 DEF Tick
  <2>3. published' \in [Parts -> 0 .. MaxTime]
    BY <1>0, <1>1, <2>2 DEF Tick, TypeOK
  <2> QED  BY <1>1, <2>1, <2>3 DEF Tick, TypeOK
<1>2. CASE Begin
  <2>1. PICK start \in 0 .. MaxTime : start = PeriodStart
    BY PeriodTyped
  <2>2. PICK b \in BOOLEAN : b = SameMonth
    BY DEF SameMonth
  <2>3. imp' = [NoImport EXCEPT !.pc = "loading", !.start = start, !.again = b]
    BY <1>2, <2>1, <2>2 DEF Begin
  <2>4. imp' \in Import
    BY <1>0, <2>3 DEF Import
  <2>5. raw' \subseteq Resources \X Parts
    BY <1>2 DEF Begin, TypeOK
  <2> QED  BY <1>2, <2>4, <2>5 DEF Begin, Import, TypeOK
<1>3. CASE LoadRaw
  <2>1. Loaded \subseteq Parts
    BY DEF Loaded, Available
  <2>2. raw' \subseteq Resources \X Parts
    BY <1>3, <2>1 DEF LoadRaw, TypeOK
  <2>3. PICK todo \in SUBSET Resources :
            imp' = [imp EXCEPT !.pc = "saving", !.todo = todo, !.loaded = now]
    BY <1>3 DEF LoadRaw, ResourceIds
  <2>4. imp' \in Import
    BY <1>0, <2>3 DEF Import
  <2> QED  BY <1>3, <2>2, <2>4 DEF LoadRaw, Import, TypeOK
<1>4. ASSUME NEW r \in Resources, SaveClean(r)  PROVE TypeOK'
  <2>1. clean' \in [Resources \X Days -> SUBSET Parts]
    BY <1>4 DEF SaveClean, Read, TypeOK
  <2>2. imp' \in Import
    BY <1>0, <1>4 DEF SaveClean, Import
  <2> QED  BY <1>4, <2>1, <2>2 DEF SaveClean, Import, TypeOK
<1>5. CASE Finish
  BY <1>0, <1>5 DEF Finish, Import, TypeOK
<1>6. CASE Fail
  <2>1. Loaded \subseteq Parts
    BY DEF Loaded, Available
  <2>2. raw' \subseteq Resources \X Parts
    BY <1>6, <2>1 DEF Fail, TypeOK
  <2>3. failures' \in 0 .. MaxFailures
    BY <1>0, <1>6 DEF Fail, TypeOK
  <2> QED  BY <1>0, <1>6, <2>2, <2>3 DEF Fail, Import, TypeOK
<1>7. CASE UNCHANGED vars
  BY <1>7 DEF vars, TypeOK
<1> QED  BY <1>1, <1>2, <1>3, <1>4, <1>5, <1>6, <1>7 DEF Next

\* Every import covers a period that starts within the time that has passed
\* (detect_period_start of each importer).
THEOREM PeriodTypeCorrect == Spec => []TypeOK
<1> QED  BY PeriodTypeInit, PeriodTypeStep, PTL DEF Spec

-----------------------------------------------------------------------------
(***************************************************************************)
(* A cloud with one raw expense per day loads and removes raw expenses a   *)
(* day at a time: a day that has any has all that was ever counted.        *)
(***************************************************************************)
RawAvailable == \A e \in raw : e[2] \in Available

CleanOfDay ==
    \A k \in Resources \X Days : \A s \in clean[k] : s \in Available /\ Day(s) = k[2]

WholeDays ==
    cloud # "gcp" =>
        \A r \in Resources, s \in Parts :
            <<r, s>> \in raw => \A u \in clean[<<r, Day(s)>>] : <<r, u>> \in raw

DaysInv == RawAvailable /\ CleanOfDay /\ WholeDays

\* Parts of one day start at the same time, so an import takes all of them or none.
LEMMA SameStart ==
    ASSUME TypeOK, cloud # "gcp", NEW s \in Parts, NEW u \in Parts, Day(u) = Day(s)
    PROVE  /\ StartDate(u) = StartDate(s)
           /\ s \in Loaded /\ u \in Available => u \in Loaded
<1>1. cloud \in {"azure", "alibaba"}
  BY PeriodAssumption DEF TypeOK
<1> QED  BY <1>1 DEF StartDate, Loaded

LEMMA LoadsWholeDays ==
    ASSUME TypeOK, DaysInv, NEW new \in SUBSET Loaded, UNCHANGED <<cloud, published, clean>>,
           raw' = raw \cup (Resources \X new),
           \A s \in new, u \in Loaded : Day(u) = Day(s) => u \in new
    PROVE  DaysInv'
<1>0. Loaded \subseteq Available /\ Available \subseteq Parts
  BY DEF Loaded, Available
<1>1. Available' = Available
  BY DEF Available
<1>2. RawAvailable' /\ CleanOfDay'
  BY <1>0, <1>1 DEF DaysInv, RawAvailable, CleanOfDay
<1>3. ASSUME cloud # "gcp", NEW r \in Resources, NEW s \in Parts, <<r, s>> \in raw',
             NEW u \in clean[<<r, Day(s)>>]
      PROVE  <<r, u>> \in raw'
  <2>1. CASE <<r, s>> \in raw
    BY <1>3, <2>1 DEF DaysInv, WholeDays
  <2>2. CASE s \in new
    <3>1. <<r, Day(s)>> \in Resources \X Days
      BY DEF Days
    <3>2. u \in Available /\ Day(u) = Day(s)
      BY <3>1 DEF DaysInv, CleanOfDay
    <3>3. u \in Loaded
      BY <1>0, <1>3, <2>2, <3>2, SameStart
    <3> QED  BY <2>2, <3>2, <3>3
  <2> QED  BY <1>3, <2>1, <2>2
<1>4. WholeDays'
  BY <1>3 DEF WholeDays
<1> QED  BY <1>2, <1>4 DEF DaysInv

LEMMA DaysStep ==
    ASSUME TypeOK, DaysInv, [Next]_vars
    PROVE  DaysInv'
<1>1. CASE Tick
  <2>1. \A s \in Available : s \in Available'
    <3>1. PICK new : published' = [s \in Parts |-> IF s \in new THEN now + 1 ELSE published[s]]
      BY <1>1 DEF Tick
    <3>2. now + 1 # 0
      BY PeriodAssumption DEF TypeOK
    <3> QED  BY <3>1, <3>2 DEF Available
  <2> QED  BY <1>1, <2>1 DEF Tick, DaysInv, RawAvailable, CleanOfDay, WholeDays
<1>2. CASE Begin
  <2>1. UNCHANGED <<cloud, clean, published>>
    BY <1>2 DEF Begin
  <2>2. raw' = raw \/ raw' = {e \in raw : StartDate(e[2]) < PeriodStart}
    BY <1>2 DEF Begin
  <2>3. Available' = Available
    BY <2>1 DEF Available
  <2>4. RawAvailable' /\ CleanOfDay'
    BY <2>1, <2>2, <2>3 DEF DaysInv, RawAvailable, CleanOfDay
  <2>5. ASSUME cloud # "gcp", NEW r \in Resources, NEW s \in Parts, <<r, s>> \in raw',
               NEW u \in clean[<<r, Day(s)>>]
        PROVE  <<r, u>> \in raw'
    <3>1. <<r, s>> \in raw /\ <<r, u>> \in raw
      BY <2>2, <2>5 DEF DaysInv, WholeDays
    <3>2. u \in Parts /\ Day(u) = Day(s)
      BY <3>1 DEF DaysInv, CleanOfDay, Available, Days
    <3>3. StartDate(u) = StartDate(s)
      BY <2>5, <3>2, SameStart
    <3> QED  BY <2>2, <2>5, <3>1, <3>3
  <2>6. WholeDays'
    BY <2>1, <2>5 DEF WholeDays
  <2> QED  BY <2>4, <2>6 DEF DaysInv
<1>3. CASE LoadRaw
  BY <1>3, LoadsWholeDays DEF LoadRaw
<1>4. ASSUME NEW r \in Resources, SaveClean(r)  PROVE DaysInv'
  <2>1. UNCHANGED <<cloud, raw, published>>
    BY <1>4 DEF SaveClean
  <2>2. ASSUME NEW k \in Resources \X Days, NEW u \in clean'[k]
        PROVE  \/ u \in clean[k]
               \/ k[1] = r /\ u \in Parts /\ <<r, u>> \in raw /\ Day(u) = k[2]
    <3> DEFINE cost == {s \in Read(r) : Day(s) = k[2]}
    <3>1. clean'[k] = IF k[1] = r /\ cost # {} THEN cost ELSE clean[k]
      BY <1>4 DEF SaveClean
    <3>2. u \in clean[k] \/ (k[1] = r /\ u \in cost)
      BY <2>2, <3>1
    <3> QED  BY <3>2 DEF Read
  <2>3. Available' = Available
    BY <2>1 DEF Available
  <2>4. RawAvailable' /\ CleanOfDay'
    <3>1. \A e \in raw : e[2] \in Available
      BY DEF DaysInv, RawAvailable
    <3>2. RawAvailable'
      BY <2>1, <2>3, <3>1 DEF RawAvailable
    <3>3. ASSUME NEW k \in Resources \X Days, NEW u \in clean'[k]
          PROVE  u \in Available /\ Day(u) = k[2]
      BY <2>2, <3>1, <3>3 DEF DaysInv, CleanOfDay
    <3> QED  BY <2>3, <3>2, <3>3 DEF CleanOfDay
  <2>5. ASSUME cloud # "gcp", NEW q \in Resources, NEW s \in Parts, <<q, s>> \in raw,
               NEW u \in clean'[<<q, Day(s)>>]
        PROVE  <<q, u>> \in raw
    <3>1. <<q, Day(s)>> \in Resources \X Days
      BY DEF Days
    <3> QED  BY <2>2, <2>5, <3>1 DEF DaysInv, WholeDays
  <2>6. WholeDays'
    BY <2>1, <2>5 DEF WholeDays
  <2> QED  BY <2>4, <2>6 DEF DaysInv
<1>5. CASE Finish \/ UNCHANGED vars
  BY <1>5 DEF Finish, vars, DaysInv, RawAvailable, CleanOfDay, WholeDays, Available
<1>6. CASE Fail
  <2>1. UNCHANGED <<cloud, published, clean>>
    BY <1>6 DEF Fail
  <2>2. CASE imp.pc = "loading"
    <3>1. PICK d \in Days : raw' = raw \cup (Resources \X {s \in Loaded : Day(s) <= d})
      BY <1>6, <2>2 DEF Fail
    <3> DEFINE new == {s \in Loaded : Day(s) <= d}
    <3>2. new \in SUBSET Loaded /\ \A s \in new, u \in Loaded : Day(u) = Day(s) => u \in new
      OBVIOUS
    <3> QED  BY <2>1, <3>1, <3>2, LoadsWholeDays
  <2>3. CASE imp.pc # "loading"
    <3>1. raw' = raw
      BY <1>6, <2>3 DEF Fail
    <3> QED  BY <2>1, <3>1 DEF DaysInv, RawAvailable, CleanOfDay, WholeDays, Available
  <2> QED  BY <2>2, <2>3
<1> QED  BY <1>1, <1>2, <1>3, <1>4, <1>5, <1>6 DEF Next

LEMMA DaysInit == Init => DaysInv
  BY DEF Init, DaysInv, RawAvailable, CleanOfDay, WholeDays, Days

LEMMA SavesWholeDays ==
    ASSUME TypeOK, DaysInv, [Next]_vars, cloud # "gcp", NEW k \in Resources \X Days
    PROVE  clean[k] \subseteq clean'[k]
<1>1. ASSUME NEW r \in Resources, SaveClean(r), NEW u \in clean[k]  PROVE u \in clean'[k]
  <2> DEFINE cost == {s \in Read(r) : Day(s) = k[2]}
  <2>1. clean'[k] = IF k[1] = r /\ cost # {} THEN cost ELSE clean[k]
    BY <1>1 DEF SaveClean
  <2>2. CASE k[1] = r /\ cost # {}
    <3>1. PICK s \in Parts : <<r, s>> \in raw /\ StartDate(s) >= imp.start /\ Day(s) = k[2]
      BY <2>2 DEF Read
    <3>2. u \in Parts /\ Day(u) = Day(s) /\ k = <<r, Day(s)>>
      BY <1>1, <2>2, <3>1 DEF DaysInv, CleanOfDay, Available
    <3>3. <<r, u>> \in raw
      BY <1>1, <3>1, <3>2 DEF DaysInv, WholeDays
    <3>4. StartDate(u) >= imp.start
      BY <3>1, <3>2, SameStart
    <3>5. u \in cost
      BY <3>1, <3>2, <3>3, <3>4 DEF Read
    <3> QED  BY <2>1, <2>2, <3>5
  <2>3. CASE ~(k[1] = r /\ cost # {})
    BY <1>1, <2>1, <2>3
  <2> QED  BY <2>2, <2>3
<1>2. CASE ~(\E r \in Resources : SaveClean(r))
  BY <1>2 DEF Next, Tick, Begin, LoadRaw, Finish, Fail, vars
<1> QED  BY <1>1, <1>2

\* With one raw expense per day, the expense of a day never loses usage it has counted,
\* whatever day an import starts at, which raw expenses it removes and where it fails
\* (save_clean_expenses).
THEOREM DaysNeverShrink == Spec => DayNeverShrinks
<1>1. ASSUME TypeOK, DaysInv, [Next]_vars
      PROVE  [cloud # "gcp" => \A k \in Resources \X Days : clean[k] \subseteq clean'[k]]_vars
  BY <1>1, SavesWholeDays
<1> QED  BY <1>1, PeriodTypeInit, PeriodTypeStep, DaysInit, DaysStep, PTL
            DEF Spec, DayNeverShrinks
-----------------------------------------------------------------------------
(***************************************************************************)
(* What an import leaves behind.  An import that goes back in its month    *)
(* leaves nothing.  One that follows a change of month starts at the time  *)
(* of the last import: it leaves usage published since, and with gcp the   *)
(* hours of that day before it.  With imports every day it runs on the     *)
(* first day of a month, the next import is in the same month, and the     *)
(* days that one goes back reach what was left.                            *)
(***************************************************************************)
Late == cloud \in {"gcp", "azure"}

\* Usage is published after its time, Lag later at most.
Timely ==
    \A s \in Parts :
        /\ published[s] # 0 => s < published[s] /\ published[s] <= s + Lag /\ published[s] <= now
        /\ s + Lag <= now => published[s] # 0

\* The clock stands still in an import, and the last one is as old as its usage.
Clocked ==
    /\ last_import_at <= now /\ complete = last_import_at /\ Lag <= now
    /\ last_import_at = 0 => steady
    /\ imp.pc = "saving" => imp.loaded = now
    /\ imp.pc # "idle" => imp.again = SameMonth

Done(r) == imp.pc = "saving" /\ r \notin imp.todo

\* The latest day with an expense is no later than the last import.
CleanKnown ==
    /\ ~torn => \A k \in Resources \X Days : \A s \in clean[k] :
                    published[s] <= last_import_at \/ Done(k[1])
    /\ Late /\ ~torn /\ last_import_at # 0 => Expensed # {}

\* Where an import of gcp or azure starts.
StartsRight ==
    Late /\ ~torn /\ imp.pc # "idle" =>
        \/ last_import_at = 0 /\ imp.start = FirstStart
        \/ last_import_at # 0 /\ ~SameMonth /\ imp.start = last_import_at
        \/ /\ last_import_at # 0 /\ SameMonth
           /\ imp.start = DayStart(Day(imp.start))
           /\ imp.start = 0 \/ Day(imp.start) <= Day(last_import_at) - Lookback

\* The raw expenses of the period are there when chunks are saved.
RawLoaded ==
    Late /\ imp.pc = "saving" =>
        \A r \in Resources, s \in Available : StartDate(s) >= imp.start => <<r, s>> \in raw

\* Usage of a resource and part that is published by a time and not in the expenses.
Lacks(r, s, from, by) ==
    /\ StartDate(s) >= from
    /\ published[s] \in 1 .. by
    /\ s \notin clean[<<r, Day(s)>>]

\* What the last import left of a resource.
LeftByLast ==
    Late /\ steady /\ ~torn /\ last_import_at # 0 =>
        \A r \in Resources, s \in Parts :
            ~Done(r) /\ Lacks(r, s, first, last_import_at) =>
                /\ ~again
                /\ Day(last_import_at) % MonthDays = 0
                /\ Day(s) >= Day(last_import_at) - Lookback

\* The import in progress follows the last one within a day.
InTime == steady /\ (last_import_at = 0 \/ Day(now) <= Day(last_import_at) + 1)

\* What the import in progress leaves of a resource it has saved.
LeftByThis ==
    Late /\ InTime /\ ~torn =>
        \A r \in Resources, s \in Parts :
            Done(r) /\ Lacks(r, s, IF last_import_at = 0 THEN imp.start ELSE first, now) =>
                /\ last_import_at # 0 /\ ~imp.again
                /\ Day(s) >= Day(last_import_at) - (Lookback - 1)

LateInv ==
    Timely /\ Clocked /\ CleanKnown /\ StartsRight /\ RawLoaded /\ LeftByLast /\ LeftByThis
-----------------------------------------------------------------------------
(* Where parts, days and months lie.                                        *)

\* An expense starts within the day of its part.
LEMMA StartOfPart ==
    ASSUME NEW s \in Nat
    PROVE  /\ StartDate(s) \in Nat /\ StartDate(s) <= s
           /\ StartDate(s) < DayStart(Day(s)) + PartsOfDay
           /\ \A d \in Nat : DayStart(d) <= StartDate(s) <=> d <= Day(s)
  BY DEF StartDate, Day, DayStart, PartsOfDay

\* Usage that may be published after a time is not long before it.
LEMMA LagInDays ==
    ASSUME NEW s \in Nat, NEW t \in Nat, t < s + Lag
    PROVE  Day(s) >= Day(t) - (Lookback - 1)
<1>1. Lag \in Nat /\ Lookback \in Nat /\ Lag <= (Lookback - 1) * 2 + 1
  BY PeriodAssumption, LookbackAssumption DEF DayStart, PartsOfDay
<1>2. s + (Lookback - 1) * 2 >= t
  BY <1>1
<1> QED  BY <1>1, <1>2 DEF Day, PartsOfDay

\* The quotient is the one number whose multiple is that close.
LEMMA Quotient ==
    ASSUME NEW m \in Nat \ {0}, NEW x \in Nat
    PROVE  /\ x \div m \in Nat /\ x % m \in 0 .. m - 1
           /\ x = m * (x \div m) + (x % m)
           /\ \A q \in Nat, r \in 0 .. m - 1 : x = m * q + r => x \div m = q /\ x % m = r
<1>1. x \div m \in Nat /\ x % m \in 0 .. m - 1 /\ x = m * (x \div m) + (x % m)
  OBVIOUS
<1>2. ASSUME NEW p \in Nat, NEW q \in Nat, NEW u \in 0 .. m - 1, NEW r \in 0 .. m - 1,
             m * p + u = m * q + r
      PROVE  p <= q
  <2>1. SUFFICES ASSUME p >= q + 1 PROVE FALSE
    BY <1>2
  <2>2. m * p >= m * (q + 1)
    BY <2>1
  <2>3. m * (q + 1) = m * q + m
    OBVIOUS
  <2>4. m * p \in Nat /\ m * q \in Nat
    OBVIOUS
  <2> QED  BY <1>2, <2>2, <2>3, <2>4
<1>3. ASSUME NEW q \in Nat, NEW r \in 0 .. m - 1, x = m * q + r
      PROVE  x \div m = q /\ x % m = r
  <2>1. x \div m = q
    BY <1>1, <1>2, <1>3
  <2>2. m * q \in Nat
    OBVIOUS
  <2> QED  BY <1>1, <1>3, <2>1, <2>2
<1> QED  BY <1>1, <1>3

\* The next day is in the same month, or the first of one.
LEMMA NextDay ==
    ASSUME NEW x \in Nat
    PROVE  \/ /\ (x + 1) \div MonthDays = x \div MonthDays
              /\ (x + 1) % MonthDays # 0
           \/ (x + 1) % MonthDays = 0 /\ x % MonthDays # 0
<1> DEFINE m == MonthDays
<1>1. m \in Nat \ {0} /\ m > 1
  BY PeriodAssumption, LookbackAssumption
<1> HIDE DEF m
<1> DEFINE q == x \div m
           r == x % m
<1>2. q \in Nat /\ r \in 0 .. m - 1 /\ x = m * q + r
  BY <1>1, Quotient
<1> HIDE DEF q, r
<1>3. m * q \in Nat /\ m * (q + 1) = m * q + m
  BY <1>1, <1>2
<1>4. x + 1 \in Nat
  OBVIOUS
<1>5. CASE r < m - 1
  <2>1. r + 1 \in 0 .. m - 1 /\ x + 1 = m * q + (r + 1)
    BY <1>1, <1>2, <1>3, <1>5
  <2> DEFINE y == x + 1
             u == r + 1
  <2>2. y \in Nat /\ u \in 0 .. m - 1 /\ y = m * q + u
    BY <1>4, <2>1
  <2> HIDE DEF y, u
  <2>3. y \div m = q /\ y % m = u
    BY <1>1, <1>2, <2>2, Quotient
  <2>4. u # 0
    BY <1>2 DEF u
  <2> QED  BY <2>3, <2>4 DEF m, q, y
<1>6. CASE r = m - 1
  <2>1. x + 1 = m * (q + 1) + 0 /\ 0 \in 0 .. m - 1 /\ q + 1 \in Nat
    BY <1>1, <1>2, <1>3, <1>6
  <2>2. (x + 1) % m = 0
    BY <1>1, <1>4, <2>1, Quotient
  <2> QED  BY <1>1, <1>6, <2>2 DEF m, r
<1> QED  BY <1>1, <1>2, <1>5, <1>6

\* Imports of one day or two days in a row are in one month, unless the later day is
\* the first of a month; then the earlier one is not.
LEMMA MonthOfNext ==
    ASSUME NEW a \in Nat, NEW b \in Nat, a <= b, Day(b) <= Day(a) + 1, Month(a) # Month(b)
    PROVE  Day(b) % MonthDays = 0 /\ Day(a) % MonthDays # 0
<1>1. Day(a) \in Nat /\ (Day(b) = Day(a) \/ Day(b) = Day(a) + 1)
  BY DEF Day, PartsOfDay
<1>2. Day(b) = Day(a) + 1
  BY <1>1 DEF Month
<1> QED  BY <1>1, <1>2, NextDay DEF Month

\* The first import goes back over every day whose usage may still be published.
LEMMA FirstReaches ==
    ASSUME NEW t \in Nat, t = now, NEW s \in Nat, t <= s + Lag
    PROVE  FirstStart \in Nat /\ FirstStart <= StartDate(s)
<1> DEFINE q == Month(t)
           m == MonthDays
<1>1. /\ m \in Nat \ {0} /\ Lookback \in Nat /\ Lookback <= 3 * m /\ Lag \in Nat
      /\ Lag <= (Lookback - 1) * 2 + 1
  BY PeriodAssumption, LookbackAssumption DEF DayStart, PartsOfDay
<1>2. Day(t) \in Nat
  BY DayOfPart
<1>3. q \in Nat /\ q * m \in Nat /\ q * m <= Day(t)
  <2>1. q = Day(t) \div m
    BY DEF Month
  <2> HIDE DEF q, m
  <2> DEFINE d == Day(t)
             r == d % m
  <2>2. d \in Nat
    BY <1>2
  <2> HIDE DEF d
  <2>4. d \div m \in Nat /\ r \in 0 .. m - 1 /\ d = m * (d \div m) + r
    BY <1>1, <2>2, Quotient
  <2>5. q \in Nat /\ r \in 0 .. m - 1 /\ Day(t) = m * q + r
    BY <2>1, <2>4 DEF d
  <2> HIDE DEF r
  <2>3. m * q \in Nat /\ q * m = m * q
    BY <1>1, <2>5
  <2> QED  BY <1>1, <1>2, <2>5, <2>3
<1>4. FirstStart = IF (q * m) * 2 - (3 * m) * 2 < 0 THEN 0 ELSE (q * m) * 2 - (3 * m) * 2
  BY DEF FirstStart, MonthStart, DayStart, PartsOfDay
<1> HIDE DEF q, m
<1>5. Day(s) >= Day(t) - Lookback /\ Day(s) \in Nat
  <2>1. s + Lookback * 2 >= t
    BY <1>1
  <2> QED  BY <1>1, <2>1 DEF Day, PartsOfDay
<1> DEFINE p == q * m
<1>6. p \in Nat /\ p <= Day(t)
  BY <1>3
<1>7. FirstStart = IF p < 3 * m THEN 0 ELSE DayStart(p - 3 * m)
  <2> HIDE DEF p
  <2>1. FirstStart = IF p * 2 - (3 * m) * 2 < 0 THEN 0 ELSE p * 2 - (3 * m) * 2
    BY <1>4 DEF p
  <2> QED  BY <1>1, <1>6, <2>1 DEF DayStart, PartsOfDay
<1> HIDE DEF p
<1>8. CASE p < 3 * m
  BY <1>7, <1>8, StartOfPart
<1>9. CASE p >= 3 * m
  <2>1. p - 3 * m \in Nat /\ p - 3 * m <= Day(s)
    BY <1>1, <1>2, <1>5, <1>6, <1>9
  <2>2. DayStart(p - 3 * m) \in Nat
    BY <2>1 DEF DayStart, PartsOfDay
  <2> QED  BY <1>1, <1>6, <1>7, <1>9, <2>1, <2>2, StartOfPart
<1> QED  BY <1>1, <1>6, <1>8, <1>9
-----------------------------------------------------------------------------
(* What an import reads of a resource, and what it leaves.                  *)

LEMMA PartTyped ==
    ASSUME NEW s \in Parts
    PROVE  s \in Nat /\ Day(s) \in Days /\ Day(s) \in Nat
<1>1. s \in Nat
  BY PeriodAssumption DEF Parts
<1> QED  BY <1>1, DayOfPart DEF Days

\* A resource whose raw expenses of the period are read and saved lacks nothing after
\* an import that goes back in its month or is the first, and after one that follows a
\* change of month no day older than the next import goes back.
LEMMA Reaches ==
    ASSUME TypeOK, Timely, Clocked, StartsRight, LeftByLast, Late, InTime, ~torn,
           imp.pc # "idle", NEW r \in Resources, ~Done(r), NEW read \in SUBSET Parts, NEW c,
           \A s \in read : StartDate(s) >= imp.start,
           \A s \in Available : StartDate(s) >= imp.start => s \in read,
           \A d \in Days : c[d] = IF {s \in read : Day(s) = d} # {}
                                  THEN {s \in read : Day(s) = d} ELSE clean[<<r, d>>],
           NEW s \in Parts, published[s] \in 1 .. now, s \notin c[Day(s)],
           StartDate(s) >= IF last_import_at = 0 THEN imp.start ELSE first
    PROVE  /\ last_import_at # 0 /\ ~imp.again
           /\ Day(s) >= Day(last_import_at) - (Lookback - 1)
<1> DEFINE last == last_import_at
           start == imp.start
           cost == {u \in read : Day(u) = Day(s)}
<1>0. /\ s \in Nat /\ Day(s) \in Days /\ Day(s) \in Nat /\ last \in Nat /\ now \in Nat
      /\ start \in Nat /\ published[s] \in Nat /\ first \in Nat
      /\ Lookback \in Nat /\ Lookback >= 1 /\ Lag \in Nat /\ Day(last) \in Nat /\ last <= now
  <2>1. Lag <= (Lookback - 1) * 2 + 1 /\ Lag >= 1 /\ Lookback \in Nat
    BY PeriodAssumption, LookbackAssumption DEF DayStart, PartsOfDay
  <2>2. last \in Nat /\ now \in Nat
    BY PeriodAssumption DEF TypeOK
  <2> QED  BY <2>1, <2>2, PartTyped, DayOfPart, PeriodAssumption DEF TypeOK, Clocked
<1>1. StartDate(s) \in Nat /\ StartDate(s) < start
  <2>1. StartDate(s) \in Nat
    BY <1>0, StartOfPart
  <2>2. ASSUME StartDate(s) >= start  PROVE FALSE
    <3>1. s \in read
      BY <1>0, <2>2 DEF Available
    <3>2. s \in cost /\ c[Day(s)] = cost
      BY <1>0, <3>1
    <3> QED  BY <3>2
  <2> QED  BY <1>0, <2>1, <2>2
<1>2. last # 0
  BY <1>0, <1>1
<1>3. \/ /\ ~SameMonth /\ start = last
      \/ /\ SameMonth
         /\ start = DayStart(Day(start))
         /\ start = 0 \/ Day(start) <= Day(last) - Lookback
  BY <1>2 DEF StartsRight
<1>4. imp.again = SameMonth /\ Day(start) \in Nat
  BY <1>0, DayOfPart DEF Clocked
<1>5. CASE cost # {}
  <2>1. PICK u \in read : Day(u) = Day(s) /\ StartDate(u) >= start
    BY <1>5
  <2>2. u \in Nat
    BY PartTyped
  <2>3. CASE SameMonth
    <3>1. Day(start) <= Day(s)
      BY <1>3, <1>4, <2>1, <2>2, <2>3, StartOfPart
    <3> QED  BY <1>0, <1>1, <1>3, <1>4, <2>3, <3>1, StartOfPart
  <2>4. CASE ~SameMonth
    <3>1. u >= last
      BY <1>0, <1>3, <2>1, <2>2, <2>4, StartOfPart
    <3>2. Day(u) >= Day(last)
      BY <1>0, <2>2, <3>1 DEF Day, PartsOfDay
    <3> QED  BY <1>0, <1>2, <1>4, <2>1, <2>4, <3>2
  <2> QED  BY <2>3, <2>4
<1>6. CASE s \notin clean[<<r, Day(s)>>]
  <2>1. CASE published[s] <= last
    <3>1. Lacks(r, s, first, last)
      BY <1>0, <1>2, <1>6, <2>1 DEF Lacks
    <3>2. Day(last) % MonthDays = 0 /\ Day(s) >= Day(last) - Lookback
      BY <1>2, <3>1 DEF LeftByLast, InTime
    <3>3. CASE SameMonth
      <4>1. start = 0 \/ Day(start) <= Day(s)
        BY <1>0, <1>3, <1>4, <3>2, <3>3
      <4> QED  BY <1>0, <1>1, <1>3, <1>4, <3>3, <4>1, StartOfPart
    <3>4. CASE ~SameMonth
      <4>1. Month(last) # Month(now) /\ Day(now) <= Day(last) + 1
        BY <1>2, <3>4 DEF SameMonth, InTime
      <4> QED  BY <1>0, <3>2, <4>1, MonthOfNext
    <3> QED  BY <3>3, <3>4
  <2>2. CASE published[s] > last
    <3>1. last < s + Lag
      BY <1>0, <2>2 DEF Timely
    <3>2. Day(s) >= Day(last) - (Lookback - 1)
      BY <1>0, <3>1, LagInDays
    <3>3. CASE SameMonth
      <4>1. start = 0 \/ Day(start) <= Day(s)
        BY <1>0, <1>3, <1>4, <3>2, <3>3
      <4> QED  BY <1>0, <1>1, <1>3, <1>4, <3>3, <4>1, StartOfPart
    <3>4. CASE ~SameMonth
      BY <1>2, <1>4, <3>2, <3>4
    <3> QED  BY <3>3, <3>4
  <2> QED  BY <1>0, <2>1, <2>2
<1> QED  BY <1>0, <1>5, <1>6
-----------------------------------------------------------------------------
(* Every step keeps the invariant.                                          *)

LEMMA LateInit == Init => LateInv
<1> SUFFICES ASSUME Init PROVE LateInv
  OBVIOUS
<1>1. Lag \in Nat /\ Lag # 0 /\ Lag <= MaxTime /\ MaxTime \in Nat
  BY PeriodAssumption
<1>2. Timely
  <2>1. ASSUME NEW s \in Parts
        PROVE  /\ published[s] # 0 => s < published[s] /\ published[s] <= s + Lag
                                      /\ published[s] <= now
               /\ s + Lag <= now => published[s] # 0
    <3>1. s \in Nat
      BY PartTyped
    <3>2. now = Lag /\ published[s] = IF s = 0 THEN Lag ELSE 0
      BY DEF Init
    <3> QED  BY <1>1, <3>1, <3>2
  <2> QED  BY <2>1 DEF Timely
<1>3. Clocked
  BY <1>1 DEF Init, Clocked, NoImport
<1>4. CleanKnown
  BY DEF Init, CleanKnown
<1>5. StartsRight /\ RawLoaded /\ LeftByLast /\ LeftByThis
  BY DEF Init, StartsRight, RawLoaded, LeftByLast, LeftByThis, NoImport, Done
<1> QED  BY <1>2, <1>3, <1>4, <1>5 DEF LateInv

LEMMA LateTick ==
    ASSUME TypeOK, DaysInv, LateInv, Tick
    PROVE  LateInv'
<1>0. /\ now \in Nat /\ now' = now + 1 /\ Lag \in Nat /\ imp.pc = "idle"
      /\ last_import_at \in Nat
      /\ UNCHANGED <<cloud, raw, clean, last_import_at, imp, failures, first, complete,
                     torn, steady, again>>
  BY PeriodAssumption DEF Tick, TypeOK
<1>1. PICK new \in SUBSET {s \in Parts \ Available : s <= now} :
          /\ {s \in Parts \ Available : s + Lag <= now + 1} \subseteq new
          /\ published' = [s \in Parts |-> IF s \in new THEN now + 1 ELSE published[s]]
  BY DEF Tick
<1>2. ASSUME NEW s \in Parts
      PROVE  /\ published'[s] = IF s \in new THEN now + 1 ELSE published[s]
             /\ published[s] \in Nat /\ s \in Nat
             /\ s \in Available <=> published[s] # 0
             /\ s \in new => s \notin Available /\ s <= now
  BY <1>1, PartTyped, PeriodAssumption DEF Available, TypeOK
<1>3. Timely'
  <2>1. ASSUME NEW s \in Parts
        PROVE  /\ published'[s] # 0 => s < published'[s] /\ published'[s] <= s + Lag
                                       /\ published'[s] <= now + 1
               /\ s + Lag <= now + 1 => published'[s] # 0
    <3>1. CASE s \in new
      <4>1. ~(s + Lag <= now)
        BY <1>2, <3>1 DEF LateInv, Timely
      <4> QED  BY <1>0, <1>2, <3>1, <4>1
    <3>2. CASE s \notin new
      <4>1. published[s] # 0 => s < published[s] /\ published[s] <= s + Lag /\ published[s] <= now
        BY DEF LateInv, Timely
      <4>2. s + Lag <= now + 1 => published[s] # 0
        BY <1>1, <1>2, <3>2
      <4> QED  BY <1>0, <1>2, <3>2, <4>1, <4>2
    <3> QED  BY <3>1, <3>2
  <2> QED  BY <1>0, <2>1 DEF Timely
<1>4. Clocked'
  BY <1>0 DEF LateInv, Clocked
<1>5. \A r : ~Done(r) /\ ~Done(r)'
  BY <1>0 DEF Done
<1>6. CleanKnown'
  <2>1. ASSUME ~torn, NEW k \in Resources \X Days, NEW s \in clean[k]
        PROVE  published'[s] <= last_import_at
    <3>1. s \in Available /\ s \in Parts
      BY <2>1 DEF DaysInv, CleanOfDay, Available
    <3>2. published[s] <= last_import_at
      BY <1>5, <2>1 DEF LateInv, CleanKnown
    <3> QED  BY <1>2, <3>1, <3>2
  <2>2. Late' /\ ~torn' /\ last_import_at' # 0 => Expensed' # {}
    BY <1>0 DEF LateInv, CleanKnown, Late, Expensed
  <2> QED  BY <1>0, <2>1, <2>2 DEF CleanKnown
<1>7. LeftByLast'
  <2>1. ASSUME NEW r \in Resources, NEW s \in Parts, Lacks(r, s, first, last_import_at)'
        PROVE  Lacks(r, s, first, last_import_at)
    <3>1. StartDate(s)' = StartDate(s)
      BY <1>0 DEF StartDate
    <3>2. published'[s] \in 1 .. last_import_at
      BY <1>0, <2>1 DEF Lacks
    <3>3. last_import_at <= now
      BY DEF LateInv, Clocked
    <3>4. published[s] \in 1 .. last_import_at
      BY <1>0, <1>2, <3>2, <3>3
    <3> QED  BY <1>0, <2>1, <3>1, <3>4 DEF Lacks
  <2> QED  BY <1>0, <1>5, <2>1 DEF LateInv, LeftByLast, Late
<1>8. StartsRight' /\ RawLoaded' /\ LeftByThis'
  BY <1>0, <1>5 DEF StartsRight, RawLoaded, LeftByThis
<1> QED  BY <1>3, <1>4, <1>6, <1>7, <1>8 DEF LateInv

\* The start of the period (detect_period_start of gcp.py and azure.py).
LEMMA LateStart ==
    ASSUME TypeOK, DaysInv, CleanKnown, Timely, Late, ~torn, imp.pc = "idle"
    PROVE  \/ last_import_at = 0 /\ PeriodStart = FirstStart
           \/ last_import_at # 0 /\ ~SameMonth /\ PeriodStart = last_import_at
           \/ /\ last_import_at # 0 /\ SameMonth
              /\ PeriodStart = DayStart(Day(PeriodStart))
              /\ PeriodStart = 0 \/ Day(PeriodStart) <= Day(last_import_at) - Lookback
<1>1. SUFFICES ASSUME last_import_at # 0, SameMonth
               PROVE  /\ PeriodStart = DayStart(Day(PeriodStart))
                      /\ PeriodStart = 0 \/ Day(PeriodStart) <= Day(last_import_at) - Lookback
  BY DEF PeriodStart
<1>2. Expensed # {}
  BY <1>1 DEF CleanKnown
<1>3. PeriodStart = GoBack
  BY <1>1, <1>2 DEF PeriodStart, Late
<1> DEFINE d == Max(Expensed)
<1>4. PICK r \in Resources : clean[<<r, d>>] # {} /\ d \in Days
  BY <1>2, LatestDay DEF Expensed
<1>5. PICK s \in clean[<<r, d>>] : s \in Parts /\ Day(s) = d /\ published[s] <= last_import_at
  BY <1>4 DEF CleanKnown, DaysInv, CleanOfDay, Available, Done
<1>6. published[s] \in Nat /\ published[s] # 0 /\ s < published[s]
  BY <1>4, <1>5 DEF DaysInv, CleanOfDay, Available, Timely, TypeOK
<1>7. last_import_at \in Nat /\ s \in Nat /\ Lookback \in Nat
  BY <1>5, PartTyped, PeriodAssumption DEF TypeOK
<1>8. d \in Nat /\ Day(last_import_at) \in Nat /\ d <= Day(last_import_at)
  <2>1. s <= last_import_at
    BY <1>5, <1>6, <1>7
  <2> QED  BY <1>5, <1>7, <2>1 DEF Day, PartsOfDay
<1>9. GoBack = IF DayStart(d) - DayStart(Lookback) < 0 THEN 0
               ELSE DayStart(d) - DayStart(Lookback)
  BY DEF GoBack, get_last_import_date
<1> HIDE DEF d
<1>10. GoBack = IF d < Lookback THEN 0 ELSE DayStart(d - Lookback)
  BY <1>7, <1>8, <1>9 DEF DayStart, PartsOfDay
<1>11. CASE d < Lookback
  BY <1>3, <1>10, <1>11 DEF DayStart, Day, PartsOfDay
<1>12. CASE d >= Lookback
  <2>1. d - Lookback \in Nat /\ GoBack = DayStart(d - Lookback)
    BY <1>7, <1>8, <1>10, <1>12
  <2>2. Day(GoBack) = d - Lookback
    BY <2>1 DEF DayStart, Day, PartsOfDay
  <2> QED  BY <1>3, <1>7, <1>8, <2>1, <2>2
<1> QED  BY <1>7, <1>8, <1>11, <1>12

LEMMA LateBegin ==
    ASSUME TypeOK, DaysInv, LateInv, Begin
    PROVE  LateInv'
<1>0. /\ imp.pc = "idle"
      /\ UNCHANGED <<cloud, now, published, clean, last_import_at, failures, first,
                     complete, torn, steady, again>>
      /\ imp'.pc = "loading" /\ imp'.start = PeriodStart /\ imp'.again = SameMonth
  BY DEF Begin, NoImport
<1>1. \A r : ~Done(r) /\ ~Done(r)'
  BY <1>0 DEF Done
<1>2. Timely' /\ Clocked'
  BY <1>0 DEF LateInv, Timely, Clocked, SameMonth, Month
<1>3. CleanKnown'
  BY <1>0, <1>1 DEF LateInv, CleanKnown, Late, Expensed
<1>4. StartsRight'
  <2>1. SameMonth' = SameMonth /\ FirstStart' = FirstStart /\ Late' = Late
    BY <1>0 DEF SameMonth, Month, FirstStart, MonthStart, Late
  <2> QED  BY <1>0, <2>1, LateStart DEF LateInv, StartsRight
<1>5. LeftByLast'
  BY <1>0, <1>1 DEF LateInv, LeftByLast, Lacks, StartDate, Late
<1>6. RawLoaded' /\ LeftByThis'
  BY <1>0, <1>1 DEF RawLoaded, LeftByThis
<1> QED  BY <1>2, <1>3, <1>4, <1>5, <1>6 DEF LateInv
LEMMA LateLoadRaw ==
    ASSUME TypeOK, TypeOK', DaysInv, LateInv, LoadRaw
    PROVE  LateInv'
<1>0. /\ imp.pc = "loading"
      /\ UNCHANGED <<cloud, now, published, clean, last_import_at, failures, first,
                     complete, torn, steady, again>>
      /\ imp'.pc = "saving" /\ imp'.start = imp.start /\ imp'.again = imp.again
      /\ imp'.loaded = now
      /\ raw' = raw \cup (Resources \X Loaded)
      /\ imp'.todo = {r \in Resources : \E e \in raw' : e[1] = r /\ StartDate(e[2]) >= imp.start}
  BY DEF LoadRaw, TypeOK, ResourceIds
<1>1. \A r : ~Done(r)
  BY <1>0 DEF Done
<1>2. /\ Late' = Late /\ SameMonth' = SameMonth /\ FirstStart' = FirstStart
      /\ InTime' = InTime /\ Available' = Available
      /\ \A s : StartDate(s)' = StartDate(s)
  BY <1>0 DEF Late, SameMonth, Month, FirstStart, MonthStart, InTime, Available, StartDate
<1>3. Timely' /\ Clocked'
  BY <1>0, <1>2 DEF LateInv, Timely, Clocked
<1>4. CleanKnown'
  BY <1>0, <1>1, <1>2 DEF LateInv, CleanKnown, Expensed
<1>5. StartsRight'
  BY <1>0, <1>2 DEF LateInv, StartsRight
<1>6. ASSUME Late, NEW r \in Resources, NEW s \in Available, StartDate(s) >= imp.start
      PROVE  <<r, s>> \in raw'
  <2>1. s \in Parts /\ published[s] # 0 /\ published[s] \in Nat /\ s \in Nat /\ imp.start \in Nat
    BY PartTyped, PeriodAssumption DEF Available, TypeOK
  <2>2. CASE cloud = "azure"
    BY <1>0, <1>6, <2>2 DEF Loaded
  <2>3. CASE cloud = "gcp"
    <3>1. imp.start <= s /\ s < published[s]
      BY <1>6, <2>1, <2>3 DEF StartDate, LateInv, Timely
    <3>2. Day(published[s]) >= Day(imp.start)
      BY <2>1, <3>1 DEF Day, PartsOfDay
    <3>3. s \in Loaded
      BY <2>3, <3>2 DEF Loaded
    <3> QED  BY <1>0, <3>3
  <2> QED  BY <1>6, <2>2, <2>3 DEF Late
<1>7. RawLoaded'
  BY <1>0, <1>2, <1>6 DEF RawLoaded
<1>8. LeftByLast'
  BY <1>0, <1>1, <1>2 DEF LateInv, LeftByLast, Lacks
<1>9. LeftByThis'
  <2>1. SUFFICES ASSUME Late, InTime, ~torn, NEW r \in Resources, NEW s \in Parts, Done(r)',
                        StartDate(s) >= IF last_import_at = 0 THEN imp.start ELSE first,
                        published[s] \in 1 .. now, s \notin clean[<<r, Day(s)>>]
                 PROVE  /\ last_import_at # 0 /\ ~imp.again
                        /\ Day(s) >= Day(last_import_at) - (Lookback - 1)
    BY <1>0, <1>2 DEF LeftByThis, Lacks
  <2> DEFINE c == [d \in Days |-> clean[<<r, d>>]]
  <2>2. ASSUME NEW u \in Available, StartDate(u) >= imp.start  PROVE FALSE
    <3>1. <<r, u>> \in raw'
      BY <1>6, <2>1, <2>2
    <3>2. <<r, u>>[1] = r /\ <<r, u>>[2] = u
      OBVIOUS
    <3>3. r \in imp'.todo
      BY <1>0, <2>2, <3>1, <3>2
    <3> QED  BY <1>0, <2>1, <3>3 DEF Done
  <2>3. \A d \in Days : c[d] = IF {u \in {} : Day(u) = d} # {}
                               THEN {u \in {} : Day(u) = d} ELSE clean[<<r, d>>]
    OBVIOUS
  <2>4. s \notin c[Day(s)]
    BY <2>1, PartTyped
  <2>5. {} \in SUBSET Parts /\ imp.pc # "idle" /\ \A u \in {} : StartDate(u) >= imp.start
    BY <1>0
  <2> HIDE DEF c
  <2> QED  BY <1>1, <2>1, <2>2, <2>3, <2>4, <2>5, Reaches DEF LateInv
<1> QED  BY <1>3, <1>4, <1>5, <1>7, <1>8, <1>9 DEF LateInv

LEMMA LateSaveClean ==
    ASSUME TypeOK, DaysInv, LateInv, NEW r \in Resources, SaveClean(r)
    PROVE  LateInv'
<1>0. /\ imp.pc = "saving" /\ r \in imp.todo
      /\ UNCHANGED <<cloud, now, published, raw, last_import_at, failures, first,
                     complete, torn, steady, again>>
      /\ imp'.pc = "saving" /\ imp'.start = imp.start /\ imp'.again = imp.again
      /\ imp'.loaded = imp.loaded /\ imp'.todo = imp.todo \ {r}
  BY DEF SaveClean, TypeOK
<1>1. \A q : Done(q)' <=> q = r \/ Done(q)
  BY <1>0 DEF Done
<1>2. /\ Late' = Late /\ SameMonth' = SameMonth /\ FirstStart' = FirstStart
      /\ InTime' = InTime /\ Available' = Available
      /\ \A s : StartDate(s)' = StartDate(s)
  BY <1>0 DEF Late, SameMonth, Month, FirstStart, MonthStart, InTime, Available, StartDate
<1>3. Timely' /\ Clocked'
  BY <1>0, <1>2 DEF LateInv, Timely, Clocked
<1>4. ASSUME NEW q \in Resources, NEW d \in Days
      PROVE  clean'[<<q, d>>] = IF q = r /\ {s \in Read(r) : Day(s) = d} # {}
                                THEN {s \in Read(r) : Day(s) = d} ELSE clean[<<q, d>>]
  BY DEF SaveClean
<1>5. CleanKnown'
  <2>1. ASSUME ~torn, NEW k \in Resources \X Days, NEW s \in clean'[k]
        PROVE  published[s] <= last_import_at \/ Done(k[1])'
    <3>1. CASE k[1] = r
      BY <1>1, <3>1
    <3>2. CASE k[1] # r
      <4>0. k[1] \in Resources /\ k[2] \in Days /\ k = <<k[1], k[2]>>
        OBVIOUS
      <4>1. s \in clean[k]
        BY <1>4, <2>1, <3>2, <4>0
      <4> QED  BY <1>1, <2>1, <4>1 DEF LateInv, CleanKnown
    <3> QED  BY <3>1, <3>2
  <2>2. Expensed # {} => Expensed' # {}
    <3>1. ASSUME NEW d \in Days, NEW q \in Resources, clean[<<q, d>>] # {}
          PROVE  clean'[<<q, d>>] # {}
      BY <1>4, <3>1
    <3> QED  BY <3>1 DEF Expensed
  <2> QED  BY <1>0, <1>2, <2>1, <2>2 DEF LateInv, CleanKnown
<1>6. StartsRight'
  BY <1>0, <1>2 DEF LateInv, StartsRight
<1>7. RawLoaded'
  BY <1>0, <1>2 DEF LateInv, RawLoaded
<1>8. LeftByLast'
  <2>1. ASSUME NEW q \in Resources, NEW s \in Parts, ~Done(q)',
               Lacks(q, s, first, last_import_at)'
        PROVE  ~Done(q) /\ Lacks(q, s, first, last_import_at)
    <3>1. ~Done(q) /\ q # r /\ Day(s) \in Days
      BY <1>1, <2>1, PartTyped
    <3>2. clean'[<<q, Day(s)>>] = clean[<<q, Day(s)>>]
      BY <1>4, <3>1
    <3> QED  BY <1>0, <1>2, <2>1, <3>1, <3>2 DEF Lacks
  <2> QED  BY <1>0, <1>2, <2>1 DEF LateInv, LeftByLast
<1>9. LeftByThis'
  <2>1. SUFFICES ASSUME Late, InTime, ~torn, NEW q \in Resources, NEW s \in Parts, Done(q)',
                        StartDate(s) >= IF last_import_at = 0 THEN imp.start ELSE first,
                        published[s] \in 1 .. now, s \notin clean'[<<q, Day(s)>>]
                 PROVE  /\ last_import_at # 0 /\ ~imp.again
                        /\ Day(s) >= Day(last_import_at) - (Lookback - 1)
    BY <1>0, <1>2 DEF LeftByThis, Lacks
  <2>2. CASE q # r
    <3>1. Done(q) /\ Day(s) \in Days
      BY <1>1, <2>1, <2>2, PartTyped
    <3>2. clean'[<<q, Day(s)>>] = clean[<<q, Day(s)>>]
      BY <1>4, <2>2, <3>1
    <3> QED  BY <2>1, <3>1, <3>2 DEF LateInv, LeftByThis, Lacks
  <2>3. CASE q = r
    <3> DEFINE c == [d \in Days |-> clean'[<<r, d>>]]
               read == Read(r)
    <3>1. \A d \in Days : c[d] = IF {u \in read : Day(u) = d} # {}
                                 THEN {u \in read : Day(u) = d} ELSE clean[<<r, d>>]
      BY <1>4
    <3>2. s \notin c[Day(s)]
      BY <2>1, <2>3, PartTyped
    <3>3. read \in SUBSET Parts /\ \A u \in read : StartDate(u) >= imp.start
      BY DEF Read
    <3>4. \A u \in Available : StartDate(u) >= imp.start => u \in read
      BY <1>0, <2>1 DEF Read, LateInv, RawLoaded, Available
    <3>5. ~Done(r) /\ imp.pc # "idle"
      BY <1>0 DEF Done
    <3> HIDE DEF c, read
    <3> QED  BY <2>1, <3>1, <3>2, <3>3, <3>4, <3>5, Reaches DEF LateInv
  <2> QED  BY <2>2, <2>3
<1> QED  BY <1>3, <1>5, <1>6, <1>7, <1>8, <1>9 DEF LateInv
LEMMA LateFinish ==
    ASSUME TypeOK, DaysInv, LateInv, Finish
    PROVE  LateInv'
<1>0. /\ imp.pc = "saving" /\ imp.todo = {} /\ imp'.pc = "idle"
      /\ last_import_at' = now /\ complete' = imp.loaded /\ again' = imp.again
      /\ first' = IF last_import_at = 0 THEN imp.start ELSE first
      /\ steady' = InTime
      /\ UNCHANGED <<cloud, now, published, raw, clean, failures, torn>>
  BY DEF Finish, NoImport, InTime
<1>1. /\ now \in Nat /\ last_import_at \in Nat /\ last_import_at <= now /\ Lag \in Nat
      /\ Lag # 0 /\ Lag <= now /\ now <= MaxTime /\ MaxTime \in Nat /\ imp.loaded = now
      /\ Lookback \in Nat
  BY <1>0, PeriodAssumption DEF TypeOK, LateInv, Clocked
<1>2. /\ \A r : ~Done(r)' /\ Done(r)
      /\ Late' = Late /\ \A s : StartDate(s)' = StartDate(s)
  BY <1>0 DEF Done, Late, StartDate
<1>3. Timely' /\ Clocked'
  BY <1>0, <1>1 DEF LateInv, Timely, Clocked
<1>4. CleanKnown'
  <2>1. ASSUME NEW k \in Resources \X Days, NEW s \in clean[k]
        PROVE  published[s] <= now
    BY <2>1 DEF DaysInv, CleanOfDay, Available, LateInv, Timely
  <2>2. ASSUME Late, ~torn, last_import_at = 0  PROVE Expensed # {}
    <3> DEFINE s == now - Lag
    <3>1. s \in Parts /\ s \in Nat /\ s + Lag = now
      BY <1>1 DEF Parts
    <3> HIDE DEF s
    <3>2. published[s] # 0 /\ published[s] \in Nat /\ published[s] <= now
      BY <1>1, <3>1, PeriodAssumption DEF LateInv, Timely, TypeOK
    <3>3. imp.start = FirstStart
      BY <1>0, <2>2 DEF LateInv, StartsRight
    <3>4. StartDate(s) >= imp.start
      BY <1>1, <3>1, <3>3, FirstReaches, StartOfPart
    <3>5. PICK r \in Resources : Done(r)
      BY <1>2, PeriodAssumption
    <3>6. InTime
      BY <2>2 DEF LateInv, Clocked, InTime
    <3>7. ~Lacks(r, s, IF last_import_at = 0 THEN imp.start ELSE first, now)
      BY <2>2, <3>1, <3>5, <3>6 DEF LateInv, LeftByThis
    <3>8. s \in clean[<<r, Day(s)>>]
      BY <1>1, <2>2, <3>2, <3>4, <3>7 DEF Lacks
    <3> QED  BY <3>1, <3>8, PartTyped DEF Expensed
  <2>3. Late /\ ~torn => Expensed # {}
    BY <2>2 DEF LateInv, CleanKnown
  <2> QED  BY <1>0, <1>2, <2>1, <2>3 DEF CleanKnown, Expensed
<1>5. LeftByLast'
  <2>1. SUFFICES ASSUME Late, InTime, ~torn, NEW r \in Resources, NEW s \in Parts,
                        Lacks(r, s, first, last_import_at)'
                 PROVE  ~imp.again /\ Day(now) % MonthDays = 0 /\ Day(s) >= Day(now) - Lookback
    BY <1>0, <1>2 DEF LeftByLast
  <2>2. Lacks(r, s, IF last_import_at = 0 THEN imp.start ELSE first, now)
    BY <1>0, <1>2, <2>1 DEF Lacks
  <2>3. /\ last_import_at # 0 /\ ~imp.again
        /\ Day(s) >= Day(last_import_at) - (Lookback - 1)
    BY <1>2, <2>1, <2>2 DEF LateInv, LeftByThis
  <2>4. Month(last_import_at) # Month(now)
    BY <1>0, <2>3 DEF LateInv, Clocked, SameMonth
  <2>5. Day(now) <= Day(last_import_at) + 1
    BY <2>1, <2>3 DEF InTime
  <2>6. Day(now) % MonthDays = 0
    BY <1>1, <2>4, <2>5, MonthOfNext
  <2>7. Day(now) \in Nat /\ Day(last_import_at) \in Nat /\ Day(s) \in Nat
    BY <1>1, DayOfPart, PartTyped
  <2> QED  BY <1>1, <2>3, <2>5, <2>6, <2>7
<1>6. StartsRight' /\ RawLoaded' /\ LeftByThis'
  BY <1>0, <1>2 DEF StartsRight, RawLoaded, LeftByThis
<1> QED  BY <1>3, <1>4, <1>5, <1>6 DEF LateInv

LEMMA LateFail ==
    ASSUME TypeOK, DaysInv, LateInv, Fail
    PROVE  LateInv'
<1>0. /\ imp.pc # "idle" /\ imp'.pc = "idle" /\ torn' = (torn \/ imp.pc = "saving")
      /\ UNCHANGED <<cloud, now, published, clean, last_import_at, first, complete,
                     steady, again>>
  BY DEF Fail, NoImport
<1>1. /\ \A r : ~Done(r)' /\ (~torn' => ~Done(r))
      /\ Late' = Late /\ \A s : StartDate(s)' = StartDate(s)
  BY <1>0 DEF Done, Late, StartDate
<1>2. Timely' /\ Clocked'
  BY <1>0 DEF LateInv, Timely, Clocked
<1>3. CleanKnown'
  BY <1>0, <1>1 DEF LateInv, CleanKnown, Expensed
<1>4. LeftByLast'
  BY <1>0, <1>1 DEF LateInv, LeftByLast, Lacks
<1>5. StartsRight' /\ RawLoaded' /\ LeftByThis'
  BY <1>0, <1>1 DEF StartsRight, RawLoaded, LeftByThis
<1> QED  BY <1>2, <1>3, <1>4, <1>5 DEF LateInv

LEMMA LateStep ==
    ASSUME TypeOK, TypeOK', DaysInv, LateInv, [Next]_vars
    PROVE  LateInv'
<1>1. CASE UNCHANGED vars
  BY <1>1 DEF vars, LateInv, Timely, Clocked, CleanKnown, StartsRight, RawLoaded, LeftByLast,
              LeftByThis, Lacks, Done, Late, InTime, SameMonth, Month, FirstStart, MonthStart,
              Available, Expensed, StartDate
<1>2. CASE Next
  BY <1>2, LateTick, LateBegin, LateLoadRaw, LateSaveClean, LateFinish, LateFail DEF Next
<1> QED  BY <1>1, <1>2

LEMMA NothingLeft ==
    ASSUME TypeOK, LateInv
    PROVE  LateUsageCounted
<1> SUFFICES ASSUME steady, ~torn, again, Late, imp.pc = "idle", NEW e \in Missing
             PROVE  FALSE
  BY DEF LateUsageCounted, Late
<1>1. /\ e[1] \in Resources /\ e[2] \in Parts
      /\ Lacks(e[1], e[2], first, last_import_at)
  BY DEF Missing, Lacks, LateInv, Clocked
<1>2. last_import_at # 0
  BY <1>1 DEF Lacks
<1> QED  BY <1>1, <1>2 DEF LateInv, LeftByLast, Done

\* With imports every day and none that fails between two chunks, the days that gcp and
\* azure go back in a month reach everything that an import before left behind: usage
\* published after it, and usage of before a change of month (detect_period_start of
\* gcp.py and azure.py).
THEOREM LateUsageIsCounted == Spec => []LateUsageCounted
<1> QED  BY PeriodTypeInit, PeriodTypeStep, DaysInit, DaysStep, LateInit, LateStep, NothingLeft,
            PTL DEF Spec
=============================================================================
