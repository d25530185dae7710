-------------------------- MODULE ExpenseLedger_proofs --------------------------
(***************************************************************************)
(* Theorems about ExpenseLedger, for every value of its constants.  The    *)
(* first part does not depend on the sums of the queries, only on whether  *)
(* an import found rows: the sums are any values there.  The second part   *)
(* is about the sums, what ClickHouse adds up for a day and for a          *)
(* resource, and about the refinement of DailyTotals.                      *)
(*                                                                         *)
(* The sums are folds, that is recursive functions on the subsets of a     *)
(* finite set.  That such a function exists, and what it returns, is shown *)
(* by induction on the size of the subsets, with the set of the sizes for  *)
(* which it holds in place of a predicate.                                 *)
(***************************************************************************)
EXTENDS LedgerRefinement, SequenceTheorems, FiniteSetTheorems, WellFoundedInduction, TLAPS

\* The importers and the rows are well formed when the sums are values of V.
Importer_V(V) ==
    [pc : {"idle", "loading", "cleared", "generating", "reading", "writing",
           "inserted", "summed"},
     todo : SUBSET Resources, resource : Resources,
     want : [Dates -> Costs \cup {NoCost}], seen : [Dates -> V], sum : V]

Shape_V(V) ==
    /\ Costs \cup {NoCost, 0} \subseteq V
    /\ raw \in [Keys -> Costs \cup {NoCost}]
    /\ imp \in [Importers -> Importer_V(V)]
    /\ expenses \in [Keys -> Seq([minus : V, plus : V])]

Shape == \E V : Shape_V(V)

\* The rows of a day begin without a cancelling row and end with the cost that
\* was inserted last.
Ends ==
    \A k \in Keys : expenses[k] # <<>> =>
        /\ expenses[k][1].minus = NoCost
        /\ expenses[k][Len(expenses[k])].plus = entered[k]

\* An import that is about to cancel a cost of a day has found rows of the day,
\* and a day never loses all its rows.
SeenIsThere ==
    \A i \in Importers : imp[i].pc = "writing" =>
        \A d \in Dates : imp[i].seen[d] # NoCost =>
            expenses[<<imp[i].resource, d>>] # <<>>

LedgerInv == Shape /\ Ends /\ SeenIsThere

-----------------------------------------------------------------------------
(* Sequences.                                                               *)

\* The elements of a sequence.
LEMMA SeqElement ==
    ASSUME NEW S, NEW s \in Seq(S), NEW n \in 1 .. Len(s)
    PROVE  s[n] \in S /\ s # <<>>
  OBVIOUS

\* A sequence over a set is one over a larger set.
LEMMA SeqWiden ==
    ASSUME NEW S, NEW T, S \subseteq T, NEW s \in Seq(S)
    PROVE  s \in Seq(T)
  OBVIOUS

\* Appending keeps the first element and makes the new one the last.
LEMMA AppendEnds ==
    ASSUME NEW S, NEW s \in Seq(S), NEW e \in S
    PROVE  /\ Append(s, e) \in Seq(S)
           /\ Append(s, e) # <<>>
           /\ s = <<>> => Append(s, e)[1] = e
           /\ s # <<>> => Append(s, e)[1] = s[1]
           /\ Append(s, e)[Len(Append(s, e))] = e
  OBVIOUS

\* A concatenation begins as its first part and ends as its last.
LEMMA JoinEnds ==
    ASSUME NEW S, NEW b \in Seq(S), NEW z \in Seq(S), b # <<>>
    PROVE  /\ b \o z \in Seq(S)
           /\ b \o z # <<>>
           /\ (b \o z)[1] = b[1]
           /\ (b \o z)[Len(b \o z)] = IF z = <<>> THEN b[Len(b)] ELSE z[Len(z)]
<1>1. /\ b \o z \in Seq(S)
      /\ Len(b \o z) = Len(b) + Len(z)
      /\ \A i \in 1 .. Len(b) + Len(z) :
            (b \o z)[i] = IF i <= Len(b) THEN b[i] ELSE z[i - Len(b)]
  BY ConcatProperties
<1>2. /\ Len(b) \in Nat /\ Len(z) \in Nat /\ Len(b) >= 1
      /\ z = <<>> <=> Len(z) = 0
  OBVIOUS
<1>3. b \o z # <<>>
  BY <1>1, <1>2
<1>4. (b \o z)[1] = b[1]
  BY <1>1, <1>2
<1>5. (b \o z)[Len(b \o z)] = IF z = <<>> THEN b[Len(b)] ELSE z[Len(z)]
  <2> DEFINE l == Len(b) + Len(z)
  <2>1. (b \o z)[l] = IF l <= Len(b) THEN b[l] ELSE z[l - Len(b)]
    BY <1>1, <1>2
  <2>2. CASE Len(z) = 0
    BY <1>1, <1>2, <2>1, <2>2
  <2>3. CASE Len(z) > 0
    <3>1. l - Len(b) = Len(z) /\ ~(l <= Len(b))
      BY <1>2, <2>3
    <3>2. QED
      BY <1>1, <1>2, <2>1, <2>3, <3>1
  <2>4. QED
    BY <1>2, <2>2, <2>3
<1>6. QED
  BY <1>1, <1>3, <1>4, <1>5

\* s with its elements n and n + 1 replaced by e.
Replaced(s, e, n) == SubSeq(s, 1, n - 1) \o <<e>> \o SubSeq(s, n + 2, Len(s))

EndsKept(S, s, e, n, t) ==
    /\ t \in Seq(S)
    /\ t # <<>>
    /\ t[1] = IF n = 1 THEN e ELSE s[1]
    /\ t[Len(t)] = IF n + 1 = Len(s) THEN e ELSE s[Len(s)]

\* Replacing two neighbours by one element keeps a sequence's ends, unless they
\* are replaced.
LEMMA MergeEnds ==
    ASSUME NEW S, NEW s \in Seq(S), NEW e \in S, NEW n \in 1 .. Len(s) - 1
    PROVE  EndsKept(S, s, e, n, Replaced(s, e, n))
<1> DEFINE a == SubSeq(s, 1, n - 1)
           z == SubSeq(s, n + 2, Len(s))
           b == a \o <<e>>
<1>0. Len(s) \in Nat /\ n \in Nat /\ n >= 1 /\ n + 1 <= Len(s)
  OBVIOUS
<1>1. /\ a \in Seq(S) /\ Len(a) = n - 1
      /\ \A j \in 1 .. n - 1 : a[j] = s[j]
  BY <1>0
<1>2. /\ z \in Seq(S) /\ Len(z) = Len(s) - n - 1
      /\ \A j \in 1 .. Len(s) - n - 1 : z[j] = s[n + 1 + j]
  BY <1>0
<1> HIDE DEF a, z
<1>3. /\ b \in Seq(S) /\ Len(b) = n
      /\ \A j \in 1 .. n - 1 : b[j] = s[j]
      /\ b[n] = e
  <2>1. <<e>> \in Seq(S) /\ Len(<<e>>) = 1 /\ <<e>>[1] = e
    OBVIOUS
  <2>2. b \in Seq(S) /\ Len(b) = n
    BY <1>0, <1>1, <2>1
  <2>3. \A j \in 1 .. n - 1 : b[j] = a[j]
    BY <1>0, <1>1, <2>1
  <2>4. b[n] = e
    BY <1>0, <1>1, <2>1
  <2> QED  BY <1>1, <2>2, <2>3, <2>4
<1>4. Replaced(s, e, n) = b \o z
  BY DEF a, b, z, Replaced
<1> HIDE DEF b
<1>5. b # <<>> /\ b[1] = (IF n = 1 THEN e ELSE s[1])
  BY <1>0, <1>3
<1>6. (IF z = <<>> THEN b[Len(b)] ELSE z[Len(z)])
         = IF n + 1 = Len(s) THEN e ELSE s[Len(s)]
  <2>1. z = <<>> <=> Len(z) = 0
    BY <1>2
  <2>2. CASE n + 1 = Len(s)
    BY <1>0, <1>2, <1>3, <2>1, <2>2
  <2>3. CASE n + 1 < Len(s)
    <3>1. Len(z) \in 1 .. Len(s) - n - 1 /\ n + 1 + Len(z) = Len(s)
      BY <1>0, <1>2, <2>3
    <3>2. z[Len(z)] = s[Len(s)]
      BY <1>2, <3>1
    <3>3. QED
      BY <1>0, <2>1, <2>3, <3>1, <3>2
  <2>4. QED
    BY <1>0, <2>2, <2>3
<1>7. /\ b \o z \in Seq(S)
      /\ b \o z # <<>>
      /\ (b \o z)[1] = b[1]
      /\ (b \o z)[Len(b \o z)] = IF z = <<>> THEN b[Len(b)] ELSE z[Len(z)]
  BY <1>2, <1>3, <1>5, JoinEnds
<1>8. EndsKept(S, s, e, n, b \o z)
  BY <1>5, <1>6, <1>7 DEF EndsKept
<1>9. QED
  BY <1>4, <1>8

-----------------------------------------------------------------------------
(* The invariant.                                                           *)

\* An idle importer is well formed.
LEMMA IdleTyped ==
    ASSUME NEW V, Costs \cup {NoCost, 0} \subseteq V
    PROVE  Idle \in Importer_V(V) /\ Idle.pc = "idle"
<1> DEFINE first == CHOOSE r \in Resources : TRUE
<1>1. first \in Resources
  BY LedgerAssumption
<1>2. Idle = [pc |-> "idle", todo |-> {}, resource |-> first,
              want |-> [d \in Dates |-> NoCost],
              seen |-> [d \in Dates |-> NoCost], sum |-> 0]
  BY DEF Idle
<1>3. /\ [d \in Dates |-> NoCost] \in [Dates -> Costs \cup {NoCost}]
      /\ [d \in Dates |-> NoCost] \in [Dates -> V]
      /\ 0 \in V
  OBVIOUS
<1> DEFINE none == [d \in Dates |-> NoCost]
<1> HIDE DEF first, none
<1>4. QED
  BY <1>1, <1>2, <1>3 DEF Importer_V, none

\* The initial state satisfies the invariant.
LEMMA LedgerInit == Init => LedgerInv
<1> SUFFICES ASSUME Init PROVE LedgerInv
  OBVIOUS
<1> DEFINE V == Costs \cup {NoCost, 0}
<1>1. Idle \in Importer_V(V)
  BY IdleTyped
<1>2. Shape_V(V)
  BY <1>1 DEF Init, Shape_V
<1>3. Ends
  BY DEF Init, Ends
<1>4. SeenIsThere
  BY DEF Init, SeenIsThere, Idle
<1>5. QED
  BY <1>2, <1>3, <1>4 DEF LedgerInv, Shape

\* A step that inserts nothing and lets no import begin to write.
LEMMA QuietStep ==
    ASSUME LedgerInv, NEW V, Shape_V(V),
           expenses' = expenses, entered' = entered,
           raw' \in [Keys -> Costs \cup {NoCost}],
           imp' \in [Importers -> Importer_V(V)],
           \A j \in Importers : imp'[j].pc = "writing" => imp'[j] = imp[j]
    PROVE  LedgerInv'
<1>1. Shape_V(V)'
  BY DEF Shape_V
<1>2. Ends'
  BY DEF LedgerInv, Ends
<1>3. SeenIsThere'
  BY DEF LedgerInv, SeenIsThere
<1>4. QED
  BY <1>1, <1>2, <1>3 DEF LedgerInv, Shape

\* An import that moves on without beginning to write.
LEMMA ImportMoves ==
    ASSUME NEW V, NEW f \in [Importers -> Importer_V(V)], NEW i \in Importers,
           NEW new \in Importer_V(V), new.pc # "writing"
    PROVE  /\ [f EXCEPT ![i] = new] \in [Importers -> Importer_V(V)]
           /\ \A j \in Importers : [f EXCEPT ![i] = new][j].pc = "writing"
                                     => [f EXCEPT ![i] = new][j] = f[j]
  OBVIOUS

LEMMA PcMoves ==
    ASSUME NEW V, imp \in [Importers -> Importer_V(V)], NEW i \in Importers,
           NEW pc \in {"loading", "cleared", "generating"},
           imp' = [imp EXCEPT ![i].pc = pc]
    PROVE  /\ imp' \in [Importers -> Importer_V(V)]
           /\ \A j \in Importers : imp'[j].pc = "writing" => imp'[j] = imp[j]
<1> DEFINE new == [imp[i] EXCEPT !.pc = pc]
<1>1. new \in Importer_V(V) /\ new.pc = pc
  BY DEF Importer_V
<1>2. imp' = [imp EXCEPT ![i] = new]
  OBVIOUS
<1> HIDE DEF new
<1>3. QED
  BY <1>1, <1>2, ImportMoves

\* The steps of an import that write nothing to ClickHouse.
LEMMA QuietSteps ==
    ASSUME LedgerInv, NEW i \in Importers,
           \/ StartImport(i) \/ UpdateRawRecords(i) \/ ClearRudiments(i)
           \/ GetResourceIds(i) \/ ReadRaw(i) \/ UpdateResourceInfo(i)
           \/ Finish(i)
    PROVE  LedgerInv'
<1> PICK V : Shape_V(V)
  BY DEF LedgerInv, Shape
<1>0. Idle \in Importer_V(V) /\ Idle.pc = "idle"
  BY IdleTyped DEF Shape_V
<1>1. CASE StartImport(i)
  <2>1. /\ imp' \in [Importers -> Importer_V(V)]
        /\ \A j \in Importers : imp'[j].pc = "writing" => imp'[j] = imp[j]
    BY <1>1, PcMoves DEF StartImport, Shape_V
  <2>2. raw' \in [Keys -> Costs \cup {NoCost}]
    BY <1>1 DEF StartImport, Shape_V
  <2>3. QED
    BY <1>1, <2>1, <2>2, QuietStep DEF StartImport
<1>2. CASE UpdateRawRecords(i)
  <2>1. raw' \in [Keys -> Costs \cup {NoCost}]
    BY <1>2 DEF UpdateRawRecords, Shape_V
  <2>2. QED
    BY <1>2, <2>1, QuietStep DEF UpdateRawRecords, Shape_V, historyVars
<1>3. CASE ClearRudiments(i)
  <2>1. raw' \in [Keys -> Costs \cup {NoCost}]
    BY <1>3 DEF ClearRudiments, Shape_V
  <2>2. /\ imp' \in [Importers -> Importer_V(V)]
        /\ \A j \in Importers : imp'[j].pc = "writing" => imp'[j] = imp[j]
    BY <1>3, PcMoves DEF ClearRudiments, Shape_V
  <2>3. QED
    BY <1>3, <2>1, <2>2, QuietStep DEF ClearRudiments, historyVars
<1>4. CASE GetResourceIds(i)
  <2>1. /\ imp' \in [Importers -> Importer_V(V)]
        /\ \A j \in Importers : imp'[j].pc = "writing" => imp'[j] = imp[j]
    <3> DEFINE todo == {r \in Resources : \E d \in Dates : raw[<<r, d>>] # NoCost}
    <3>1. imp' = [imp EXCEPT ![i].pc = "generating", ![i].todo = todo]
      BY <1>4 DEF GetResourceIds
    <3>2. todo \in SUBSET Resources
      OBVIOUS
    <3> HIDE DEF todo
    <3> DEFINE new == [imp[i] EXCEPT !.pc = "generating", !.todo = todo]
    <3>3. imp \in [Importers -> Importer_V(V)] /\ imp[i] \in Importer_V(V)
      BY DEF Shape_V
    <3>4. new \in Importer_V(V) /\ new.pc = "generating"
      BY <3>2, <3>3 DEF Importer_V
    <3>5. imp' = [imp EXCEPT ![i] = new]
      BY <3>1
    <3> HIDE DEF new
    <3>6. QED
      BY <3>3, <3>4, <3>5, ImportMoves
  <2>2. QED
    BY <1>4, <2>1, QuietStep DEF GetResourceIds, Shape_V, stores, historyVars
<1>5. CASE ReadRaw(i)
  <2>1. PICK r \in imp[i].todo :
          LET want == [d \in Dates |-> raw[<<r, d>>]]
              next == IF \E d \in Dates : want[d] # NoCost
                      THEN "reading" ELSE "generating"
          IN  imp' = [imp EXCEPT ![i].pc = next, ![i].resource = r,
                                 ![i].todo = @ \ {r}, ![i].want = want]
    BY <1>5 DEF ReadRaw
  <2> DEFINE want == [d \in Dates |-> raw[<<r, d>>]]
  <2>2. r \in Resources
    BY DEF Shape_V, Importer_V
  <2>3. want \in [Dates -> Costs \cup {NoCost}]
    BY <2>2 DEF Shape_V, Keys
  <2>4. PICK next \in {"reading", "generating"} :
          imp' = [imp EXCEPT ![i].pc = next, ![i].resource = r,
                             ![i].todo = @ \ {r}, ![i].want = want]
    BY <2>1, Zenon
  <2> HIDE DEF want
  <2>5. /\ imp' \in [Importers -> Importer_V(V)]
        /\ \A j \in Importers : imp'[j].pc = "writing" => imp'[j] = imp[j]
    BY <2>2, <2>3, <2>4 DEF Shape_V, Importer_V
  <2>6. QED
    BY <1>5, <2>5, QuietStep DEF ReadRaw, Shape_V, stores, historyVars
<1>6. CASE UpdateResourceInfo(i)
  <2>1. /\ imp' \in [Importers -> Importer_V(V)]
        /\ \A j \in Importers : imp'[j].pc = "writing" => imp'[j] = imp[j]
    BY <1>6, PcMoves DEF UpdateResourceInfo, Shape_V
  <2>2. QED
    BY <1>6, <2>1, QuietStep DEF UpdateResourceInfo, Shape_V
<1>7. CASE Finish(i)
  <2>1. /\ imp' \in [Importers -> Importer_V(V)]
        /\ \A j \in Importers : imp'[j].pc = "writing" => imp'[j] = imp[j]
    BY <1>7, <1>0 DEF Finish, Shape_V
  <2>2. QED
    BY <1>7, <2>1, QuietStep DEF Finish, Shape_V
<1>8. QED
  BY <1>1, <1>2, <1>3, <1>4, <1>5, <1>6, <1>7

\* More values do no harm.
LEMMA Widen ==
    ASSUME NEW V, Shape_V(V), NEW W, V \subseteq W
    PROVE  Shape_V(W)
<1>1. imp \in [Importers -> Importer_V(W)]
  BY DEF Shape_V, Importer_V
<1>2. Seq([minus : V, plus : V]) \subseteq Seq([minus : W, plus : W])
  <2> DEFINE B == [minus : V, plus : V]
             C == [minus : W, plus : W]
  <2>1. B \subseteq C
    OBVIOUS
  <2> HIDE DEF B, C
  <2>2. Seq(B) \subseteq Seq(C)
    BY <2>1, SeqWiden
  <2>3. QED
    BY <2>2 DEF B, C
<1>3. expenses \in [Keys -> Seq([minus : W, plus : W])]
  BY <1>2 DEF Shape_V
<1>4. QED
  BY <1>1, <1>3 DEF Shape_V

\* The queries: what they return is added to the values.
LEMMA QuerySteps ==
    ASSUME LedgerInv, NEW i \in Importers, ReadLedger(i) \/ QueryTotals(i)
    PROVE  LedgerInv'
<1> PICK V : Shape_V(V)
  BY DEF LedgerInv, Shape
<1>1. CASE ReadLedger(i)
  <2> DEFINE r == imp[i].resource
  <2>1. PICK seen : seen = [d \in Dates |->
                        IF expenses[<<r, d>>] = <<>> \/ Exists(<<r, d>>) = 0
                        THEN NoCost ELSE Total(<<r, d>>)]
    OBVIOUS
  <2>2. PICK W : W = V \cup {seen[d] : d \in Dates}
    OBVIOUS
  <2>3. imp' = [imp EXCEPT ![i].pc = "writing", ![i].seen = seen]
    BY <1>1, <2>1 DEF ReadLedger
  <2>4. seen \in [Dates -> W]
    BY <2>1, <2>2
  <2>5. \A d \in Dates : seen[d] # NoCost => expenses[<<r, d>>] # <<>>
    BY <2>1
  <2>6. Shape_V(W)
    BY <2>2, Widen
  <2>7. imp \in [Importers -> Importer_V(W)]
    BY <2>6 DEF Shape_V
  <2>8. /\ imp' \in [Importers -> Importer_V(W)]
        /\ imp'[i].resource = r /\ imp'[i].seen = seen
        /\ \A j \in Importers \ {i} : imp'[j] = imp[j]
    <3> DEFINE new == [imp[i] EXCEPT !.pc = "writing", !.seen = seen]
    <3>1. /\ new \in Importer_V(W)
          /\ new.resource = r /\ new.seen = seen
      BY <2>4, <2>7 DEF Importer_V
    <3>2. imp' = [imp EXCEPT ![i] = new]
      BY <2>3
    <3> HIDE DEF new
    <3>3. QED
      BY <2>7, <3>1, <3>2
  <2>9. UNCHANGED <<raw, expenses, entered>>
    BY <1>1 DEF ReadLedger, stores, historyVars
  <2>10. Shape_V(W)'
    BY <2>6, <2>8, <2>9 DEF Shape_V
  <2>11. Ends'
    BY <2>9 DEF LedgerInv, Ends
  <2>12. SeenIsThere'
    BY <2>5, <2>8, <2>9 DEF LedgerInv, SeenIsThere
  <2>13. QED
    BY <2>10, <2>11, <2>12 DEF LedgerInv, Shape
<1>2. CASE QueryTotals(i)
  <2> DEFINE sum == ResourceTotal(imp[i].resource)
             W == V \cup {sum}
  <2>1. imp' = [imp EXCEPT ![i].pc = "summed", ![i].sum = sum]
    BY <1>2 DEF QueryTotals
  <2>2. sum \in W
    OBVIOUS
  <2>3. Shape_V(W)
    BY Widen
  <2> HIDE DEF sum, W
  <2>4. /\ imp' \in [Importers -> Importer_V(W)]
        /\ \A j \in Importers : imp'[j].pc = "writing" => imp'[j] = imp[j]
    <3> DEFINE new == [imp[i] EXCEPT !.pc = "summed", !.sum = sum]
    <3>1. imp \in [Importers -> Importer_V(W)] /\ imp[i] \in Importer_V(W)
      BY <2>3 DEF Shape_V
    <3>2. new \in Importer_V(W) /\ new.pc = "summed"
      BY <2>2, <3>1 DEF Importer_V
    <3>3. imp' = [imp EXCEPT ![i] = new]
      BY <2>1
    <3> HIDE DEF new
    <3>4. QED
      BY <3>1, <3>2, <3>3, ImportMoves
  <2>5. QED
    BY <1>2, <2>3, <2>4, QuietStep
       DEF QueryTotals, Shape_V, stores, historyVars
<1>3. QED
  BY <1>1, <1>2

\* The rows that an import inserts keep the ends and empty no day.
LEMMA InsertedRows ==
    ASSUME LedgerInv, NEW V, Shape_V(V), NEW i \in Importers,
           imp[i].pc = "writing",
           expenses' = Corrections(i), entered' = Entered(i)
    PROVE  /\ expenses' \in [Keys -> Seq([minus : V, plus : V])]
           /\ Ends'
           /\ \A k \in Keys : expenses[k] # <<>> => expenses'[k] # <<>>
<1> DEFINE B == [minus : V, plus : V]
<1>1. ASSUME NEW k \in Keys
      PROVE  /\ expenses'[k] \in Seq(B)
             /\ expenses[k] # <<>> => expenses'[k] # <<>>
             /\ expenses'[k] # <<>> =>
                  /\ expenses'[k][1].minus = NoCost
                  /\ expenses'[k][Len(expenses'[k])].plus = entered'[k]
  <2>1. expenses[k] \in Seq(B)
    BY DEF Shape_V
  <2>2. CASE k[1] = imp[i].resource /\ k[2] \in Corrected(i)
    <3> DEFINE e == [minus |-> imp[i].seen[k[2]], plus |-> imp[i].want[k[2]]]
    <3>1. k[2] \in Dates /\ k = <<imp[i].resource, k[2]>>
      BY <2>2 DEF Keys
    <3>2. e \in B
      BY <3>1 DEF Shape_V, Importer_V
    <3>3. expenses'[k] = Append(expenses[k], e) /\ entered'[k] = e.plus
      BY <2>2 DEF Corrections, Entered
    <3>4. expenses[k] = <<>> => e.minus = NoCost
      BY <3>1 DEF LedgerInv, SeenIsThere
    <3>5. expenses[k] # <<>> => expenses[k][1].minus = NoCost
      BY DEF LedgerInv, Ends
    <3> HIDE DEF e
    <3>6. QED
      BY <2>1, <3>2, <3>3, <3>4, <3>5, AppendEnds
  <2>3. CASE ~(k[1] = imp[i].resource /\ k[2] \in Corrected(i))
    <3>1. expenses'[k] = expenses[k] /\ entered'[k] = entered[k]
      BY <2>3 DEF Corrections, Entered
    <3>2. QED
      BY <2>1, <3>1 DEF LedgerInv, Ends
  <2>4. QED
    BY <2>2, <2>3
<1>2. expenses' = [k \in Keys |-> expenses'[k]]
  BY DEF Corrections
<1>3. expenses' \in [Keys -> Seq(B)]
  BY <1>1, <1>2
<1>4. Ends'
  BY <1>1 DEF Ends
<1>5. QED
  BY <1>1, <1>3, <1>4

\* The steps that may insert rows.
LEMMA InsertSteps ==
    ASSUME LedgerInv, NEW i \in Importers, Insert(i) \/ Abort(i)
    PROVE  LedgerInv'
<1> PICK V : Shape_V(V)
  BY DEF LedgerInv, Shape
<1>0. Idle \in Importer_V(V) /\ Idle.pc = "idle"
  BY IdleTyped DEF Shape_V
<1>1. CASE Insert(i) \/ (Abort(i) /\ entered' = Entered(i)
                          /\ expenses' = Corrections(i) /\ imp[i].pc = "writing")
  <2>1. /\ imp[i].pc = "writing" /\ raw' = raw
        /\ expenses' = Corrections(i) /\ entered' = Entered(i)
    BY <1>1 DEF Insert, Abort
  <2>2. PICK m \in Importer_V(V) :
           imp' = [imp EXCEPT ![i] = m] /\ m.pc # "writing"
    <3>1. CASE Insert(i)
      <4>1. PICK p \in {"generating", "inserted"} :
               imp' = [imp EXCEPT ![i].pc = p]
        BY <3>1, Zenon DEF Insert
      <4> DEFINE m == [imp[i] EXCEPT !.pc = p]
      <4>2. m \in Importer_V(V) /\ m.pc # "writing"
        BY DEF Shape_V, Importer_V
      <4>3. imp' = [imp EXCEPT ![i] = m]
        BY <4>1 DEF Shape_V
      <4>4. QED
        BY <4>2, <4>3
    <3>2. CASE Abort(i)
      BY <3>2, <1>0 DEF Abort
    <3>3. QED
      BY <1>1, <3>1, <3>2
  <2>3. /\ imp' \in [Importers -> Importer_V(V)]
        /\ \A j \in Importers : imp'[j].pc = "writing" => imp'[j] = imp[j]
    BY <2>2 DEF Shape_V
  <2>4. /\ expenses' \in [Keys -> Seq([minus : V, plus : V])]
        /\ Ends'
        /\ \A k \in Keys : expenses[k] # <<>> => expenses'[k] # <<>>
    BY <2>1, InsertedRows
  <2>5. Shape_V(V)'
    BY <2>1, <2>3, <2>4 DEF Shape_V
  <2>6. \A j \in Importers, d \in Dates : <<imp[j].resource, d>> \in Keys
    BY DEF Shape_V, Importer_V, Keys
  <2>7. SeenIsThere'
    BY <2>3, <2>4, <2>6 DEF LedgerInv, SeenIsThere
  <2>8. QED
    BY <2>4, <2>5, <2>7 DEF LedgerInv, Shape
<1>2. CASE Abort(i) /\ UNCHANGED <<expenses, entered>>
  <2>1. /\ imp' \in [Importers -> Importer_V(V)]
        /\ \A j \in Importers : imp'[j].pc = "writing" => imp'[j] = imp[j]
    BY <1>2, <1>0 DEF Abort, Shape_V
  <2>2. QED
    BY <1>2, <2>1, QuietStep DEF Abort, Shape_V
<1>3. QED
  BY <1>1, <1>2 DEF Abort

\* A merge of two parts keeps the ends and empties no day.
LEMMA MergeStep ==
    ASSUME LedgerInv, NEW k \in Keys, Merge(k)
    PROVE  LedgerInv'
<1> PICK V : Shape_V(V)
  BY DEF LedgerInv, Shape
<1> DEFINE s == expenses[k]
           B == [minus : V, plus : V]
<1>1. PICK n \in 1 .. Len(s) - 1 :
        expenses' = [expenses EXCEPT ![k] =
                       Replaced(s, Collapse(s[n], s[n + 1]), n)]
  BY DEF Merge, Replaced
<1> DEFINE e == Collapse(s[n], s[n + 1])
           t == Replaced(s, e, n)
<1>2. s \in Seq(B)
  BY DEF Shape_V
<1>3. n \in 1 .. Len(s) /\ n + 1 \in 1 .. Len(s)
  BY <1>2
<1>4. s[n] \in B /\ s[n + 1] \in B /\ s # <<>>
  <2> HIDE DEF s, B
  <2>1. QED
    BY <1>2, <1>3, SeqElement
<1>5. NoCost \in V
  BY DEF Shape_V
<1>6. e \in B
  BY <1>4, <1>5 DEF Collapse
<1>7. s[1].minus = NoCost /\ s[Len(s)].plus = entered[k]
  BY <1>4 DEF LedgerInv, Ends
<1>8. n = 1 => e.minus = NoCost
  BY <1>7 DEF Collapse
<1>9. n + 1 = Len(s) => e.plus = entered[k]
  BY <1>7 DEF Collapse
<1>10. expenses' = [expenses EXCEPT ![k] = t]
  BY <1>1
<1> HIDE DEF e, s, B
<1>11. EndsKept(B, s, e, n, t)
  BY <1>2, <1>6, MergeEnds
<1> HIDE DEF t
<1> USE DEF s, B
<1>12. t[1].minus = NoCost /\ t[Len(t)].plus = entered[k]
  BY <1>7, <1>8, <1>9, <1>11 DEF EndsKept
<1>13. UNCHANGED <<raw, imp, entered>>
  BY DEF Merge, historyVars
<1>14. /\ expenses' \in [Keys -> Seq(B)]
       /\ expenses'[k] = t
       /\ \A q \in Keys \ {k} : expenses'[q] = expenses[q]
  BY <1>10, <1>11 DEF EndsKept, Shape_V
<1>15. Shape_V(V)'
  BY <1>13, <1>14 DEF Shape_V
<1>16. Ends'
  BY <1>12, <1>13, <1>14 DEF LedgerInv, Ends
<1>17. SeenIsThere'
  <2>1. \A j \in Importers, d \in Dates : <<imp[j].resource, d>> \in Keys
    BY DEF Shape_V, Importer_V, Keys
  <2>2. \A q \in Keys : expenses[q] # <<>> => expenses'[q] # <<>>
    BY <1>11, <1>14 DEF EndsKept
  <2>3. QED
    BY <1>13, <2>1, <2>2 DEF LedgerInv, SeenIsThere
<1>18. QED
  BY <1>15, <1>16, <1>17 DEF LedgerInv, Shape

\* Every step preserves the invariant.
LEMMA LedgerStep == LedgerInv /\ [Next]_vars => LedgerInv'
<1> SUFFICES ASSUME LedgerInv, [Next]_vars PROVE LedgerInv'
  OBVIOUS
<1>1. CASE \E i \in Importers : ImportStep(i)
  BY <1>1, QuietSteps, QuerySteps, InsertSteps DEF ImportStep
<1>2. CASE \E k \in Keys : Merge(k)
  BY <1>2, MergeStep
<1>3. CASE UNCHANGED vars
  <2> PICK V : Shape_V(V)
    BY DEF LedgerInv, Shape
  <2>1. QED
    BY <1>3, QuietStep DEF vars, Shape_V
<1>4. QED
  BY <1>1, <1>2, <1>3 DEF Next

\* A day whose rows are merged into one has the cost that was inserted last,
\* however many imports overlapped or failed (save_clean_expenses).
THEOREM LastWriterWins == Spec => []CollapsedIsLast
<1>1. LedgerInv => CollapsedIsLast
  <2> SUFFICES ASSUME LedgerInv, NEW k \in Keys, Len(expenses[k]) = 1
               PROVE  expenses[k][1] = [minus |-> NoCost, plus |-> entered[k]]
    BY DEF CollapsedIsLast
  <2> PICK V : Shape_V(V)
    BY DEF LedgerInv, Shape
  <2>1. expenses[k] \in Seq([minus : V, plus : V])
    BY DEF Shape_V
  <2>2. expenses[k] # <<>> /\ expenses[k][1] \in [minus : V, plus : V]
    BY <2>1, 1 \in 1 .. Len(expenses[k]), SeqElement
  <2>3. expenses[k][1].minus = NoCost /\ expenses[k][1].plus = entered[k]
    BY <2>2 DEF LedgerInv, Ends
  <2>4. QED
    BY <2>2, <2>3
<1>2. QED
  BY <1>1, LedgerInit, LedgerStep, PTL DEF Spec

-----------------------------------------------------------------------------
(***************************************************************************)
(* Induction over the sizes of the sets that are added up.                 *)
(***************************************************************************)
\* A set that holds 0 and the successor of each of its numbers has all of them.
LEMMA InductionOnSets ==
    ASSUME NEW T, 0 \in T, \A n \in Nat : n \in T => n + 1 \in T
    PROVE  \A n \in Nat : n \in T
<1> DEFINE R == OpToRel(<, Nat)
           Q == Nat \ T
<1>1. SUFFICES ASSUME Q # {} PROVE FALSE
  OBVIOUS
<1>2. IsWellFoundedOn(R, Nat)
  BY NatLessThanWellFounded
<1>3. PICK m \in Q : \A k \in Q : ~(<<k, m>> \in R)
  <2> HIDE DEF R, Q
  <2>1. Q \subseteq Nat
    BY DEF Q
  <2> QED  BY <1>1, <1>2, <2>1, WFMin
<1>4. m \in Nat /\ m # 0 /\ m - 1 \in Nat /\ m = (m - 1) + 1
  OBVIOUS
<1>5. m - 1 \in Q
  BY <1>4
<1>6. <<m - 1, m>> \in R
  BY <1>4 DEF OpToRel
<1> QED  BY <1>3, <1>5, <1>6

-----------------------------------------------------------------------------
(***************************************************************************)
(* Sums over a set.                                                        *)
(***************************************************************************)
\* c chooses which element of a subset is added first.
Chooses(c, S) == \A s \in SUBSET S : s # {} => c[s] \in s

\* h gives the sum of v over every subset of S.
Sums(h, S, c, v) ==
    h = [s \in SUBSET S |-> IF s = {} THEN 0 ELSE v[c[s]] + h[s \ {c[s]}]]

\* The same, of the subsets of at most n elements.
SumsUpTo(h, S, c, v, n) ==
    \A s \in SUBSET S :
        Cardinality(s) <= n => h[s] = IF s = {} THEN 0 ELSE v[c[s]] + h[s \ {c[s]}]

LEMMA SmallerSubset ==
    ASSUME NEW S, IsFiniteSet(S), NEW c, Chooses(c, S), NEW s \in SUBSET S
    PROVE  /\ Cardinality(s) \in Nat /\ Cardinality(s) <= Cardinality(S)
           /\ s = {} <=> Cardinality(s) = 0
           /\ s # {} => /\ c[s] \in s /\ c[s] \in S /\ s \ {c[s]} \in SUBSET S
                        /\ Cardinality(s \ {c[s]}) = Cardinality(s) - 1
<1>1. IsFiniteSet(s) /\ Cardinality(s) \in Nat /\ Cardinality(s) <= Cardinality(S)
  BY FS_Subset, FS_CardinalityType
<1>2. s = {} <=> Cardinality(s) = 0
  BY <1>1, FS_EmptySet
<1>3. ASSUME s # {}
      PROVE  /\ c[s] \in s /\ c[s] \in S /\ s \ {c[s]} \in SUBSET S
             /\ Cardinality(s \ {c[s]}) = Cardinality(s) - 1
  <2>1. c[s] \in s
    BY <1>3 DEF Chooses
  <2> QED  BY <1>1, <2>1, FS_RemoveElement
<1> QED  BY <1>1, <1>2, <1>3

LEMMA SumsExist ==
    ASSUME NEW S, IsFiniteSet(S), NEW c, Chooses(c, S), NEW v \in [S -> Int]
    PROVE  \E h \in [SUBSET S -> Int] : Sums(h, S, c, v)
<1> DEFINE T == {n \in Nat : \E h \in [SUBSET S -> Int] : SumsUpTo(h, S, c, v, n)}
<1>1. 0 \in T
  <2> DEFINE g == [s \in SUBSET S |-> 0]
  <2>1. ASSUME NEW s \in SUBSET S, Cardinality(s) <= 0
        PROVE  g[s] = IF s = {} THEN 0 ELSE v[c[s]] + g[s \ {c[s]}]
    <3>1. Cardinality(s) \in Nat /\ (s = {} <=> Cardinality(s) = 0)
      BY SmallerSubset
    <3> QED  BY <2>1, <3>1
  <2>3. SumsUpTo(g, S, c, v, 0)
    BY <2>1 DEF SumsUpTo
  <2>2. g \in [SUBSET S -> Int]
    OBVIOUS
  <2> HIDE DEF g
  <2> QED  BY <2>2, <2>3
<1>2. ASSUME NEW n \in Nat, n \in T  PROVE n + 1 \in T
  <2>1. PICK g \in [SUBSET S -> Int] : SumsUpTo(g, S, c, v, n)
    BY <1>2
  <2> DEFINE h == [s \in SUBSET S |-> IF Cardinality(s) <= n THEN g[s]
                                       ELSE v[c[s]] + g[s \ {c[s]}]]
  <2>2. ASSUME NEW s \in SUBSET S, ~(Cardinality(s) <= n)
        PROVE  v[c[s]] + g[s \ {c[s]}] \in Int /\ s # {}
    <3>1. s # {}
      BY <2>2, SmallerSubset
    <3>2. c[s] \in S /\ s \ {c[s]} \in SUBSET S
      BY <3>1, SmallerSubset
    <3> QED  BY <3>1, <3>2
  <2>3. h \in [SUBSET S -> Int]
    BY <2>2
  <2>4. ASSUME NEW s \in SUBSET S, Cardinality(s) <= n + 1
        PROVE  h[s] = IF s = {} THEN 0 ELSE v[c[s]] + h[s \ {c[s]}]
    <3>1. CASE s = {}
      <4>1. Cardinality(s) <= n
        BY <3>1, SmallerSubset
      <4> QED  BY <2>1, <3>1, <4>1 DEF SumsUpTo
    <3>2. CASE s # {}
      <4>1. /\ Cardinality(s) \in Nat /\ s \ {c[s]} \in SUBSET S
            /\ Cardinality(s \ {c[s]}) = Cardinality(s) - 1
        BY <3>2, SmallerSubset
      <4>2. h[s \ {c[s]}] = g[s \ {c[s]}]
        BY <2>4, <4>1
      <4>3. h[s] = v[c[s]] + g[s \ {c[s]}]
        BY <2>1, <3>2 DEF SumsUpTo
      <4> QED  BY <3>2, <4>2, <4>3
    <3> QED  BY <3>1, <3>2
  <2>5. SumsUpTo(h, S, c, v, n + 1)
    BY <2>4 DEF SumsUpTo
  <2> HIDE DEF h
  <2> QED  BY <2>3, <2>5
<1>3. Cardinality(S) \in T
  <2> HIDE DEF T
  <2>1. \A n \in Nat : n \in T
    BY <1>1, <1>2, InductionOnSets
  <2> QED  BY <2>1, FS_CardinalityType
<1>4. PICK h \in [SUBSET S -> Int] : SumsUpTo(h, S, c, v, Cardinality(S))
  BY <1>3
<1>5. \A s \in SUBSET S : h[s] = IF s = {} THEN 0 ELSE v[c[s]] + h[s \ {c[s]}]
  BY <1>4, SmallerSubset DEF SumsUpTo
<1> QED  BY <1>5 DEF Sums

\* The same of any function, in whatever order it writes the terms.
IsFcn(h, S) == h = [s \in SUBSET S |-> h[s]]

AddsUp(h, S, c, v) ==
    /\ h[{}] = 0
    /\ \A s \in SUBSET S : s # {} =>
          \/ h[s] = v[c[s]] + h[s \ {c[s]}]
          \/ h[s] = h[s \ {c[s]}] + v[c[s]]

LEMMA SumsUnique ==
    ASSUME NEW S, IsFiniteSet(S), NEW c, Chooses(c, S), NEW v \in [S -> Int],
           NEW g \in [SUBSET S -> Int], Sums(g, S, c, v),
           NEW h, IsFcn(h, S), AddsUp(h, S, c, v)
    PROVE  h = g
<1> DEFINE T == {n \in Nat : \A s \in SUBSET S : Cardinality(s) <= n => g[s] = h[s]}
<1>s. ASSUME NEW s \in SUBSET S
      PROVE  g[s] = IF s = {} THEN 0 ELSE v[c[s]] + g[s \ {c[s]}]
  <2>1. g[s] = [t \in SUBSET S |-> IF t = {} THEN 0 ELSE v[c[t]] + g[t \ {c[t]}]][s]
    BY Zenon DEF Sums
  <2> QED  BY <2>1
<1>1. 0 \in T
  <2>1. ASSUME NEW s \in SUBSET S, Cardinality(s) <= 0  PROVE g[s] = h[s]
    <3>1. Cardinality(s) \in Nat /\ (s = {} <=> Cardinality(s) = 0)
      BY SmallerSubset
    <3>2. s = {}
      BY <2>1, <3>1
    <3> QED  BY <1>s, <3>2 DEF AddsUp
  <2> QED  BY <2>1
<1>2. ASSUME NEW n \in Nat, n \in T  PROVE n + 1 \in T
  <2>1. ASSUME NEW s \in SUBSET S, Cardinality(s) <= n + 1  PROVE g[s] = h[s]
    <3>1. CASE s = {}
      BY <1>s, <3>1 DEF AddsUp
    <3>2. CASE s # {}
      <4>1. /\ Cardinality(s) \in Nat /\ s \ {c[s]} \in SUBSET S /\ c[s] \in S
            /\ Cardinality(s \ {c[s]}) = Cardinality(s) - 1
        BY <3>2, SmallerSubset
      <4>2. g[s \ {c[s]}] = h[s \ {c[s]}] /\ h[s \ {c[s]}] \in Int
        BY <1>2, <2>1, <4>1
      <4>3. h[s] = v[c[s]] + h[s \ {c[s]}]
        BY <3>2, <4>1, <4>2 DEF AddsUp
      <4> QED  BY <1>s, <3>2, <4>2, <4>3
    <3> QED  BY <3>1, <3>2
  <2> QED  BY <2>1
<1>3. \A n \in Nat : n \in T
  <2> HIDE DEF T
  <2> QED  BY <1>1, <1>2, InductionOnSets
<1>4. ASSUME NEW s \in SUBSET S  PROVE g[s] = h[s]
  <2>1. Cardinality(s) \in Nat
    BY SmallerSubset
  <2> QED  BY <1>3, <2>1
<1>5. g = [s \in SUBSET S |-> g[s]]
  OBVIOUS
<1> QED  BY <1>4, <1>5 DEF IsFcn

-----------------------------------------------------------------------------
(***************************************************************************)
(* Sums over a sequence.                                                   *)
(***************************************************************************)
LEMMA MaxIsThere ==
    ASSUME NEW n \in Nat, NEW s \in SUBSET (1 .. n), s # {}
    PROVE  Max(s) \in s /\ \A y \in s : Max(s) >= y
<1> DEFINE HasMax(t) == \E x \in t : \A y \in t : x >= y
           T == {k \in Nat : \A t \in SUBSET (1 .. k) : t # {} => HasMax(t)}
<1>1. 0 \in T
  <2>1. \A t \in SUBSET (1 .. 0) : t = {}
    OBVIOUS
  <2> HIDE DEF HasMax
  <2> QED  BY <2>1
<1>2. ASSUME NEW k \in Nat, k \in T  PROVE k + 1 \in T
  <2>1. ASSUME NEW t \in SUBSET (1 .. k + 1), t # {}  PROVE HasMax(t)
    <3>1. CASE k + 1 \in t
      <4>1. \A y \in t : k + 1 >= y
        OBVIOUS
      <4> QED  BY <3>1, <4>1
    <3>2. CASE k + 1 \notin t
      <4>1. t \in SUBSET (1 .. k)
        BY <3>2
      <4> QED  BY <1>2, <2>1, <4>1
    <3> QED  BY <3>1, <3>2
  <2> HIDE DEF HasMax
  <2> QED  BY <2>1
<1>3. \A k \in Nat : k \in T
  <2> HIDE DEF T
  <2> QED  BY <1>1, <1>2, InductionOnSets
<1>4. \E x \in s : \A y \in s : x >= y
  BY <1>3
<1> QED  BY <1>4 DEF Max

\* What a fold of a sequence adds next: the element at the highest index.
Highest(n) == [s \in SUBSET (1 .. n) |-> Max(s)]

LEMMA HighestChooses ==
    ASSUME NEW n \in Nat
    PROVE  Chooses(Highest(n), 1 .. n) /\ IsFiniteSet(1 .. n)
<1>1. IsFiniteSet(1 .. n)
  BY FS_Interval
<1>2. ASSUME NEW s \in SUBSET (1 .. n), s # {}  PROVE Highest(n)[s] \in s
  BY <1>2, MaxIsThere DEF Highest
<1> QED  BY <1>1, <1>2 DEF Chooses

LEMMA PrefixSums ==
    ASSUME NEW n \in Nat, NEW v, NEW h, Sums(h, 1 .. n, Highest(n), v),
           NEW p, p[0] = 0, \A k \in 1 .. n : p[k] = v[k] + p[k - 1]
    PROVE  h[1 .. n] = p[n]
<1> DEFINE T == {k \in Nat : k <= n => h[1 .. k] = p[k]}
<1>s. ASSUME NEW s \in SUBSET (1 .. n)
      PROVE  h[s] = IF s = {} THEN 0 ELSE v[Highest(n)[s]] + h[s \ {Highest(n)[s]}]
  <2>1. h[s] = [t \in SUBSET (1 .. n) |-> IF t = {} THEN 0
                       ELSE v[Highest(n)[t]] + h[t \ {Highest(n)[t]}]][s]
    BY Zenon DEF Sums
  <2> QED  BY <2>1
<1>1. 0 \in T
  <2>1. 1 .. 0 = {}
    OBVIOUS
  <2> QED  BY <1>s, <2>1
<1>2. ASSUME NEW k \in Nat, k \in T  PROVE k + 1 \in T
  <2>1. ASSUME k + 1 <= n  PROVE h[1 .. k + 1] = p[k + 1]
    <3> DEFINE s == 1 .. k + 1
    <3>0. \A y \in s : y \in 1 .. n /\ y <= k + 1
      BY <2>1
    <3>1. s \in SUBSET (1 .. n) /\ s # {} /\ k + 1 \in s
      <4>1. k + 1 \in s
        OBVIOUS
      <4> HIDE DEF s
      <4> QED  BY <3>0, <4>1
    <3>2. Highest(n)[s] = k + 1
      <4>1. Highest(n)[s] = Max(s)
        BY <3>1 DEF Highest
      <4>2. Max(s) \in s /\ Max(s) >= k + 1
        BY <3>1, MaxIsThere
      <4>3. Max(s) \in Nat /\ Max(s) <= k + 1
        BY <3>0, <4>2
      <4> QED  BY <4>1, <4>2, <4>3
    <3>3. s \ {k + 1} = 1 .. k
      OBVIOUS
    <3>4. h[s] = v[k + 1] + h[1 .. k]
      <4> HIDE DEF s
      <4> QED  BY <1>s, <3>1, <3>2, <3>3
    <3>5. h[1 .. k] = p[k]
      BY <1>2, <2>1
    <3>6. p[k + 1] = v[k + 1] + p[k]
      BY <2>1
    <3> QED  BY <3>4, <3>5, <3>6
  <2> QED  BY <2>1
<1>3. \A k \in Nat : k \in T
  <2> HIDE DEF T
  <2> QED  BY <1>1, <1>2, InductionOnSets
<1> QED  BY <1>3

\* h adds v up along 1 .. n, as a fold from the left does.
AddsAlong(h, n, v) ==
    /\ IsFcn(h, 1 .. n)
    /\ \A t \in SUBSET (1 .. n) :
          h[t] = IF t = {} THEN 0 ELSE h[t \ {Max(t)}] + v[Max(t)]

LEMMA FoldSolved ==
    ASSUME NEW n \in Nat, NEW v \in [1 .. n -> Int]
    PROVE  \E g \in [SUBSET (1 .. n) -> Int] :
              /\ Sums(g, 1 .. n, Highest(n), v) /\ AddsAlong(g, n, v)
              /\ \A h : AddsAlong(h, n, v) => h = g
<1> DEFINE S == 1 .. n
<1>1. /\ Chooses(Highest(n), S) /\ IsFiniteSet(S)
      /\ \A t \in SUBSET S : t # {} => Max(t) \in S /\ Highest(n)[t] = Max(t)
  BY HighestChooses, MaxIsThere DEF Highest
<1> HIDE DEF S
<1>v. v \in [S -> Int]
  BY DEF S
<1>2. PICK g \in [SUBSET S -> Int] : Sums(g, S, Highest(n), v)
  BY <1>1, <1>v, SumsExist
<1>3. ASSUME NEW t \in SUBSET S
      PROVE  g[t] = IF t = {} THEN 0 ELSE g[t \ {Max(t)}] + v[Max(t)]
  <2>1. g[t] = [u \in SUBSET S |-> IF u = {} THEN 0
                   ELSE v[Highest(n)[u]] + g[u \ {Highest(n)[u]}]][t]
    BY <1>2, Zenon DEF Sums
  <2>2. g[t] = IF t = {} THEN 0 ELSE v[Highest(n)[t]] + g[t \ {Highest(n)[t]}]
    BY <2>1
  <2>3. CASE t # {}
    <3>1. Highest(n)[t] = Max(t) /\ v[Max(t)] \in Int /\ g[t \ {Max(t)}] \in Int
      BY <1>1, <1>v, <2>3
    <3> QED  BY <2>2, <2>3, <3>1
  <2> QED  BY <2>2, <2>3
<1>4. AddsAlong(g, n, v)
  BY <1>3 DEF AddsAlong, IsFcn, S
<1>5. ASSUME NEW h, AddsAlong(h, n, v)  PROVE h = g
  <2>1. \A t \in SUBSET S : h[t] = IF t = {} THEN 0 ELSE h[t \ {Max(t)}] + v[Max(t)]
    BY <1>5 DEF AddsAlong, S
  <2>2. h[{}] = 0
    BY <2>1
  <2>3. AddsUp(h, S, Highest(n), v) /\ IsFcn(h, S)
    BY <1>1, <1>5, <2>1, <2>2 DEF AddsUp, AddsAlong, S
  <2> QED  BY <1>1, <1>v, <1>2, <2>3, SumsUnique
<1> QED  BY <1>2, <1>4, <1>5 DEF S

\* The sum of cost * sign is a sum over the blocks of a key.
LEMMA TotalIsSum ==
    ASSUME NEW s \in Seq(Block)
    PROVE  \E h \in [SUBSET (1 .. Len(s)) -> Int] :
              /\ Sums(h, 1 .. Len(s), Highest(Len(s)), [i \in 1 .. Len(s) |-> Value(s[i])])
              /\ FoldLeft(LAMBDA sum, b : sum + Value(b), 0, s) = h[1 .. Len(s)]
<1> DEFINE n == Len(s)
           S == 1 .. n
           v == [i \in S |-> Value(s[i])]
           P(h) == h = [t \in SUBSET S |-> IF t = {} THEN 0
                                           ELSE h[t \ {Max(t)}] + Value(s[Max(t)])]
           iter == CHOOSE h : P(h)
<1>1. n \in Nat /\ DOMAIN s = S
  OBVIOUS
<1>2. ASSUME NEW i \in S  PROVE Value(s[i]) \in Int
  <2>1. s[i] \in Block
    OBVIOUS
  <2> QED  BY <2>1 DEF Block, Value
<1>3. FoldLeft(LAMBDA sum, b : sum + Value(b), 0, s) = iter[S]
  BY <1>1 DEF FoldLeft, MapThenFoldSet
<1>4. v \in [S -> Int] /\ \A i \in S : v[i] = Value(s[i])
  BY <1>2
<1>5. \A t \in SUBSET S : t # {} => Max(t) \in S
  BY <1>1, MaxIsThere
<1> HIDE DEF v
<1>6. PICK g \in [SUBSET S -> Int] : /\ Sums(g, S, Highest(n), v) /\ AddsAlong(g, n, v)
                                     /\ \A h : AddsAlong(h, n, v) => h = g
  <2> HIDE DEF n
  <2> QED  BY <1>1, <1>4, FoldSolved
<1> HIDE DEF S
<1>7. ASSUME NEW h  PROVE P(h) <=> AddsAlong(h, n, v)
  <2>1. ASSUME P(h)  PROVE AddsAlong(h, n, v)
    <3>1. ASSUME NEW t \in SUBSET S
          PROVE  h[t] = IF t = {} THEN 0 ELSE h[t \ {Max(t)}] + Value(s[Max(t)])
      <4>1. h[t] = [u \in SUBSET S |-> IF u = {} THEN 0
                       ELSE h[u \ {Max(u)}] + Value(s[Max(u)])][t]
        BY <2>1, Zenon
      <4> QED  BY <4>1
    <3>2. h = [t \in SUBSET S |-> h[t]]
      BY <2>1
    <3> HIDE DEF P
    <3> QED  BY <1>4, <1>5, <3>1, <3>2 DEF AddsAlong, IsFcn, S
  <2>2. ASSUME AddsAlong(h, n, v)  PROVE P(h)
    <3>1. ASSUME NEW t \in SUBSET S
          PROVE  h[t] = IF t = {} THEN 0 ELSE h[t \ {Max(t)}] + Value(s[Max(t)])
      <4>1. h[t] = IF t = {} THEN 0 ELSE h[t \ {Max(t)}] + v[Max(t)]
        BY <2>2 DEF AddsAlong, S
      <4> QED  BY <1>4, <1>5, <4>1
    <3>2. h = [t \in SUBSET S |-> h[t]]
      BY <2>2, Zenon DEF AddsAlong, IsFcn, S
    <3> QED  BY <3>1, <3>2
  <2> QED  BY <2>1, <2>2
<1>8. AddsAlong(iter, n, v)
  <2> HIDE DEF P
  <2>1. P(g)
    BY <1>6, <1>7
  <2>2. P(iter)
    BY <2>1
  <2> QED  BY <1>7, <2>2
<1> QED  BY <1>3, <1>6, <1>8 DEF S, v

\* And so is the sum of sign.
LEMMA ExistsIsSum ==
    ASSUME NEW s \in Seq(Block)
    PROVE  \E h \in [SUBSET (1 .. Len(s)) -> Int] :
              /\ Sums(h, 1 .. Len(s), Highest(Len(s)), [i \in 1 .. Len(s) |-> Sign(s[i])])
              /\ FoldLeft(LAMBDA sum, b : sum + Sign(b), 0, s) = h[1 .. Len(s)]
<1> DEFINE n == Len(s)
           S == 1 .. n
           v == [i \in S |-> Sign(s[i])]
           P(h) == h = [t \in SUBSET S |-> IF t = {} THEN 0
                                           ELSE h[t \ {Max(t)}] + Sign(s[Max(t)])]
           iter == CHOOSE h : P(h)
<1>1. n \in Nat /\ DOMAIN s = S
  OBVIOUS
<1>2. ASSUME NEW i \in S  PROVE Sign(s[i]) \in Int
  <2>1. s[i] \in Block
    OBVIOUS
  <2> QED  BY <2>1 DEF Block, Sign
<1>3. FoldLeft(LAMBDA sum, b : sum + Sign(b), 0, s) = iter[S]
  BY <1>1 DEF FoldLeft, MapThenFoldSet
<1>4. v \in [S -> Int] /\ \A i \in S : v[i] = Sign(s[i])
  BY <1>2
<1>5. \A t \in SUBSET S : t # {} => Max(t) \in S
  BY <1>1, MaxIsThere
<1> HIDE DEF v
<1>6. PICK g \in [SUBSET S -> Int] : /\ Sums(g, S, Highest(n), v) /\ AddsAlong(g, n, v)
                                     /\ \A h : AddsAlong(h, n, v) => h = g
  <2> HIDE DEF n
  <2> QED  BY <1>1, <1>4, FoldSolved
<1> HIDE DEF S
<1>7. ASSUME NEW h  PROVE P(h) <=> AddsAlong(h, n, v)
  <2>1. ASSUME P(h)  PROVE AddsAlong(h, n, v)
    <3>1. ASSUME NEW t \in SUBSET S
          PROVE  h[t] = IF t = {} THEN 0 ELSE h[t \ {Max(t)}] + Sign(s[Max(t)])
      <4>1. h[t] = [u \in SUBSET S |-> IF u = {} THEN 0
                       ELSE h[u \ {Max(u)}] + Sign(s[Max(u)])][t]
        BY <2>1, Zenon
      <4> QED  BY <4>1
    <3>2. h = [t \in SUBSET S |-> h[t]]
      BY <2>1
    <3> HIDE DEF P
    <3> QED  BY <1>4, <1>5, <3>1, <3>2 DEF AddsAlong, IsFcn, S
  <2>2. ASSUME AddsAlong(h, n, v)  PROVE P(h)
    <3>1. ASSUME NEW t \in SUBSET S
          PROVE  h[t] = IF t = {} THEN 0 ELSE h[t \ {Max(t)}] + Sign(s[Max(t)])
      <4>1. h[t] = IF t = {} THEN 0 ELSE h[t \ {Max(t)}] + v[Max(t)]
        BY <2>2 DEF AddsAlong, S
      <4> QED  BY <1>4, <1>5, <4>1
    <3>2. h = [t \in SUBSET S |-> h[t]]
      BY <2>2, Zenon DEF AddsAlong, IsFcn, S
    <3> QED  BY <3>1, <3>2
  <2> QED  BY <2>1, <2>2
<1>8. AddsAlong(iter, n, v)
  <2> HIDE DEF P
  <2>1. P(g)
    BY <1>6, <1>7
  <2>2. P(iter)
    BY <2>1
  <2> QED  BY <1>7, <2>2
<1> QED  BY <1>3, <1>6, <1>8 DEF S, v

-----------------------------------------------------------------------------
(***************************************************************************)
(* The total of a day and of a resource, of any rows.                      *)
(***************************************************************************)
TotalOf(rows) == FoldLeft(LAMBDA sum, b : sum + Value(b), 0, rows)
ExistsOf(rows) == FoldLeft(LAMBDA sum, b : sum + Sign(b), 0, rows)

LEMMA TotalTyped ==
    ASSUME NEW s \in Seq(Block)
    PROVE  TotalOf(s) \in Int
<1>1. PICK h \in [SUBSET (1 .. Len(s)) -> Int] : TotalOf(s) = h[1 .. Len(s)]
  BY TotalIsSum DEF TotalOf
<1> QED  BY <1>1

\* The rows of a day that was never corrected twice at once: every cancelling row
\* cancels the row before it.
Linked(s) ==
    /\ s # <<>> => s[1].minus = NoCost
    /\ \A k \in 1 .. Len(s) - 1 : s[k + 1].minus = s[k].plus

\* Such rows add up to the last one, and count as one.
LEMMA LinkedTotal ==
    ASSUME NEW s \in Seq(Block), Linked(s)
    PROVE  /\ TotalOf(s) = IF s = <<>> THEN 0 ELSE s[Len(s)].plus
           /\ ExistsOf(s) = IF s = <<>> THEN 0 ELSE 1
<1> DEFINE n == Len(s)
<1>1. n \in Nat /\ (s = <<>> <=> n = 0)
  BY EmptySeq, LenProperties
<1>2. ASSUME NEW k \in 1 .. n
      PROVE  /\ s[k].plus \in Int
             /\ s[k].minus = IF k = 1 THEN NoCost ELSE s[k - 1].plus
  <2>1. s[k] \in Block
    OBVIOUS
  <2>2. CASE k = 1
    BY <1>1, <2>1, <2>2 DEF Linked, Block
  <2>3. CASE k # 1
    <3>1. k - 1 \in 1 .. n - 1 /\ (k - 1) + 1 = k
      BY <1>1, <2>3
    <3> QED  BY <2>1, <2>3, <3>1 DEF Linked, Block
  <2> QED  BY <2>2, <2>3
<1>3. TotalOf(s) = IF n = 0 THEN 0 ELSE s[n].plus
  <2> DEFINE v == [i \in 1 .. n |-> Value(s[i])]
             p == [k \in 0 .. n |-> IF k = 0 THEN 0 ELSE s[k].plus]
  <2>1. ASSUME NEW k \in 1 .. n  PROVE p[k] = v[k] + p[k - 1]
    <3>1. CASE k = 1
      BY <1>2, <3>1 DEF Value
    <3>2. CASE k # 1
      <4>1. k - 1 \in 1 .. n
        BY <1>1, <3>2
      <4>2. s[k - 1].plus \in Int /\ s[k].minus = s[k - 1].plus /\ s[k].plus \in Int
        BY <1>2, <3>2, <4>1
      <4>3. v[k] = s[k].plus - s[k - 1].plus
        BY <4>2, LedgerAssumption DEF Value
      <4> QED  BY <4>1, <4>2, <4>3
    <3> QED  BY <3>1, <3>2
  <2>2. p[0] = 0 /\ p[n] = IF n = 0 THEN 0 ELSE s[n].plus
    BY <1>1
  <2>3. PICK h : Sums(h, 1 .. n, Highest(n), v) /\ TotalOf(s) = h[1 .. n]
    BY TotalIsSum DEF TotalOf
  <2> HIDE DEF n, v, p
  <2> QED  BY <1>1, <2>1, <2>2, <2>3, PrefixSums
<1>4. ExistsOf(s) = IF n = 0 THEN 0 ELSE 1
  <2> DEFINE v == [i \in 1 .. n |-> Sign(s[i])]
             p == [k \in 0 .. n |-> IF k = 0 THEN 0 ELSE 1]
  <2>1. ASSUME NEW k \in 1 .. n  PROVE p[k] = v[k] + p[k - 1]
    <3>1. CASE k = 1
      BY <1>2, <3>1 DEF Sign
    <3>2. CASE k # 1
      <4>1. k - 1 \in 1 .. n
        BY <1>1, <3>2
      <4>2. s[k].minus # NoCost
        BY <1>2, <3>2, <4>1, LedgerAssumption
      <4>3. v[k] = 0
        BY <4>2 DEF Sign
      <4> QED  BY <4>1, <4>3
    <3> QED  BY <3>1, <3>2
  <2>2. p[0] = 0 /\ p[n] = IF n = 0 THEN 0 ELSE 1
    BY <1>1
  <2>3. PICK h : Sums(h, 1 .. n, Highest(n), v) /\ ExistsOf(s) = h[1 .. n]
    BY ExistsIsSum DEF ExistsOf
  <2> HIDE DEF n, v, p
  <2> QED  BY <1>1, <2>1, <2>2, <2>3, PrefixSums
<1> QED  BY <1>1, <1>3, <1>4

\* ResourceTotal, of any table.
ResourceSum(rows, r) == MapThenSumSet(LAMBDA d : TotalOf(rows[<<r, d>>]), Dates)

AnyOf(S) == [s \in SUBSET S |-> CHOOSE x \in s : TRUE]

DayTotals(rows, r) == [d \in Dates |-> TotalOf(rows[<<r, d>>])]

LEMMA ResourceIsSum ==
    ASSUME NEW rows \in [Keys -> Seq(Block)], NEW r \in Resources
    PROVE  \E h \in [SUBSET Dates -> Int] :
              /\ Sums(h, Dates, AnyOf(Dates), DayTotals(rows, r))
              /\ ResourceSum(rows, r) = h[Dates]
<1> DEFINE v == DayTotals(rows, r)
           AnyIn(t) == CHOOSE x \in t : TRUE
           P(h) == h = [t \in SUBSET Dates |-> IF t = {} THEN 0
                          ELSE TotalOf(rows[<<r, AnyIn(t)>>]) + h[t \ {AnyIn(t)}]]
           iter == CHOOSE h : P(h)
<1>1. ResourceSum(rows, r) = iter[Dates]
  BY DEF ResourceSum, MapThenSumSet, MapThenFoldSet
<1>2. /\ v \in [Dates -> Int]
      /\ \A d \in Dates : v[d] = TotalOf(rows[<<r, d>>])
  <2>1. ASSUME NEW d \in Dates  PROVE TotalOf(rows[<<r, d>>]) \in Int
    <3>1. rows[<<r, d>>] \in Seq(Block)
      BY DEF Keys
    <3> QED  BY <3>1, TotalTyped
  <2> QED  BY <2>1 DEF DayTotals
<1>3. ASSUME NEW t \in SUBSET Dates, t # {}
      PROVE  AnyIn(t) \in t /\ AnyIn(t) \in Dates /\ AnyOf(Dates)[t] = AnyIn(t)
  BY <1>3 DEF AnyOf
<1>4. IsFiniteSet(Dates) /\ Chooses(AnyOf(Dates), Dates)
  BY <1>3, LedgerAssumption DEF Chooses
<1> HIDE DEF v, AnyIn
<1>5. PICK g \in [SUBSET Dates -> Int] : Sums(g, Dates, AnyOf(Dates), v)
  BY <1>2, <1>4, SumsExist
<1>6. P(g)
  <2>1. ASSUME NEW t \in SUBSET Dates
        PROVE  g[t] = IF t = {} THEN 0
                      ELSE TotalOf(rows[<<r, AnyIn(t)>>]) + g[t \ {AnyIn(t)}]
    <3>1. g[t] = [u \in SUBSET Dates |-> IF u = {} THEN 0
                     ELSE v[AnyOf(Dates)[u]] + g[u \ {AnyOf(Dates)[u]}]][t]
      BY <1>5, Zenon DEF Sums
    <3>2. g[t] = IF t = {} THEN 0
                 ELSE v[AnyOf(Dates)[t]] + g[t \ {AnyOf(Dates)[t]}]
      BY <3>1
    <3> QED  BY <1>2, <1>3, <3>2
  <2> QED  BY <2>1
<1>7. P(iter)
  <2> HIDE DEF P
  <2> QED  BY <1>6
<1> HIDE DEF iter
<1>8. iter = g
  <2>1. ASSUME NEW t \in SUBSET Dates
        PROVE  iter[t] = IF t = {} THEN 0
                         ELSE TotalOf(rows[<<r, AnyIn(t)>>]) + iter[t \ {AnyIn(t)}]
    <3>1. iter[t] = [u \in SUBSET Dates |-> IF u = {} THEN 0
                        ELSE TotalOf(rows[<<r, AnyIn(u)>>]) + iter[u \ {AnyIn(u)}]][t]
      BY <1>7, Zenon
    <3> QED  BY <3>1
  <2>2. IsFcn(iter, Dates)
    BY <1>7 DEF IsFcn
  <2> HIDE DEF P
  <2>3. iter[{}] = 0
    BY <2>1
  <2>4. ASSUME NEW t \in SUBSET Dates, t # {}
        PROVE  iter[t] = v[AnyOf(Dates)[t]] + iter[t \ {AnyOf(Dates)[t]}]
    <3>1. AnyOf(Dates)[t] = AnyIn(t) /\ v[AnyIn(t)] = TotalOf(rows[<<r, AnyIn(t)>>])
      BY <1>2, <1>3, <2>4
    <3> QED  BY <2>1, <2>4, <3>1
  <2>5. AddsUp(iter, Dates, AnyOf(Dates), v)
    BY <2>3, <2>4 DEF AddsUp
  <2> QED  BY <1>2, <1>4, <1>5, <2>2, <2>5, SumsUnique
<1> QED  BY <1>1, <1>5, <1>8 DEF v

LEMMA ResourceTyped ==
    ASSUME NEW rows \in [Keys -> Seq(Block)], NEW r \in Resources
    PROVE  ResourceSum(rows, r) \in Int
<1>1. PICK h \in [SUBSET Dates -> Int] : ResourceSum(rows, r) = h[Dates]
  BY ResourceIsSum
<1> QED  BY <1>1

\* A resource whose days keep their totals keeps its own.
LEMMA ResourceSame ==
    ASSUME NEW rows \in [Keys -> Seq(Block)], NEW next \in [Keys -> Seq(Block)],
           NEW r \in Resources,
           \A d \in Dates : TotalOf(next[<<r, d>>]) = TotalOf(rows[<<r, d>>])
    PROVE  ResourceSum(next, r) = ResourceSum(rows, r)
<1> DEFINE v == DayTotals(rows, r)
           c == AnyOf(Dates)
<1>1. DayTotals(next, r) = v
  BY DEF DayTotals
<1>2. PICK g \in [SUBSET Dates -> Int] : Sums(g, Dates, c, v) /\ ResourceSum(rows, r) = g[Dates]
  BY ResourceIsSum
<1>3. PICK h \in [SUBSET Dates -> Int] : Sums(h, Dates, c, v) /\ ResourceSum(next, r) = h[Dates]
  BY <1>1, ResourceIsSum
<1>4. v \in [Dates -> Int]
  <2>1. ASSUME NEW d \in Dates  PROVE TotalOf(rows[<<r, d>>]) \in Int
    <3>1. rows[<<r, d>>] \in Seq(Block)
      BY DEF Keys
    <3> QED  BY <3>1, TotalTyped
  <2> QED  BY <2>1 DEF DayTotals
<1>5. IsFiniteSet(Dates) /\ Chooses(c, Dates)
  BY LedgerAssumption DEF Chooses, AnyOf
<1> HIDE DEF v, c
<1>6. ASSUME NEW t \in SUBSET Dates
      PROVE  h[t] = IF t = {} THEN 0 ELSE v[c[t]] + h[t \ {c[t]}]
  <2>1. h[t] = [u \in SUBSET Dates |-> IF u = {} THEN 0 ELSE v[c[u]] + h[u \ {c[u]}]][t]
    BY <1>3, Zenon DEF Sums
  <2> QED  BY <2>1
<1>7. h[{}] = 0
  BY <1>6
<1>8. IsFcn(h, Dates) /\ AddsUp(h, Dates, c, v)
  BY <1>6, <1>7 DEF IsFcn, AddsUp
<1>9. h = g
  BY <1>2, <1>4, <1>5, <1>8, SumsUnique
<1> QED  BY <1>2, <1>3, <1>9

\* A resource without expenses has a total of zero.
LEMMA NothingSums ==
    ASSUME NEW rows \in [Keys -> Seq(Block)], NEW r \in Resources,
           \A d \in Dates : TotalOf(rows[<<r, d>>]) = 0
    PROVE  ResourceSum(rows, r) = 0
<1> DEFINE v == DayTotals(rows, r)
           c == AnyOf(Dates)
           h == [t \in SUBSET Dates |-> 0]
<1>1. v \in [Dates -> Int] /\ \A d \in Dates : v[d] = 0
  BY DEF DayTotals
<1>2. IsFiniteSet(Dates) /\ Chooses(c, Dates)
  BY LedgerAssumption DEF Chooses, AnyOf
<1>3. PICK g \in [SUBSET Dates -> Int] : Sums(g, Dates, c, v) /\ ResourceSum(rows, r) = g[Dates]
  BY ResourceIsSum
<1>4. ASSUME NEW t \in SUBSET Dates, t # {}  PROVE v[c[t]] = 0
  BY <1>1, <1>2, <1>4 DEF Chooses
<1> HIDE DEF v, c
<1>5. IsFcn(h, Dates) /\ AddsUp(h, Dates, c, v)
  BY <1>4 DEF IsFcn, AddsUp
<1>6. h = g
  BY <1>1, <1>2, <1>3, <1>5, SumsUnique
<1> QED  BY <1>3, <1>6

-----------------------------------------------------------------------------
(***************************************************************************)
(* Types.                                                                  *)
(***************************************************************************)
Pcs == {"idle", "loading", "cleared", "generating", "reading", "writing", "inserted",
        "summed"}

Others(i) == \A j \in Importers \ {i} : imp'[j] = imp[j]

\* An import that moves on and remembers all it has read.
MovesTo(i, pc) ==
    /\ imp' \in [Importers -> Importer] /\ Others(i)
    /\ imp'[i].pc = pc
    /\ imp'[i].todo = imp[i].todo /\ imp'[i].resource = imp[i].resource
    /\ imp'[i].want = imp[i].want /\ imp'[i].seen = imp[i].seen
    /\ imp'[i].sum = imp[i].sum

LEMMA ImporterParts ==
    ASSUME TypeOK, NEW i \in Importers
    PROVE  /\ imp[i] \in Importer /\ imp[i].pc \in Pcs /\ imp[i].todo \subseteq Resources
           /\ imp[i].resource \in Resources
           /\ imp[i].want \in [Dates -> Costs \cup {NoCost}]
           /\ imp[i].seen \in [Dates -> Int \cup {NoCost}] /\ imp[i].sum \in Int
  BY DEF TypeOK, Importer, Pcs

LEMMA Moved ==
    ASSUME TypeOK, NEW i \in Importers, NEW pc \in Pcs, imp' = [imp EXCEPT ![i].pc = pc]
    PROVE  MovesTo(i, pc)
<1>1. [imp[i] EXCEPT !.pc = pc] \in Importer
  BY ImporterParts DEF Importer, Pcs
<1>2. imp' \in [Importers -> Importer] /\ imp'[i] = [imp[i] EXCEPT !.pc = pc] /\ Others(i)
  BY <1>1 DEF TypeOK, Others
<1>3. imp[i] \in Importer
  BY ImporterParts
<1> QED  BY <1>2, <1>3 DEF MovesTo, Importer

LEMMA IdleImporter == Idle \in Importer /\ Idle.pc = "idle"
<1> DEFINE first == CHOOSE r \in Resources : TRUE
           none == [d \in Dates |-> NoCost]
<1>1. first \in Resources
  BY LedgerAssumption
<1>2. none \in [Dates -> Costs \cup {NoCost}] /\ none \in [Dates -> Int \cup {NoCost}]
  OBVIOUS
<1>3. Idle = [pc |-> "idle", todo |-> {}, resource |-> first, want |-> none, seen |-> none,
              sum |-> 0]
  BY DEF Idle
<1> HIDE DEF first, none
<1> QED  BY <1>1, <1>2, <1>3 DEF Importer

\* An import that ends.
EndsIdle(i) ==
    /\ imp' \in [Importers -> Importer] /\ Others(i)
    /\ imp'[i].pc = "idle"

LEMMA Ended ==
    ASSUME TypeOK, NEW i \in Importers, imp' = [imp EXCEPT ![i] = Idle]
    PROVE  EndsIdle(i)
  BY IdleImporter DEF TypeOK, EndsIdle, Others

\* What GetResourceIds, ReadRaw, ReadLedger and QueryTotals remember.
Plans(i) ==
    /\ imp' \in [Importers -> Importer] /\ Others(i)
    /\ imp'[i].pc = "generating"
    /\ imp'[i].todo = {r \in Resources : \E d \in Dates : raw[<<r, d>>] # NoCost}

LEMMA Planned ==
    ASSUME TypeOK, NEW i \in Importers, GetResourceIds(i)
    PROVE  Plans(i)
<1>1. PICK todo : todo = {r \in Resources : \E d \in Dates : raw[<<r, d>>] # NoCost}
  OBVIOUS
<1>2. imp' = [imp EXCEPT ![i].pc = "generating", ![i].todo = todo]
  BY <1>1 DEF GetResourceIds
<1> DEFINE new == [imp[i] EXCEPT !.pc = "generating", !.todo = todo]
<1>3. todo \in SUBSET Resources /\ imp[i] \in Importer
  BY <1>1, ImporterParts
<1>4. new \in Importer /\ new.pc = "generating" /\ new.todo = todo
  BY <1>3 DEF Importer
<1>5. imp' = [imp EXCEPT ![i] = new]
  BY <1>2 DEF TypeOK
<1> HIDE DEF new
<1> QED  BY <1>1, <1>4, <1>5 DEF Plans, Others, TypeOK

Takes(i, r) ==
    /\ r \in imp[i].todo
    /\ imp' \in [Importers -> Importer] /\ Others(i)
    /\ imp'[i].resource = r /\ imp'[i].todo = imp[i].todo \ {r}
    /\ \A d \in Dates : imp'[i].want[d] = raw[<<r, d>>]
    /\ imp'[i].pc = IF \E d \in Dates : raw[<<r, d>>] # NoCost
                    THEN "reading" ELSE "generating"

LEMMA Taken ==
    ASSUME TypeOK, NEW i \in Importers, ReadRaw(i)
    PROVE  \E r \in Resources : Takes(i, r)
<1>1. PICK r \in imp[i].todo :
          LET want == [d \in Dates |-> raw[<<r, d>>]]
              next == IF \E d \in Dates : want[d] # NoCost
                      THEN "reading" ELSE "generating"
          IN  imp' = [imp EXCEPT ![i].pc = next, ![i].resource = r,
                                 ![i].todo = @ \ {r}, ![i].want = want]
  BY DEF ReadRaw
<1>2. r \in Resources
  BY ImporterParts
<1>3. PICK want : want = [d \in Dates |-> raw[<<r, d>>]]
  OBVIOUS
<1>4. want \in [Dates -> Costs \cup {NoCost}] /\ \A d \in Dates : want[d] = raw[<<r, d>>]
  BY <1>2, <1>3 DEF TypeOK, Keys
<1>5. PICK pc \in {"reading", "generating"} :
          pc = IF \E d \in Dates : want[d] # NoCost THEN "reading" ELSE "generating"
  OBVIOUS
<1>6. PICK todo : todo = imp[i].todo \ {r}
  OBVIOUS
<1>7. imp' = [imp EXCEPT ![i].pc = pc, ![i].resource = r, ![i].todo = todo, ![i].want = want]
  BY <1>1, <1>3, <1>5, <1>6 DEF TypeOK
<1> DEFINE new == [imp[i] EXCEPT !.pc = pc, !.resource = r, !.todo = todo, !.want = want]
<1>8. todo \in SUBSET Resources /\ imp[i] \in Importer
  BY <1>6, ImporterParts
<1>9. /\ new \in Importer /\ new.pc = pc /\ new.todo = todo /\ new.resource = r
      /\ new.want = want
  BY <1>2, <1>4, <1>5, <1>8 DEF Importer
<1>10. imp' = [imp EXCEPT ![i] = new]
  BY <1>7 DEF TypeOK
<1> HIDE DEF new
<1>11. imp' \in [Importers -> Importer] /\ imp'[i] = new /\ Others(i)
  BY <1>9, <1>10 DEF Others, TypeOK
<1>12. imp'[i].pc = IF \E d \in Dates : raw[<<r, d>>] # NoCost
                    THEN "reading" ELSE "generating"
  BY <1>4, <1>5, <1>9, <1>11
<1> QED  BY <1>2, <1>4, <1>6, <1>9, <1>11, <1>12 DEF Takes

Reads(i) ==
    /\ imp' \in [Importers -> Importer] /\ Others(i)
    /\ imp'[i].pc = "writing"
    /\ imp'[i].todo = imp[i].todo /\ imp'[i].resource = imp[i].resource
    /\ imp'[i].want = imp[i].want
    /\ \A d \in Dates :
          imp'[i].seen[d] = IF \/ expenses[<<imp[i].resource, d>>] = <<>>
                               \/ Exists(<<imp[i].resource, d>>) = 0
                            THEN NoCost ELSE Total(<<imp[i].resource, d>>)

LEMMA KeyTotalTyped ==
    ASSUME TypeOK, NEW k \in Keys
    PROVE  Total(k) \in Int /\ Total(k) = TotalOf(expenses[k]) /\ Exists(k) = ExistsOf(expenses[k])
<1>1. expenses[k] \in Seq(Block)
  BY DEF TypeOK
<1> QED  BY <1>1, TotalTyped DEF Total, TotalOf, Exists, ExistsOf

LEMMA LedgerRead ==
    ASSUME TypeOK, NEW i \in Importers, ReadLedger(i)
    PROVE  Reads(i)
<1> DEFINE r == imp[i].resource
           seen == [d \in Dates |-> IF expenses[<<r, d>>] = <<>> \/ Exists(<<r, d>>) = 0
                                    THEN NoCost ELSE Total(<<r, d>>)]
           new == [imp[i] EXCEPT !.pc = "writing", !.seen = seen]
<1>1. imp' = [imp EXCEPT ![i] = new]
  BY DEF ReadLedger, TypeOK
<1>2. seen \in [Dates -> Int \cup {NoCost}]
  <2>1. ASSUME NEW d \in Dates  PROVE Total(<<r, d>>) \in Int
    <3>1. <<r, d>> \in Keys
      BY ImporterParts DEF Keys
    <3> QED  BY <3>1, KeyTotalTyped
  <2> QED  BY <2>1
<1>3. \A d \in Dates : seen[d] = IF expenses[<<r, d>>] = <<>> \/ Exists(<<r, d>>) = 0
                                 THEN NoCost ELSE Total(<<r, d>>)
  OBVIOUS
<1> HIDE DEF seen
<1>4. imp[i] \in Importer
  BY ImporterParts
<1>5. /\ new \in Importer /\ new.pc = "writing" /\ new.seen = seen
      /\ new.todo = imp[i].todo /\ new.resource = imp[i].resource /\ new.want = imp[i].want
  BY <1>2, <1>4 DEF Importer
<1> HIDE DEF new
<1>6. imp' \in [Importers -> Importer] /\ imp'[i] = new /\ Others(i)
  BY <1>1, <1>5 DEF Others, TypeOK
<1> QED  BY <1>3, <1>5, <1>6 DEF Reads

\* get_common_resource_expense_info before and after a step.
LEMMA ResourceTotals ==
    ASSUME NEW r
    PROVE  ResourceTotal(r) = ResourceSum(expenses, r) /\ ResourceTotal(r)' = ResourceSum(expenses', r)
<1>1. ResourceTotal(r) = ResourceSum(expenses, r)
  BY DEF ResourceTotal, ResourceSum, Total, TotalOf
<1>2. ResourceTotal(r)' = ResourceSum(expenses', r)
  BY DEF ResourceTotal, ResourceSum, Total, TotalOf, MapThenSumSet, MapThenFoldSet,
         FoldLeft
<1> QED  BY <1>1, <1>2

Queries(i) ==
    /\ imp' \in [Importers -> Importer] /\ Others(i)
    /\ imp'[i].pc = "summed"
    /\ imp'[i].todo = imp[i].todo /\ imp'[i].resource = imp[i].resource
    /\ imp'[i].sum = ResourceTotal(imp[i].resource)

LEMMA Queried ==
    ASSUME TypeOK, NEW i \in Importers, QueryTotals(i)
    PROVE  Queries(i)
<1>1. PICK sum \in Int : sum = ResourceTotal(imp[i].resource)
  <2>1. ResourceTotal(imp[i].resource) \in Int
    BY ImporterParts, ResourceTotals, ResourceTyped DEF TypeOK
  <2> QED  BY <2>1
<1> DEFINE new == [imp[i] EXCEPT !.pc = "summed", !.sum = sum]
<1>2. imp' = [imp EXCEPT ![i] = new]
  BY <1>1 DEF QueryTotals, TypeOK
<1>3. imp[i] \in Importer
  BY ImporterParts
<1>4. /\ new \in Importer /\ new.pc = "summed" /\ new.sum = sum
      /\ new.todo = imp[i].todo /\ new.resource = imp[i].resource
  BY <1>3 DEF Importer
<1> HIDE DEF new
<1>5. imp' \in [Importers -> Importer] /\ imp'[i] = new /\ Others(i)
  BY <1>2, <1>4 DEF Others, TypeOK
<1> QED  BY <1>1, <1>4, <1>5 DEF Queries

-----------------------------------------------------------------------------
(* What an insert and a merge leave in the table.                           *)

LEMMA CorrectionsTyped ==
    ASSUME TypeOK, NEW i \in Importers
    PROVE  /\ Corrections(i) \in [Keys -> Seq(Block)]
           /\ Entered(i) \in [Keys -> Costs \cup {NoCost}]
<1>1. ASSUME NEW k \in Keys, k[2] \in Corrected(i)
      PROVE  /\ [minus |-> imp[i].seen[k[2]], plus |-> imp[i].want[k[2]]] \in Block
             /\ imp[i].want[k[2]] \in Costs
  <2>1. k[2] \in Dates /\ imp[i].want[k[2]] # NoCost
    BY <1>1 DEF Corrected
  <2>2. imp[i].want[k[2]] \in Costs /\ imp[i].seen[k[2]] \in Int \cup {NoCost}
    BY <2>1, ImporterParts
  <2> QED  BY <2>2, LedgerAssumption DEF Block
<1>2. ASSUME NEW k \in Keys
      PROVE  Corrections(i)[k] \in Seq(Block) /\ Entered(i)[k] \in Costs \cup {NoCost}
  <2>1. expenses[k] \in Seq(Block) /\ entered[k] \in Costs \cup {NoCost}
    BY DEF TypeOK
  <2>2. CASE k[1] = imp[i].resource /\ k[2] \in Corrected(i)
    <3>1. PICK b \in Block : b = [minus |-> imp[i].seen[k[2]], plus |-> imp[i].want[k[2]]]
      BY <1>1, <2>2
    <3>2. Append(expenses[k], b) \in Seq(Block)
      BY <2>1, AppendProperties
    <3>3. Corrections(i)[k] = Append(expenses[k], b)
      BY <2>2, <3>1 DEF Corrections
    <3> QED  BY <1>1, <2>2, <3>2, <3>3 DEF Entered
  <2>3. CASE ~(k[1] = imp[i].resource /\ k[2] \in Corrected(i))
    <3>1. Corrections(i)[k] = expenses[k] /\ Entered(i)[k] = entered[k]
      BY <2>3 DEF Corrections, Entered
    <3> QED  BY <2>1, <3>1
  <2> QED  BY <2>2, <2>3
<1>3. /\ Corrections(i) = [k \in Keys |-> Corrections(i)[k]]
      /\ Entered(i) = [k \in Keys |-> Entered(i)[k]]
  BY DEF Corrections, Entered
<1> QED  BY <1>2, <1>3

LEMMA MergeTyped ==
    ASSUME TypeOK, NEW k \in Keys, Merge(k)
    PROVE  \E n \in 1 .. Len(expenses[k]) - 1, b \in Block :
              /\ b = Collapse(expenses[k][n], expenses[k][n + 1])
              /\ expenses' = [expenses EXCEPT ![k] = Replaced(expenses[k], b, n)]
              /\ expenses' \in [Keys -> Seq(Block)]
<1>1. expenses[k] \in Seq(Block)
  BY DEF TypeOK
<1>2. PICK n \in 1 .. Len(expenses[k]) - 1 :
          expenses' = [expenses EXCEPT ![k] =
             SubSeq(@, 1, n - 1) \o <<Collapse(@[n], @[n + 1])>>
               \o SubSeq(@, n + 2, Len(@))]
  BY DEF Merge
<1>3. expenses[k][n] \in Block /\ expenses[k][n + 1] \in Block
  BY <1>1
<1>4. PICK b \in Block : b = Collapse(expenses[k][n], expenses[k][n + 1])
  BY <1>3 DEF Collapse, Block
<1>5. expenses' = [expenses EXCEPT ![k] = Replaced(expenses[k], b, n)]
  BY <1>2, <1>4 DEF Replaced, TypeOK
<1>6. Replaced(expenses[k], b, n) \in Seq(Block)
  BY <1>1, MergeEnds DEF EndsKept
<1>7. expenses' \in [Keys -> Seq(Block)]
  BY <1>5, <1>6 DEF TypeOK
<1> QED  BY <1>4, <1>5, <1>7

-----------------------------------------------------------------------------
LEMMA LedgerTypeStep ==
    ASSUME TypeOK, [Next]_vars
    PROVE  TypeOK'
<1>1. ASSUME NEW i \in Importers, StartImport(i)  PROVE TypeOK'
  <2>1. MovesTo(i, "loading")
    BY <1>1, Moved DEF StartImport, Pcs
  <2>2. raw' \in [Keys -> Costs \cup {NoCost}] /\ identity' \in [Keys -> Importers \cup {NoCost}]
    BY <1>1 DEF StartImport, TypeOK
  <2>3. started' \in 0 .. MaxImports
    BY <1>1, LedgerAssumption DEF StartImport, TypeOK
  <2>4. overlapped' \in BOOLEAN /\ synced' \in BOOLEAN
    BY <1>1 DEF StartImport, TypeOK
  <2> QED  BY <1>1, <2>1, <2>2, <2>3, <2>4 DEF StartImport, MovesTo, TypeOK
<1>2. ASSUME NEW i \in Importers, UpdateRawRecords(i)  PROVE TypeOK'
  <2>1. PICK k \in Keys, c \in Costs : raw' = [raw EXCEPT ![k] = c]
                                       /\ identity' = [identity EXCEPT ![k] = i]
    BY <1>2 DEF UpdateRawRecords
  <2>2. raw' \in [Keys -> Costs \cup {NoCost}] /\ identity' \in [Keys -> Importers \cup {NoCost}]
    BY <2>1 DEF TypeOK
  <2> QED  BY <1>2, <2>2 DEF UpdateRawRecords, historyVars, TypeOK
<1>3. ASSUME NEW i \in Importers, ClearRudiments(i)  PROVE TypeOK'
  <2>1. MovesTo(i, "cleared")
    BY <1>3, Moved DEF ClearRudiments, Pcs
  <2>2. PICK gone : raw' = [k \in Keys |-> IF k \in gone THEN NoCost ELSE raw[k]]
                    /\ identity' = [k \in Keys |-> IF k \in gone THEN NoCost ELSE identity[k]]
    BY <1>3 DEF ClearRudiments
  <2>3. raw' \in [Keys -> Costs \cup {NoCost}] /\ identity' \in [Keys -> Importers \cup {NoCost}]
    BY <2>2 DEF TypeOK
  <2> QED  BY <1>3, <2>1, <2>3 DEF ClearRudiments, MovesTo, historyVars, TypeOK
<1>4. ASSUME NEW i \in Importers,
             GetResourceIds(i) \/ ReadRaw(i) \/ ReadLedger(i) \/ QueryTotals(i)
      PROVE  TypeOK'
  <2>1. imp' \in [Importers -> Importer]
    BY <1>4, Planned, Taken, LedgerRead, Queried DEF Plans, Takes, Reads, Queries
  <2>2. UNCHANGED <<stores, started, historyVars>>
    BY <1>4 DEF GetResourceIds, ReadRaw, ReadLedger, QueryTotals
  <2> QED  BY <2>1, <2>2 DEF stores, historyVars, TypeOK
<1>5. ASSUME NEW i \in Importers, Insert(i)  PROVE TypeOK'
  <2>1. PICK pc \in {"generating", "inserted"} : imp' = [imp EXCEPT ![i].pc = pc]
    BY <1>5, Zenon DEF Insert
  <2>2. MovesTo(i, pc)
    BY <2>1, Moved DEF Pcs
  <2> QED  BY <1>5, <2>2, CorrectionsTyped DEF Insert, MovesTo, TypeOK
<1>6. ASSUME NEW i \in Importers, UpdateResourceInfo(i)  PROVE TypeOK'
  <2>1. MovesTo(i, "generating")
    BY <1>6, Moved DEF UpdateResourceInfo, Pcs
  <2>2. total_cost' \in [Resources -> Int] /\ torn' \subseteq Resources
    BY <1>6, ImporterParts DEF UpdateResourceInfo, TypeOK
  <2> QED  BY <1>6, <2>1, <2>2 DEF UpdateResourceInfo, MovesTo, TypeOK
<1>7. ASSUME NEW i \in Importers, Finish(i) \/ Abort(i)  PROVE TypeOK'
  <2>1. EndsIdle(i)
    BY <1>7, Ended DEF Finish, Abort
  <2>2. identity' \in [Keys -> Importers \cup {NoCost}]
    BY <1>7 DEF Finish, Abort, Forget, TypeOK
  <2>3. CASE Finish(i)
    BY <2>1, <2>2, <2>3 DEF Finish, EndsIdle, TypeOK
  <2>4. CASE Abort(i)
    <3>1. torn' \subseteq Resources
      BY <2>4, ImporterParts DEF Abort, TypeOK
    <3>2. expenses' \in [Keys -> Seq(Block)] /\ entered' \in [Keys -> Costs \cup {NoCost}]
      BY <2>4, CorrectionsTyped DEF Abort, TypeOK
    <3> QED  BY <2>1, <2>2, <2>4, <3>1, <3>2 DEF Abort, EndsIdle, TypeOK
  <2> QED  BY <1>7, <2>3, <2>4
<1>8. ASSUME NEW k \in Keys, Merge(k)  PROVE TypeOK'
  <2>1. expenses' \in [Keys -> Seq(Block)]
    BY <1>8, MergeTyped
  <2> QED  BY <1>8, <2>1 DEF Merge, historyVars, TypeOK
<1>9. CASE UNCHANGED vars
  BY <1>9 DEF vars, TypeOK
<1> QED
  BY <1>1, <1>2, <1>3, <1>4, <1>5, <1>6, <1>7, <1>8, <1>9 DEF Next, ImportStep

LEMMA LedgerTypeInit == Init => TypeOK
<1>1. <<>> \in Seq(Block)
  BY EmptySeq
<1>2. ASSUME Init  PROVE TypeOK
  <2>1. expenses \in [Keys -> Seq(Block)] /\ imp \in [Importers -> Importer]
    BY <1>1, <1>2, IdleImporter DEF Init
  <2>2. started \in 0 .. MaxImports
    BY <1>2, LedgerAssumption DEF Init
  <2>3. /\ raw \in [Keys -> Costs \cup {NoCost}] /\ entered \in [Keys -> Costs \cup {NoCost}]
        /\ identity \in [Keys -> Importers \cup {NoCost}]
        /\ total_cost \in [Resources -> Int] /\ torn \subseteq Resources
    BY <1>2 DEF Init
  <2>4. overlapped \in BOOLEAN /\ synced \in BOOLEAN
    BY <1>2 DEF Init
  <2> QED  BY <2>1, <2>2, <2>3, <2>4 DEF TypeOK
<1> QED  BY <1>2

\* Every sum is a number and every row a cost, however imports overlap, fail and
\* have their rows merged.
THEOREM LedgerTypeCorrect == Spec => []TypeOK
<1> QED  BY LedgerTypeInit, LedgerTypeStep, PTL DEF Spec

-----------------------------------------------------------------------------
(***************************************************************************)
(* Corrections and merges keep rows linked; a correction gives a day its   *)
(* raw cost, a merge leaves its total alone.                               *)
(***************************************************************************)
LEMMA LinkedAppend ==
    ASSUME NEW s \in Seq(Block), Linked(s), NEW b \in Block,
           b.minus = IF s = <<>> THEN NoCost ELSE s[Len(s)].plus
    PROVE  Linked(Append(s, b)) /\ TotalOf(Append(s, b)) = b.plus
<1> DEFINE t == Append(s, b)
<1>1. /\ t \in Seq(Block) /\ t # <<>> /\ Len(s) \in Nat /\ Len(t) = Len(s) + 1
      /\ t[Len(s) + 1] = b /\ \A k \in 1 .. Len(s) : t[k] = s[k]
      /\ s = <<>> <=> Len(s) = 0
  BY AppendProperties, LenProperties, EmptySeq
<1> HIDE DEF t
<1>2. t[1].minus = NoCost
  <2>1. CASE s = <<>>
    BY <1>1, <2>1
  <2>2. CASE s # <<>>
    <3>1. 1 \in 1 .. Len(s)
      BY <1>1, <2>2
    <3> QED  BY <1>1, <2>2, <3>1 DEF Linked
  <2> QED  BY <2>1, <2>2
<1>3. ASSUME NEW k \in 1 .. Len(t) - 1  PROVE t[k + 1].minus = t[k].plus
  <2>1. k \in 1 .. Len(s) /\ t[k] = s[k] /\ s # <<>>
    BY <1>1
  <2>2. CASE k = Len(s)
    BY <1>1, <2>1, <2>2
  <2>3. CASE k # Len(s)
    <3>1. k \in 1 .. Len(s) - 1 /\ k + 1 \in 1 .. Len(s)
      BY <1>1, <2>1, <2>3
    <3> QED  BY <1>1, <2>1, <3>1 DEF Linked
  <2> QED  BY <2>2, <2>3
<1>4. Linked(t)
  BY <1>2, <1>3 DEF Linked
<1>5. TotalOf(t) = b.plus
  BY <1>1, <1>4, LinkedTotal
<1> QED  BY <1>4, <1>5 DEF t

ElementsKept(s, e, n, t) ==
    /\ Len(t) = Len(s) - 1
    /\ \A j \in 1 .. Len(s) - 1 :
          t[j] = IF j < n THEN s[j] ELSE IF j = n THEN e ELSE s[j + 1]

LEMMA ReplacedElements ==
    ASSUME NEW S, NEW s \in Seq(S), NEW e \in S, NEW n \in 1 .. Len(s) - 1
    PROVE  ElementsKept(s, e, n, Replaced(s, e, n))
<1> DEFINE a == SubSeq(s, 1, n - 1)
           z == SubSeq(s, n + 2, Len(s))
           b == a \o <<e>>
           t == b \o z
<1>0. Len(s) \in Nat /\ n \in Nat /\ n >= 1 /\ n + 1 <= Len(s)
  OBVIOUS
<1>1. /\ a \in Seq(S) /\ Len(a) = n - 1
      /\ \A j \in 1 .. n - 1 : a[j] = s[j]
  BY <1>0
<1>2. /\ z \in Seq(S) /\ Len(z) = Len(s) - n - 1
      /\ \A j \in 1 .. Len(s) - n - 1 : z[j] = s[n + 1 + j]
  BY <1>0
<1> HIDE DEF a, z
<1>3. <<e>> \in Seq(S) /\ Len(<<e>>) = 1 /\ <<e>>[1] = e
  OBVIOUS
<1>4. /\ b \in Seq(S) /\ Len(b) = n
      /\ \A j \in 1 .. n : b[j] = IF j <= n - 1 THEN a[j] ELSE <<e>>[j - (n - 1)]
  BY <1>0, <1>1, <1>3, ConcatProperties
<1>5. Replaced(s, e, n) = t
  BY DEF a, b, z, t, Replaced
<1> HIDE DEF b
<1>6. /\ Len(t) = Len(s) - 1
      /\ \A j \in 1 .. Len(s) - 1 : t[j] = IF j <= n THEN b[j] ELSE z[j - n]
  <2>1. n + (Len(s) - n - 1) = Len(s) - 1
    BY <1>0
  <2>2. /\ Len(t) = Len(b) + Len(z)
        /\ \A j \in 1 .. Len(b) + Len(z) : t[j] = IF j <= Len(b) THEN b[j] ELSE z[j - Len(b)]
    BY <1>2, <1>4, ConcatProperties
  <2>3. Len(b) + Len(z) = Len(s) - 1 /\ Len(b) = n
    BY <1>2, <1>4, <2>1
  <2> HIDE DEF t
  <2> QED  BY <2>2, <2>3
<1> HIDE DEF t
<1>7. ASSUME NEW j \in 1 .. Len(s) - 1
      PROVE  t[j] = IF j < n THEN s[j] ELSE IF j = n THEN e ELSE s[j + 1]
  <2>1. CASE j < n
    <3>1. j \in 1 .. n - 1 /\ j \in 1 .. n /\ j <= n
      BY <1>0, <2>1
    <3> QED  BY <1>1, <1>4, <1>6, <2>1, <3>1
  <2>2. CASE j = n
    <3>1. j \in 1 .. n /\ ~(j <= n - 1) /\ j - (n - 1) = 1 /\ j <= n /\ ~(j < n)
      BY <1>0, <2>2
    <3> QED  BY <1>3, <1>4, <1>6, <2>2, <3>1
  <2>3. CASE j > n
    <3>1. j - n \in 1 .. Len(s) - n - 1 /\ n + 1 + (j - n) = j + 1 /\ ~(j <= n)
      BY <1>0, <2>3
    <3>2. z[j - n] = s[j + 1]
      BY <1>2, <3>1
    <3> QED  BY <1>0, <1>6, <2>3, <3>1, <3>2
  <2> QED  BY <1>0, <2>1, <2>2, <2>3
<1> QED  BY <1>5, <1>6, <1>7 DEF ElementsKept

LEMMA LinkedMerge ==
    ASSUME NEW s \in Seq(Block), Linked(s), NEW n \in 1 .. Len(s) - 1,
           NEW b \in Block, b = Collapse(s[n], s[n + 1])
    PROVE  /\ Linked(Replaced(s, b, n)) /\ TotalOf(Replaced(s, b, n)) = TotalOf(s)
           /\ Replaced(s, b, n) # <<>> /\ s # <<>>
<1> DEFINE t == Replaced(s, b, n)
<1>0. Len(s) \in Nat /\ n \in Nat /\ n >= 1 /\ n + 1 <= Len(s) /\ s # <<>>
  OBVIOUS
<1>1. ASSUME NEW k \in 1 .. Len(s) - 1  PROVE s[k].plus \in Int /\ s[k + 1].minus = s[k].plus
  <2>1. s[k] \in Block
    BY <1>0
  <2> QED  BY <2>1 DEF Block, Linked
<1>2. b.plus = s[n + 1].plus /\ b.minus = s[n].minus
  <2>1. s[n + 1].minus # NoCost
    BY <1>1, LedgerAssumption
  <2> QED  BY <2>1 DEF Collapse
<1>3. /\ Len(t) = Len(s) - 1
      /\ \A j \in 1 .. Len(s) - 1 :
            t[j] = IF j < n THEN s[j] ELSE IF j = n THEN b ELSE s[j + 1]
  <2>1. ElementsKept(s, b, n, t)
    BY ReplacedElements
  <2> HIDE DEF t
  <2> QED  BY <2>1 DEF ElementsKept
<1>4. EndsKept(Block, s, b, n, t)
  BY MergeEnds
<1> HIDE DEF t
<1>5. t[1].minus = NoCost
  BY <1>0, <1>2, <1>4 DEF EndsKept, Linked
<1>6. ASSUME NEW k \in 1 .. Len(t) - 1  PROVE t[k + 1].minus = t[k].plus
  <2>1. k \in 1 .. Len(s) - 1 /\ k + 1 \in 1 .. Len(s) - 1
    BY <1>0, <1>3
  <2>2. CASE k + 1 < n
    <3>1. t[k] = s[k] /\ t[k + 1] = s[k + 1]
      BY <1>0, <1>3, <2>1, <2>2
    <3> QED  BY <1>1, <2>1, <3>1
  <2>3. CASE k + 1 = n
    <3>1. t[k] = s[k] /\ t[k + 1] = b
      BY <1>3, <2>1, <2>3
    <3> QED  BY <1>1, <1>2, <2>1, <2>3, <3>1
  <2>4. CASE k = n
    <3>1. t[k] = b /\ t[k + 1] = s[(k + 1) + 1]
      BY <1>3, <2>1, <2>4
    <3> QED  BY <1>1, <1>2, <2>1, <2>4, <3>1
  <2>5. CASE k > n
    <3>1. t[k] = s[k + 1] /\ t[k + 1] = s[(k + 1) + 1]
      BY <1>0, <1>3, <2>1, <2>5
    <3> QED  BY <1>1, <2>1, <3>1
  <2> QED  BY <1>0, <2>1, <2>2, <2>3, <2>4, <2>5
<1>7. Linked(t)
  BY <1>5, <1>6 DEF Linked
<1>8. TotalOf(t) = t[Len(t)].plus /\ TotalOf(s) = s[Len(s)].plus
  BY <1>0, <1>4, <1>7, LinkedTotal DEF EndsKept
<1>9. t[Len(t)].plus = s[Len(s)].plus
  BY <1>2, <1>4 DEF EndsKept
<1> QED  BY <1>0, <1>4, <1>7, <1>8, <1>9 DEF t, EndsKept

-----------------------------------------------------------------------------
(***************************************************************************)
(* The invariant.  As long as no two imports overlapped, the expense of a  *)
(* day is the cost in its last row, and an import in progress knows the    *)
(* raw costs and the expenses of the resource it corrects.                 *)
(***************************************************************************)
LastOf(rows) == IF rows = <<>> THEN 0 ELSE rows[Len(rows)].plus
Shown(k) == LastOf(expenses[k])

Matches(r) == \A d \in Dates : raw[<<r, d>>] # NoCost => Shown(<<r, d>>) = raw[<<r, d>>]

Alone == \A i, j \in Importers : imp[i].pc # "idle" /\ imp[j].pc # "idle" => i = j

AllLinked == \A k \in Keys : Linked(expenses[k])

\* A resource that the import is done with, or that has nothing to import, matches.
DoneMatches(i) ==
    imp[i].pc \in {"generating", "reading", "writing", "inserted", "summed"} =>
        \A r \in Resources \ imp[i].todo :
            \/ Matches(r)
            \/ imp[i].pc \in {"reading", "writing"} /\ r = imp[i].resource

\* What an import has read is still so when it uses it.
WantIsRaw(i) ==
    imp[i].pc \in {"reading", "writing"} =>
        \A d \in Dates : imp[i].want[d] = raw[<<imp[i].resource, d>>]

SeenIsShown(i) ==
    imp[i].pc = "writing" =>
        \A d \in Dates :
            imp[i].seen[d] = IF expenses[<<imp[i].resource, d>>] = <<>> THEN NoCost
                             ELSE Shown(<<imp[i].resource, d>>)

Importing(i) == DoneMatches(i) /\ WantIsRaw(i) /\ SeenIsShown(i)

SyncedMatches ==
    synced => /\ \A i \in Importers : imp[i].pc = "idle"
              /\ \A r \in Resources : Matches(r)

TotalsInv ==
    ~overlapped => /\ Alone /\ AllLinked /\ SyncedMatches
                   /\ \A i \in Importers : Importing(i)

\* While an import is active and none overlaps it, the others are idle.
LEMMA OnlyOne ==
    ASSUME Alone, NEW i \in Importers, imp[i].pc # "idle"
    PROVE  \A j \in Importers \ {i} : imp[j].pc = "idle"
  BY DEF Alone

\* A step of the only import: what it knows is all there is to show.
LEMMA AloneStep ==
    ASSUME NEW i \in Importers, \A j \in Importers \ {i} : imp[j].pc = "idle", Others(i),
           AllLinked', SyncedMatches', Importing(i)'
    PROVE  TotalsInv'
<1>1. \A j \in Importers \ {i} : imp'[j].pc = "idle"
  BY DEF Others
<1>2. Alone'
  BY <1>1 DEF Alone
<1>3. ASSUME NEW j \in Importers  PROVE Importing(j)'
  <2>1. CASE j = i
    BY <2>1
  <2>2. CASE j # i
    <3>1. imp'[j].pc = "idle"
      BY <1>1, <2>2
    <3> QED  BY <3>1 DEF Importing, DoneMatches, WantIsRaw, SeenIsShown
  <2> QED  BY <2>1, <2>2
<1> QED  BY <1>2, <1>3 DEF TotalsInv

\* The expense of a day is what the queries compute.
LEMMA ShownTotal ==
    ASSUME TypeOK, AllLinked, NEW k \in Keys
    PROVE  /\ Total(k) = Shown(k) /\ Shown(k) \in Int
           /\ Exists(k) = IF expenses[k] = <<>> THEN 0 ELSE 1
<1>1. expenses[k] \in Seq(Block) /\ Linked(expenses[k])
  BY DEF TypeOK, AllLinked
<1>2. /\ TotalOf(expenses[k]) = Shown(k)
      /\ ExistsOf(expenses[k]) = IF expenses[k] = <<>> THEN 0 ELSE 1
  BY <1>1, LinkedTotal DEF Shown, LastOf
<1> QED  BY <1>2, KeyTotalTyped

\* The rows that an import inserts give its resource the raw costs and leave every
\* other expense alone.
Corrects(i, rows) ==
    \A k \in Keys :
        /\ Linked(rows[k])
        /\ LastOf(rows[k]) = IF k[1] = imp[i].resource /\ raw[k] # NoCost
                             THEN raw[k] ELSE Shown(k)

LEMMA CorrectionRows ==
    ASSUME TypeOK, AllLinked, NEW i \in Importers, imp[i].pc = "writing",
           WantIsRaw(i), SeenIsShown(i)
    PROVE  Corrects(i, Corrections(i))
<1> SUFFICES ASSUME NEW k \in Keys
             PROVE  /\ Linked(Corrections(i)[k])
                    /\ LastOf(Corrections(i)[k]) =
                          IF k[1] = imp[i].resource /\ raw[k] # NoCost THEN raw[k] ELSE Shown(k)
  BY DEF Corrects
<1>1. expenses[k] \in Seq(Block) /\ Linked(expenses[k])
  BY DEF TypeOK, AllLinked
<1>2. k[2] \in Dates /\ k = <<k[1], k[2]>>
  BY DEF Keys
<1>3. CASE k[1] = imp[i].resource /\ k[2] \in Corrected(i)
  <2>1. /\ imp[i].want[k[2]] = raw[k] /\ raw[k] # NoCost
        /\ imp[i].seen[k[2]] = IF expenses[k] = <<>> THEN NoCost ELSE Shown(k)
    BY <1>2, <1>3 DEF WantIsRaw, SeenIsShown, Corrected
  <2>2. raw[k] \in Int /\ imp[i].seen[k[2]] \in Int \cup {NoCost}
    BY <1>2, <2>1, ImporterParts, LedgerAssumption DEF TypeOK
  <2>3. PICK b \in Block : b = [minus |-> imp[i].seen[k[2]], plus |-> imp[i].want[k[2]]]
    BY <2>1, <2>2 DEF Block
  <2>4. Corrections(i)[k] = Append(expenses[k], b)
    BY <1>3, <2>3 DEF Corrections
  <2>5. b.minus = (IF expenses[k] = <<>> THEN NoCost ELSE expenses[k][Len(expenses[k])].plus)
        /\ b.plus = raw[k]
    BY <2>1, <2>3 DEF Shown, LastOf
  <2>6. Linked(Append(expenses[k], b))
    BY <1>1, <2>5, LinkedAppend
  <2>7. LastOf(Append(expenses[k], b)) = b.plus
    <3>1. /\ Append(expenses[k], b) # <<>>
          /\ Append(expenses[k], b)[Len(Append(expenses[k], b))] = b
      BY <1>1, AppendEnds
    <3> QED  BY <3>1 DEF LastOf
  <2> QED  BY <1>3, <2>1, <2>4, <2>5, <2>6, <2>7
<1>4. CASE ~(k[1] = imp[i].resource /\ k[2] \in Corrected(i))
  <2>1. Corrections(i)[k] = expenses[k]
    BY <1>4 DEF Corrections
  <2>2. ASSUME k[1] = imp[i].resource, raw[k] # NoCost  PROVE Shown(k) = raw[k]
    <3>1. /\ imp[i].want[k[2]] = raw[k] /\ imp[i].seen[k[2]] = raw[k]
          /\ imp[i].seen[k[2]] = IF expenses[k] = <<>> THEN NoCost ELSE Shown(k)
      BY <1>2, <1>4, <2>2 DEF WantIsRaw, SeenIsShown, Corrected
    <3> QED  BY <2>2, <3>1
  <2> QED  BY <1>1, <2>1, <2>2 DEF Shown
<1> QED  BY <1>3, <1>4

\* A merge moves no total.
Keeps(rows) ==
    \A k \in Keys : /\ Linked(rows[k]) /\ LastOf(rows[k]) = Shown(k)
                    /\ rows[k] = <<>> <=> expenses[k] = <<>>

LEMMA MergeKeeps ==
    ASSUME TypeOK, AllLinked, NEW k \in Keys, Merge(k), NEW rows, expenses' = rows
    PROVE  Keeps(rows)
<1>1. PICK n \in 1 .. Len(expenses[k]) - 1, b \in Block :
              /\ b = Collapse(expenses[k][n], expenses[k][n + 1])
              /\ expenses' = [expenses EXCEPT ![k] = Replaced(expenses[k], b, n)]
              /\ expenses' \in [Keys -> Seq(Block)]
  BY MergeTyped
<1>2. ASSUME NEW q \in Keys
      PROVE  /\ Linked(rows[q]) /\ LastOf(rows[q]) = Shown(q)
             /\ rows[q] = <<>> <=> expenses[q] = <<>>
  <2>1. /\ expenses[q] \in Seq(Block) /\ Linked(expenses[q]) /\ expenses[k] \in Seq(Block)
        /\ Linked(expenses[k])
    BY DEF TypeOK, AllLinked
  <2>2. CASE q = k
    <3>1. rows[q] = Replaced(expenses[k], b, n) /\ rows[q] \in Seq(Block)
      BY <1>1, <2>2 DEF TypeOK
    <3>2. /\ Linked(rows[q]) /\ TotalOf(rows[q]) = TotalOf(expenses[q])
          /\ rows[q] # <<>> /\ expenses[q] # <<>>
      BY <1>1, <2>1, <2>2, <3>1, LinkedMerge
    <3>3. TotalOf(rows[q]) = rows[q][Len(rows[q])].plus
      BY <3>1, <3>2, LinkedTotal
    <3>4. TotalOf(expenses[q]) = expenses[q][Len(expenses[q])].plus
      BY <2>1, <3>2, LinkedTotal
    <3> QED  BY <3>2, <3>3, <3>4 DEF Shown, LastOf
  <2>3. CASE q # k
    <3>1. rows[q] = expenses[q]
      BY <1>1, <2>3 DEF TypeOK
    <3> QED  BY <2>1, <3>1 DEF Shown
  <2> QED  BY <2>2, <2>3
<1> QED  BY <1>2 DEF Keeps

-----------------------------------------------------------------------------
(* Every step preserves the invariant, one lemma per action.                *)

\* Before any step that ends without an overlap, the invariant holds in full.
Settled == ~overlapped /\ TypeOK /\ Alone /\ AllLinked /\ SyncedMatches
           /\ \A i \in Importers : Importing(i)

\* An active import alone: the others are idle and nothing is synced yet.
LEMMA ActiveAlone ==
    ASSUME Settled, NEW i \in Importers, imp[i].pc # "idle"
    PROVE  /\ \A j \in Importers \ {i} : imp[j].pc = "idle"
           /\ ~synced /\ Importing(i)
  BY OnlyOne DEF Settled, SyncedMatches

LEMMA StartTotals ==
    ASSUME Settled, ~overlapped', NEW i \in Importers, StartImport(i)
    PROVE  TotalsInv'
<1>1. MovesTo(i, "loading")
  BY Moved DEF StartImport, Pcs, Settled
<1>2. \A j \in Importers \ {i} : imp[j].pc = "idle"
  BY DEF StartImport
<1>3. AllLinked' /\ SyncedMatches'
  BY DEF StartImport, Settled, AllLinked, SyncedMatches
<1>4. Importing(i)'
  BY <1>1 DEF MovesTo, Importing, DoneMatches, WantIsRaw, SeenIsShown
<1> QED  BY <1>1, <1>2, <1>3, <1>4, AloneStep DEF MovesTo

LEMMA LoadTotals ==
    ASSUME Settled, NEW i \in Importers, UpdateRawRecords(i) \/ ClearRudiments(i)
    PROVE  TotalsInv'
<1>1. PICK pc \in {"loading", "cleared"} : imp'[i].pc = pc /\ Others(i)
  <2>1. CASE UpdateRawRecords(i)
    BY <2>1 DEF UpdateRawRecords, Others
  <2>2. CASE ClearRudiments(i)
    <3>1. MovesTo(i, "cleared")
      BY <2>2, Moved DEF ClearRudiments, Pcs, Settled
    <3> QED  BY <3>1 DEF MovesTo
  <2> QED  BY <2>1, <2>2
<1>2. \A j \in Importers \ {i} : imp[j].pc = "idle" /\ ~synced
  BY ActiveAlone DEF UpdateRawRecords, ClearRudiments
<1>3. imp[i].pc # "idle" /\ UNCHANGED <<expenses, synced>>
  BY DEF UpdateRawRecords, ClearRudiments, historyVars
<1>4. AllLinked' /\ SyncedMatches'
  BY <1>3, ActiveAlone DEF Settled, AllLinked, SyncedMatches
<1>5. Importing(i)'
  BY <1>1 DEF Importing, DoneMatches, WantIsRaw, SeenIsShown
<1> QED  BY <1>1, <1>2, <1>4, <1>5, AloneStep

\* A step of an import that only reads.
LEMMA ReadStep ==
    ASSUME Settled, NEW i \in Importers, imp[i].pc # "idle", Others(i),
           UNCHANGED <<stores, started, historyVars>>, Importing(i)'
    PROVE  TotalsInv'
<1>1. AllLinked' /\ SyncedMatches'
  BY ActiveAlone DEF Settled, AllLinked, SyncedMatches, stores, historyVars
<1> QED  BY <1>1, ActiveAlone, AloneStep

LEMMA PlanTotals ==
    ASSUME Settled, NEW i \in Importers, GetResourceIds(i)
    PROVE  TotalsInv'
<1>1. Plans(i)
  BY Planned DEF Settled
<1>2. UNCHANGED <<stores, started, historyVars>> /\ imp[i].pc # "idle"
  BY DEF GetResourceIds
<1>3. ASSUME NEW r \in Resources \ imp'[i].todo  PROVE Matches(r)'
  BY <1>1, <1>2, <1>3 DEF Plans, Matches, stores
<1>4. DoneMatches(i)'
  BY <1>3 DEF DoneMatches
<1>5. Importing(i)'
  BY <1>1, <1>4 DEF Plans, Importing, WantIsRaw, SeenIsShown
<1> QED  BY <1>1, <1>2, <1>5, ReadStep DEF Plans

LEMMA TakeTotals ==
    ASSUME Settled, NEW i \in Importers, ReadRaw(i)
    PROVE  TotalsInv'
<1>1. PICK r \in Resources : Takes(i, r)
  BY Taken DEF Settled
<1>2. /\ UNCHANGED <<stores, started, historyVars>> /\ imp[i].pc = "generating"
      /\ UNCHANGED <<raw, expenses>>
  BY DEF ReadRaw, stores
<1>3. \A q \in Resources \ imp[i].todo : Matches(q)
  BY <1>2 DEF Settled, Importing, DoneMatches
<1>4. ASSUME NEW q \in Resources, Matches(q)  PROVE Matches(q)'
  BY <1>2, <1>4 DEF Matches, Shown, LastOf
<1>5. CASE imp'[i].pc = "reading"
  <2>1. DoneMatches(i)'
    BY <1>1, <1>3, <1>4, <1>5 DEF DoneMatches, Takes
  <2>2. WantIsRaw(i)'
    BY <1>1, <1>2 DEF WantIsRaw, Takes
  <2>3. SeenIsShown(i)'
    BY <1>5 DEF SeenIsShown
  <2>4. Importing(i)'
    BY <2>1, <2>2, <2>3 DEF Importing
  <2> QED  BY <1>1, <1>2, <2>4, ReadStep DEF Takes
<1>6. CASE imp'[i].pc # "reading"
  <2>1. imp'[i].pc = "generating" /\ \A d \in Dates : raw[<<r, d>>] = NoCost
    BY <1>1, <1>6 DEF Takes
  <2>2. Matches(r)
    BY <2>1 DEF Matches
  <2>3. DoneMatches(i)'
    BY <1>1, <1>3, <1>4, <2>1, <2>2 DEF DoneMatches, Takes
  <2>4. Importing(i)'
    BY <2>1, <2>3 DEF Importing, WantIsRaw, SeenIsShown
  <2> QED  BY <1>1, <1>2, <2>4, ReadStep DEF Takes
<1> QED  BY <1>5, <1>6

LEMMA ReadTotals ==
    ASSUME Settled, NEW i \in Importers, ReadLedger(i)
    PROVE  TotalsInv'
<1>1. Reads(i)
  BY LedgerRead DEF Settled
<1>2. /\ UNCHANGED <<stores, started, historyVars>> /\ imp[i].pc = "reading"
      /\ UNCHANGED <<raw, expenses>>
  BY DEF ReadLedger, stores
<1>3. DoneMatches(i) /\ WantIsRaw(i)
  BY DEF Settled, Importing
<1>4. ASSUME NEW q \in Resources, Matches(q)  PROVE Matches(q)'
  BY <1>2, <1>4 DEF Matches, Shown, LastOf
<1>5. DoneMatches(i)'
  BY <1>1, <1>2, <1>3, <1>4 DEF DoneMatches, Reads
<1>6. WantIsRaw(i)'
  BY <1>1, <1>2, <1>3 DEF WantIsRaw, Reads
<1>7. SeenIsShown(i)'
  <2>1. ASSUME NEW d \in Dates
        PROVE  imp'[i].seen[d] = IF expenses[<<imp[i].resource, d>>] = <<>> THEN NoCost
                                 ELSE Shown(<<imp[i].resource, d>>)
    <3>1. <<imp[i].resource, d>> \in Keys
      BY ImporterParts DEF Keys, Settled
    <3>2. /\ Total(<<imp[i].resource, d>>) = Shown(<<imp[i].resource, d>>)
          /\ Exists(<<imp[i].resource, d>>) =
                IF expenses[<<imp[i].resource, d>>] = <<>> THEN 0 ELSE 1
      BY <3>1, ShownTotal DEF Settled
    <3> QED  BY <1>1, <3>2 DEF Reads
  <2> QED  BY <1>1, <1>2, <2>1 DEF Reads, SeenIsShown, Shown, LastOf
<1> QED  BY <1>1, <1>2, <1>5, <1>6, <1>7, ReadStep DEF Importing, Reads

LEMMA QueryMatches ==
    ASSUME Settled, NEW i \in Importers, QueryTotals(i)
    PROVE  TotalsInv'
<1>1. Queries(i)
  BY Queried DEF Settled
<1>2. /\ UNCHANGED <<stores, started, historyVars>> /\ imp[i].pc = "inserted"
      /\ UNCHANGED <<raw, expenses>>
  BY DEF QueryTotals, stores
<1>3. \A q \in Resources \ imp[i].todo : Matches(q)
  BY <1>2 DEF Settled, Importing, DoneMatches
<1>4. DoneMatches(i)'
  BY <1>1, <1>2, <1>3 DEF DoneMatches, Queries, Matches, Shown, LastOf
<1>5. Importing(i)'
  BY <1>1, <1>4 DEF Importing, WantIsRaw, SeenIsShown, Queries
<1> QED  BY <1>1, <1>2, <1>5, ReadStep DEF Queries

\* The rows of Insert, and of an Abort after the insert was applied.
LEMMA InsertShows ==
    ASSUME Settled, NEW i \in Importers, imp[i].pc = "writing", expenses' = Corrections(i)
    PROVE  /\ AllLinked'
           /\ \A k \in Keys : Shown(k)' = IF k[1] = imp[i].resource /\ raw[k] # NoCost
                                          THEN raw[k] ELSE Shown(k)
<1>1. PICK rows : rows = Corrections(i)
  OBVIOUS
<1>2. Corrects(i, rows)
  BY <1>1, CorrectionRows DEF Settled, Importing
<1>3. expenses' = rows
  BY <1>1
<1>4. AllLinked'
  BY <1>2, <1>3 DEF Corrects, AllLinked
<1>5. ASSUME NEW k \in Keys
      PROVE  Shown(k)' = IF k[1] = imp[i].resource /\ raw[k] # NoCost THEN raw[k] ELSE Shown(k)
  <2>1. LastOf(rows[k]) = IF k[1] = imp[i].resource /\ raw[k] # NoCost THEN raw[k] ELSE Shown(k)
    BY <1>2 DEF Corrects
  <2>2. Shown(k)' = LastOf(rows[k])
    BY <1>3 DEF Shown, LastOf
  <2> QED  BY <2>1, <2>2
<1> QED  BY <1>4, <1>5

LEMMA InsertTotals ==
    ASSUME Settled, NEW i \in Importers, Insert(i)
    PROVE  TotalsInv'
<1>1. PICK pc \in {"generating", "inserted"} : imp' = [imp EXCEPT ![i].pc = pc]
  BY Zenon DEF Insert
<1>2. MovesTo(i, pc)
  BY <1>1, Moved DEF Pcs, Settled
<1>3. /\ imp[i].pc = "writing" /\ raw' = raw /\ synced' = synced
      /\ expenses' = Corrections(i)
  BY DEF Insert
<1>4. /\ AllLinked'
      /\ \A k \in Keys : Shown(k)' = IF k[1] = imp[i].resource /\ raw[k] # NoCost
                                     THEN raw[k] ELSE Shown(k)
  BY <1>3, InsertShows
<1>5. SyncedMatches'
  BY <1>3, ActiveAlone DEF SyncedMatches
<1>6. ASSUME NEW r \in Resources \ imp[i].todo  PROVE Matches(r)'
  <2> SUFFICES ASSUME NEW d \in Dates, raw[<<r, d>>] # NoCost
               PROVE  Shown(<<r, d>>)' = raw[<<r, d>>]
    BY <1>3 DEF Matches
  <2>1. <<r, d>> \in Keys /\ <<r, d>>[1] = r
    BY DEF Keys
  <2>2. r = imp[i].resource \/ Matches(r)
    BY <1>3 DEF Settled, Importing, DoneMatches
  <2> QED  BY <1>4, <2>1, <2>2 DEF Matches
<1>7. DoneMatches(i)'
  BY <1>2, <1>6 DEF DoneMatches, MovesTo
<1>8. Importing(i)'
  BY <1>2, <1>7 DEF Importing, WantIsRaw, SeenIsShown, MovesTo
<1> QED  BY <1>2, <1>3, <1>4, <1>5, <1>8, ActiveAlone, AloneStep DEF MovesTo

LEMMA UpdateTotals ==
    ASSUME Settled, NEW i \in Importers, UpdateResourceInfo(i)
    PROVE  TotalsInv'
<1>1. MovesTo(i, "generating")
  BY Moved DEF UpdateResourceInfo, Pcs, Settled
<1>2. imp[i].pc = "summed" /\ UNCHANGED <<raw, expenses, synced>>
  BY DEF UpdateResourceInfo
<1>3. AllLinked' /\ SyncedMatches'
  BY <1>2, ActiveAlone DEF Settled, AllLinked, SyncedMatches
<1>4. DoneMatches(i)'
  BY <1>1, <1>2 DEF Settled, Importing, DoneMatches, MovesTo, Matches, Shown, LastOf
<1>5. Importing(i)'
  BY <1>1, <1>4 DEF Importing, WantIsRaw, SeenIsShown, MovesTo
<1> QED  BY <1>1, <1>2, <1>3, <1>5, ActiveAlone, AloneStep DEF MovesTo

LEMMA FinishTotals ==
    ASSUME Settled, NEW i \in Importers, Finish(i)
    PROVE  TotalsInv'
<1>1. EndsIdle(i)
  BY Ended DEF Finish, Settled
<1>2. imp[i].pc = "generating" /\ imp[i].todo = {} /\ UNCHANGED <<raw, expenses>>
  BY DEF Finish
<1>3. \A j \in Importers \ {i} : imp[j].pc = "idle"
  BY <1>2, ActiveAlone
<1>4. \A r \in Resources : Matches(r)'
  BY <1>2 DEF Settled, Importing, DoneMatches, Matches, Shown, LastOf
<1>5. \A j \in Importers : imp'[j].pc = "idle"
  BY <1>1, <1>3 DEF EndsIdle, Others
<1>6. AllLinked' /\ SyncedMatches'
  BY <1>2, <1>4, <1>5 DEF Settled, AllLinked, SyncedMatches
<1>7. Importing(i)'
  BY <1>5 DEF Importing, DoneMatches, WantIsRaw, SeenIsShown
<1> QED  BY <1>1, <1>3, <1>6, <1>7, AloneStep DEF EndsIdle

LEMMA AbortTotals ==
    ASSUME Settled, NEW i \in Importers, Abort(i)
    PROVE  TotalsInv'
<1>1. EndsIdle(i) /\ imp[i].pc # "idle" /\ synced' = synced
  BY Ended DEF Abort, Settled
<1>2. AllLinked'
  <2>1. CASE UNCHANGED expenses
    BY <2>1 DEF Settled, AllLinked
  <2>2. CASE imp[i].pc = "writing" /\ expenses' = Corrections(i)
    BY <2>2, InsertShows
  <2> QED  BY <2>1, <2>2 DEF Abort
<1>3. SyncedMatches'
  BY <1>1, ActiveAlone DEF SyncedMatches
<1>4. Importing(i)'
  BY <1>1 DEF EndsIdle, Importing, DoneMatches, WantIsRaw, SeenIsShown
<1> QED  BY <1>1, <1>2, <1>3, <1>4, ActiveAlone, AloneStep DEF EndsIdle

\* A step that moves no expense and no import: a merge, or none at all.
LEMMA StillTotals ==
    ASSUME Settled, UNCHANGED <<raw, imp, synced>>, NEW rows, expenses' = rows, Keeps(rows)
    PROVE  TotalsInv'
<1>1. AllLinked'
  BY DEF Keeps, AllLinked
<1>2. ASSUME NEW k \in Keys
      PROVE  Shown(k)' = Shown(k) /\ (expenses'[k] = <<>> <=> expenses[k] = <<>>)
  <2>1. LastOf(rows[k]) = Shown(k) /\ (rows[k] = <<>> <=> expenses[k] = <<>>)
    BY DEF Keeps
  <2>2. Shown(k)' = LastOf(rows[k])
    BY DEF Shown, LastOf
  <2> QED  BY <2>1, <2>2
<1>3. ASSUME NEW r \in Resources, Matches(r)  PROVE Matches(r)'
  <2> SUFFICES ASSUME NEW d \in Dates, raw[<<r, d>>] # NoCost
               PROVE  Shown(<<r, d>>)' = raw[<<r, d>>]
    BY DEF Matches
  <2>1. <<r, d>> \in Keys
    BY DEF Keys
  <2> QED  BY <1>2, <1>3, <2>1 DEF Matches
<1>4. Alone' /\ SyncedMatches'
  BY <1>3 DEF Settled, Alone, SyncedMatches
<1>5. ASSUME NEW i \in Importers  PROVE Importing(i)'
  <2>1. DoneMatches(i)' /\ WantIsRaw(i)'
    BY <1>3 DEF Settled, Importing, DoneMatches, WantIsRaw
  <2>2. SeenIsShown(i)'
    <3>1. SeenIsShown(i) /\ imp[i].resource \in Resources
      BY ImporterParts DEF Settled, Importing
    <3>2. \A d \in Dates : <<imp[i].resource, d>> \in Keys
      BY <3>1 DEF Keys
    <3>3. ASSUME imp[i].pc = "writing", NEW d \in Dates
          PROVE  imp[i].seen[d] = IF expenses'[<<imp[i].resource, d>>] = <<>> THEN NoCost
                                  ELSE Shown(<<imp[i].resource, d>>)'
      <4>1. PICK k \in Keys : k = <<imp[i].resource, d>>
        BY <3>2
      <4>2. imp[i].seen[d] = IF expenses[k] = <<>> THEN NoCost ELSE Shown(k)
        BY <3>1, <3>3, <4>1 DEF SeenIsShown
      <4> QED  BY <1>2, <4>1, <4>2
    <3> QED  BY <3>3 DEF SeenIsShown
  <2> QED  BY <2>1, <2>2 DEF Importing
<1> QED  BY <1>1, <1>4, <1>5 DEF TotalsInv

\* What has overlapped stays so.
LEMMA OverlapStays ==
    ASSUME [Next]_vars, overlapped
    PROVE  overlapped'
<1>1. ASSUME NEW i \in Importers, ImportStep(i)  PROVE overlapped'
  <2>1. CASE \/ UpdateRawRecords(i) \/ ClearRudiments(i) \/ GetResourceIds(i) \/ ReadRaw(i)
             \/ ReadLedger(i) \/ QueryTotals(i)
    <3>1. UNCHANGED historyVars
      BY <2>1 DEF UpdateRawRecords, ClearRudiments, GetResourceIds, ReadRaw, ReadLedger,
                  QueryTotals
    <3> QED  BY <3>1 DEF historyVars
  <2>2. CASE StartImport(i)
    BY <2>2 DEF StartImport
  <2>3. CASE Insert(i) \/ UpdateResourceInfo(i) \/ Finish(i) \/ Abort(i)
    BY <2>3 DEF Insert, UpdateResourceInfo, Finish, Abort
  <2> QED  BY <1>1, <2>1, <2>2, <2>3 DEF ImportStep
<1>2. ASSUME NEW k \in Keys, Merge(k)  PROVE overlapped'
  BY <1>2 DEF Merge, historyVars
<1> QED  BY <1>1, <1>2 DEF Next, vars

LEMMA TotalsStep ==
    ASSUME TypeOK, TotalsInv, [Next]_vars
    PROVE  TotalsInv'
<1> SUFFICES ASSUME ~overlapped'  PROVE TotalsInv'
  BY DEF TotalsInv
<1>1. ~overlapped
  BY OverlapStays
<1>2. Settled
  BY <1>1 DEF Settled, TotalsInv
<1>3. CASE \E i \in Importers : ImportStep(i)
  BY <1>2, <1>3, StartTotals, LoadTotals, PlanTotals, TakeTotals, ReadTotals, InsertTotals,
     QueryMatches, UpdateTotals, FinishTotals, AbortTotals DEF ImportStep
<1>4. CASE \E k \in Keys : Merge(k)
  <2>1. PICK k \in Keys : Merge(k)
    BY <1>4
  <2>2. PICK rows : expenses' = rows
    OBVIOUS
  <2>3. Keeps(rows)
    BY <1>2, <2>1, <2>2, MergeKeeps DEF Settled
  <2>4. UNCHANGED <<raw, imp, synced>>
    BY <2>1 DEF Merge, historyVars
  <2> QED  BY <1>2, <2>2, <2>3, <2>4, StillTotals
<1>5. CASE UNCHANGED vars
  <2>1. Keeps(expenses)
    BY <1>2 DEF Settled, AllLinked, Keeps, Shown
  <2> QED  BY <1>2, <1>5, <2>1, StillTotals DEF vars
<1> QED  BY <1>3, <1>4, <1>5 DEF Next

LEMMA TotalsInit == Init => TotalsInv
<1> SUFFICES ASSUME Init PROVE TotalsInv
  OBVIOUS
<1>1. \A i \in Importers : imp[i].pc = "idle"
  BY IdleImporter DEF Init
<1>2. Alone /\ \A i \in Importers : Importing(i)
  BY <1>1 DEF Alone, Importing, DoneMatches, WantIsRaw, SeenIsShown
<1>3. AllLinked /\ SyncedMatches
  BY DEF Init, AllLinked, Linked, SyncedMatches
<1> QED  BY <1>2, <1>3 DEF TotalsInv

\* Importing again is safe (save_clean_expenses): after a completed import that no other
\* overlapped, the expense of every day is its raw cost, whatever failed before and
\* however often the table was merged.
THEOREM ImportingAgainIsSafe == Spec => []TotalsMatchRaw
<1>1. ASSUME TypeOK, TotalsInv  PROVE TotalsMatchRaw
  <2> SUFFICES ASSUME ~overlapped, synced, NEW k \in Keys, raw[k] # NoCost
               PROVE  Total(k) = raw[k]
    BY DEF TotalsMatchRaw
  <2>1. AllLinked /\ \A r \in Resources : Matches(r)
    BY <1>1 DEF TotalsInv, SyncedMatches
  <2>2. k[1] \in Resources /\ k[2] \in Dates /\ k = <<k[1], k[2]>>
    BY DEF Keys
  <2>3. Shown(k) = raw[k]
    BY <2>1, <2>2 DEF Matches
  <2> QED  BY <1>1, <2>1, <2>3, ShownTotal
<1> QED  BY <1>1, LedgerTypeInit, LedgerTypeStep, TotalsInit, TotalsStep, PTL DEF Spec

-----------------------------------------------------------------------------
(***************************************************************************)
(* The totals of the resources.  What update_resource_expense_info writes  *)
(* is still the sum of the resource's expenses when it is written.         *)
(***************************************************************************)
SumIsTotal(i) ==
    \A r \in Resources :
        imp[i].pc = "summed" /\ imp[i].resource = r => imp[i].sum = ResourceTotal(r)

BeingSaved(r) ==
    \E i \in Importers : imp[i].pc \in {"inserted", "summed"} /\ imp[i].resource = r

ResourcesInv ==
    ~overlapped => /\ \A i \in Importers : SumIsTotal(i)
                   /\ \A r \in Resources \ torn :
                         total_cost[r] = ResourceTotal(r) \/ BeingSaved(r)

\* A resource whose rows keep the totals of its days keeps its own.
LEMMA TotalKept ==
    ASSUME TypeOK, NEW rows \in [Keys -> Seq(Block)], expenses' = rows, NEW r \in Resources,
           \A d \in Dates : TotalOf(rows[<<r, d>>]) = TotalOf(expenses[<<r, d>>])
    PROVE  ResourceTotal(r)' = ResourceTotal(r)
<1>1. ResourceSum(rows, r) = ResourceSum(expenses, r)
  BY ResourceSame DEF TypeOK
<1> QED  BY <1>1, ResourceTotals

LEMMA TotalStays ==
    ASSUME TypeOK, UNCHANGED expenses, NEW r \in Resources
    PROVE  ResourceTotal(r)' = ResourceTotal(r)
<1>1. expenses \in [Keys -> Seq(Block)]
  BY DEF TypeOK
<1> QED  BY <1>1, TotalKept

\* A step of an import that saves nothing and starts no saving.
LEMMA SavesNothing ==
    ASSUME TypeOK, ResourcesInv, ~overlapped, NEW i \in Importers, Others(i),
           imp[i].pc \notin {"inserted", "summed"}, imp'[i].pc # "summed",
           UNCHANGED <<expenses, total_cost, torn>>
    PROVE  ResourcesInv'
<1>1. \A r \in Resources : ResourceTotal(r)' = ResourceTotal(r)
  BY TotalStays
<1>2. ASSUME NEW j \in Importers  PROVE SumIsTotal(j)'
  <2>1. CASE j = i
    BY <2>1 DEF SumIsTotal
  <2>2. CASE j # i
    BY <1>1, <2>2 DEF SumIsTotal, ResourcesInv, Others
  <2> QED  BY <2>1, <2>2
<1>3. ASSUME NEW r \in Resources, BeingSaved(r)  PROVE BeingSaved(r)'
  BY <1>3 DEF BeingSaved, Others
<1>4. \A r \in Resources \ torn' : total_cost'[r] = ResourceTotal(r)' \/ BeingSaved(r)'
  BY <1>1, <1>3 DEF ResourcesInv
<1> QED  BY <1>2, <1>4 DEF ResourcesInv

\* The rows of another resource are left alone.
LEMMA OtherTotals ==
    ASSUME TypeOK, NEW i \in Importers, expenses' = Corrections(i),
           NEW r \in Resources, r # imp[i].resource
    PROVE  ResourceTotal(r)' = ResourceTotal(r)
<1>1. PICK rows \in [Keys -> Seq(Block)] : rows = Corrections(i)
  BY CorrectionsTyped
<1>2. ASSUME NEW d \in Dates  PROVE TotalOf(rows[<<r, d>>]) = TotalOf(expenses[<<r, d>>])
  <2>1. <<r, d>> \in Keys /\ <<r, d>>[1] = r
    BY DEF Keys
  <2>2. rows[<<r, d>>] = expenses[<<r, d>>]
    BY <1>1, <2>1 DEF Corrections
  <2> QED  BY <2>2
<1> QED  BY <1>1, <1>2, TotalKept

LEMMA InsertSaves ==
    ASSUME Settled, ResourcesInv, NEW i \in Importers, Insert(i)
    PROVE  ResourcesInv'
<1>1. /\ TypeOK /\ ~overlapped /\ imp[i].pc = "writing" /\ expenses' = Corrections(i)
      /\ UNCHANGED <<total_cost, torn>>
  BY DEF Insert, Settled
<1>2. CASE Corrected(i) = {}
  <2>1. imp' = [imp EXCEPT ![i].pc = "generating"]
    BY <1>2 DEF Insert
  <2>2. MovesTo(i, "generating")
    BY <1>1, <2>1, Moved DEF Pcs
  <2>3. expenses' = expenses
    BY <1>1, <1>2 DEF Corrections, TypeOK
  <2> QED  BY <1>1, <2>2, <2>3, SavesNothing DEF MovesTo
<1>3. CASE Corrected(i) # {}
  <2>1. imp' = [imp EXCEPT ![i].pc = "inserted"]
    BY <1>3 DEF Insert
  <2>2. MovesTo(i, "inserted")
    BY <1>1, <2>1, Moved DEF Pcs
  <2>3. \A j \in Importers : imp'[j].pc # "summed"
    BY <1>1, <2>2, ActiveAlone DEF MovesTo, Others
  <2>4. \A j \in Importers : SumIsTotal(j)'
    BY <2>3 DEF SumIsTotal
  <2>5. ASSUME NEW r \in Resources \ torn'
        PROVE  total_cost'[r] = ResourceTotal(r)' \/ BeingSaved(r)'
    <3>1. CASE r = imp[i].resource
      BY <2>2, <3>1 DEF BeingSaved, MovesTo
    <3>2. CASE r # imp[i].resource
      <4>1. ResourceTotal(r)' = ResourceTotal(r)
        BY <1>1, <3>2, OtherTotals
      <4>2. ~BeingSaved(r)
        BY <1>1, ActiveAlone DEF BeingSaved
      <4> QED  BY <1>1, <4>1, <4>2 DEF ResourcesInv
    <3> QED  BY <3>1, <3>2
  <2> QED  BY <2>4, <2>5 DEF ResourcesInv
<1> QED  BY <1>2, <1>3

LEMMA QuerySums ==
    ASSUME Settled, ResourcesInv, NEW i \in Importers, QueryTotals(i)
    PROVE  ResourcesInv'
<1>1. TypeOK /\ ~overlapped /\ Queries(i)
  BY Queried DEF Settled
<1>2. imp[i].pc = "inserted" /\ UNCHANGED <<expenses, total_cost, torn>>
  BY DEF QueryTotals, stores, historyVars
<1>3. \A r \in Resources : ResourceTotal(r)' = ResourceTotal(r)
  BY <1>1, <1>2, TotalStays
<1>4. ASSUME NEW j \in Importers  PROVE SumIsTotal(j)'
  <2>1. CASE j = i
    <3>1. ASSUME NEW r \in Resources, imp'[i].resource = r  PROVE imp'[i].sum = ResourceTotal(r)
      BY <1>1, <3>1 DEF Queries
    <3> QED  BY <1>3, <2>1, <3>1 DEF SumIsTotal
  <2>2. CASE j # i
    BY <1>1, <1>3, <2>2 DEF SumIsTotal, ResourcesInv, Queries, Others
  <2> QED  BY <2>1, <2>2
<1>5. ASSUME NEW r \in Resources, BeingSaved(r)  PROVE BeingSaved(r)'
  <2>1. PICK j \in Importers : imp[j].pc \in {"inserted", "summed"} /\ imp[j].resource = r
    BY <1>5 DEF BeingSaved
  <2>2. imp'[j].pc \in {"inserted", "summed"} /\ imp'[j].resource = r
    BY <1>1, <2>1 DEF Queries, Others
  <2> QED  BY <2>2 DEF BeingSaved
<1>6. \A r \in Resources \ torn' : total_cost'[r] = ResourceTotal(r)' \/ BeingSaved(r)'
  BY <1>1, <1>2, <1>3, <1>5 DEF ResourcesInv
<1> QED  BY <1>4, <1>6 DEF ResourcesInv

LEMMA UpdateSaves ==
    ASSUME Settled, ResourcesInv, NEW i \in Importers, UpdateResourceInfo(i)
    PROVE  ResourcesInv'
<1>1. TypeOK /\ ~overlapped /\ MovesTo(i, "generating")
  BY Moved DEF UpdateResourceInfo, Pcs, Settled
<1>2. /\ imp[i].pc = "summed" /\ UNCHANGED expenses
      /\ total_cost' = [total_cost EXCEPT ![imp[i].resource] = imp[i].sum]
      /\ torn' = torn \ {imp[i].resource}
  BY DEF UpdateResourceInfo
<1>3. \A r \in Resources : ResourceTotal(r)' = ResourceTotal(r)
  BY <1>1, <1>2, TotalStays
<1>4. \A j \in Importers : imp'[j].pc # "summed"
  BY <1>1, <1>2, ActiveAlone DEF MovesTo, Others
<1>5. \A j \in Importers : SumIsTotal(j)'
  BY <1>4 DEF SumIsTotal
<1>6. ASSUME NEW r \in Resources \ torn'  PROVE total_cost'[r] = ResourceTotal(r)'
  <2>1. CASE r = imp[i].resource
    <3>1. imp[i].sum = ResourceTotal(r)
      BY <1>1, <1>2, <2>1 DEF ResourcesInv, SumIsTotal
    <3>2. total_cost'[r] = imp[i].sum
      BY <1>1, <1>2, <2>1 DEF TypeOK
    <3> QED  BY <1>3, <3>1, <3>2
  <2>2. CASE r # imp[i].resource
    <3>1. ~BeingSaved(r)
      BY <1>2, <2>2, ActiveAlone DEF BeingSaved
    <3>2. total_cost'[r] = total_cost[r] /\ r \notin torn
      BY <1>1, <1>2, <2>2 DEF TypeOK
    <3> QED  BY <1>1, <1>3, <3>1, <3>2 DEF ResourcesInv
  <2> QED  BY <2>1, <2>2
<1> QED  BY <1>5, <1>6 DEF ResourcesInv

LEMMA AbortSaves ==
    ASSUME Settled, ResourcesInv, NEW i \in Importers, Abort(i)
    PROVE  ResourcesInv'
<1>1. /\ TypeOK /\ ~overlapped /\ EndsIdle(i) /\ imp[i].pc # "idle"
      /\ UNCHANGED total_cost
  BY Ended DEF Abort, Settled
<1>2. \A j \in Importers : imp'[j].pc # "summed"
  BY <1>1, ActiveAlone DEF EndsIdle, Others
<1>3. \A j \in Importers : SumIsTotal(j)'
  BY <1>2 DEF SumIsTotal
<1>4. ASSUME NEW r \in Resources \ torn'  PROVE total_cost'[r] = ResourceTotal(r)'
  <2>1. CASE UNCHANGED expenses /\ torn' = IF imp[i].pc \in {"inserted", "summed"}
                                           THEN torn \cup {imp[i].resource} ELSE torn
    <3>1. r \notin torn /\ ~BeingSaved(r)
      BY <1>1, <2>1, ActiveAlone DEF BeingSaved
    <3>2. ResourceTotal(r)' = ResourceTotal(r)
      BY <1>1, <2>1, TotalStays
    <3> QED  BY <1>1, <3>1, <3>2 DEF ResourcesInv
  <2>2. CASE /\ imp[i].pc = "writing" /\ expenses' = Corrections(i)
             /\ torn' = torn \cup {imp[i].resource}
    <3>1. r \notin torn /\ r # imp[i].resource /\ ~BeingSaved(r)
      BY <1>1, <2>2, ActiveAlone DEF BeingSaved
    <3>2. ResourceTotal(r)' = ResourceTotal(r)
      BY <1>1, <2>2, <3>1, OtherTotals
    <3> QED  BY <1>1, <3>1, <3>2 DEF ResourcesInv
  <2> QED  BY <2>1, <2>2 DEF Abort
<1> QED  BY <1>3, <1>4 DEF ResourcesInv

LEMMA MergeSaves ==
    ASSUME Settled, ResourcesInv, NEW k \in Keys, Merge(k)
    PROVE  ResourcesInv'
<1>1. TypeOK /\ AllLinked /\ ~overlapped /\ UNCHANGED <<imp, total_cost, torn>>
  BY DEF Merge, Settled, historyVars
<1>2. PICK rows \in [Keys -> Seq(Block)] : expenses' = rows
  BY <1>1, MergeTyped
<1>3. Keeps(rows)
  BY <1>1, <1>2, MergeKeeps
<1>4. ASSUME NEW q \in Keys  PROVE TotalOf(rows[q]) = TotalOf(expenses[q])
  <2>1. rows[q] \in Seq(Block) /\ Linked(rows[q]) /\ LastOf(rows[q]) = Shown(q)
    BY <1>2, <1>3 DEF Keeps
  <2>2. TotalOf(rows[q]) = LastOf(rows[q])
    BY <2>1, LinkedTotal DEF LastOf
  <2>3. TotalOf(expenses[q]) = Shown(q)
    BY <1>1, KeyTotalTyped, ShownTotal
  <2> QED  BY <2>1, <2>2, <2>3
<1>5. ASSUME NEW r \in Resources  PROVE ResourceTotal(r)' = ResourceTotal(r)
  <2>1. \A d \in Dates : <<r, d>> \in Keys
    BY DEF Keys
  <2>2. \A d \in Dates : TotalOf(rows[<<r, d>>]) = TotalOf(expenses[<<r, d>>])
    BY <1>4, <2>1
  <2> QED  BY <1>1, <1>2, <2>2, TotalKept
<1>6. \A j \in Importers : SumIsTotal(j)'
  BY <1>1, <1>5 DEF ResourcesInv, SumIsTotal
<1>7. \A r \in Resources : BeingSaved(r)' <=> BeingSaved(r)
  BY <1>1 DEF BeingSaved
<1> QED  BY <1>1, <1>5, <1>6, <1>7 DEF ResourcesInv

LEMMA ResourcesStep ==
    ASSUME TypeOK, TotalsInv, ResourcesInv, [Next]_vars
    PROVE  ResourcesInv'
<1> SUFFICES ASSUME ~overlapped'  PROVE ResourcesInv'
  BY DEF ResourcesInv
<1>1. ~overlapped
  BY OverlapStays
<1>2. Settled
  BY <1>1 DEF Settled, TotalsInv
<1>3. ASSUME NEW i \in Importers, StartImport(i) \/ ClearRudiments(i)  PROVE ResourcesInv'
  <2>1. PICK pc \in {"loading", "cleared"} : MovesTo(i, pc)
    BY <1>3, Moved DEF StartImport, ClearRudiments, Pcs
  <2>2. imp[i].pc \in {"idle", "loading"} /\ UNCHANGED <<expenses, total_cost, torn>>
    BY <1>3 DEF StartImport, ClearRudiments, historyVars
  <2> QED  BY <1>1, <2>1, <2>2, SavesNothing DEF MovesTo
<1>4. ASSUME NEW i \in Importers, UpdateRawRecords(i)  PROVE ResourcesInv'
  BY <1>1, <1>4, SavesNothing DEF UpdateRawRecords, historyVars, Others
<1>5. ASSUME NEW i \in Importers, GetResourceIds(i) \/ ReadRaw(i) \/ ReadLedger(i)
      PROVE  ResourcesInv'
  <2>1. Others(i) /\ imp'[i].pc # "summed"
    BY <1>5, Planned, Taken, LedgerRead DEF Plans, Takes, Reads
  <2>2. /\ imp[i].pc \in {"cleared", "generating", "reading"}
        /\ UNCHANGED <<expenses, total_cost, torn>>
    BY <1>5 DEF GetResourceIds, ReadRaw, ReadLedger, stores, historyVars
  <2> QED  BY <1>1, <2>1, <2>2, SavesNothing
<1>6. ASSUME NEW i \in Importers, Finish(i)  PROVE ResourcesInv'
  <2>1. EndsIdle(i)
    BY <1>6, Ended DEF Finish
  <2>2. imp[i].pc = "generating" /\ UNCHANGED <<expenses, total_cost, torn>>
    BY <1>6 DEF Finish
  <2> QED  BY <1>1, <2>1, <2>2, SavesNothing DEF EndsIdle
<1>7. CASE UNCHANGED vars
  <2>1. \A r \in Resources : ResourceTotal(r)' = ResourceTotal(r)
    BY <1>7, TotalStays DEF vars
  <2> QED  BY <1>1, <1>7, <2>1 DEF vars, ResourcesInv, SumIsTotal, BeingSaved
<1> QED
  BY <1>2, <1>3, <1>4, <1>5, <1>6, <1>7, InsertSaves, QuerySums, UpdateSaves, AbortSaves,
     MergeSaves DEF Next, ImportStep

\* A resource without rows has no expense.
LEMMA ResourcesInit == Init => ResourcesInv
<1> SUFFICES ASSUME Init PROVE ResourcesInv
  OBVIOUS
<1>1. TypeOK /\ AllLinked
  BY LedgerTypeInit, TotalsInit DEF TotalsInv, Init
<1>2. \A i \in Importers : SumIsTotal(i)
  BY IdleImporter DEF Init, SumIsTotal
<1>3. ASSUME NEW r \in Resources  PROVE ResourceTotal(r) = 0
  <2>1. \A d \in Dates : TotalOf(expenses[<<r, d>>]) = 0
    <3>1. ASSUME NEW d \in Dates  PROVE TotalOf(expenses[<<r, d>>]) = 0
      <4>1. <<r, d>> \in Keys
        BY DEF Keys
      <4>2. expenses[<<r, d>>] = <<>>
        BY <4>1 DEF Init
      <4> QED  BY <1>1, <4>1, <4>2, KeyTotalTyped, ShownTotal DEF Shown, LastOf
    <3> QED  BY <3>1
  <2> QED  BY <1>1, <2>1, NothingSums, ResourceTotals DEF TypeOK
<1>4. \A r \in Resources : total_cost[r] = ResourceTotal(r)
  BY <1>3 DEF Init
<1> QED  BY <1>2, <1>4 DEF ResourcesInv

\* The total_cost of a resource is the sum of its expenses unless the resource is being
\* saved, or an import ended between the insert and the update (update_resource_expense_info).
THEOREM ResourceTotalsStayExact == Spec => []ResourceTotalsExact
<1>1. ResourcesInv => ResourceTotalsExact
  BY DEF ResourcesInv, BeingSaved, ResourceTotalsExact
<1> QED  BY <1>1, LedgerTypeInit, LedgerTypeStep, TotalsInit, TotalsStep, ResourcesInit,
            ResourcesStep, PTL DEF Spec

-----------------------------------------------------------------------------
(***************************************************************************)
(* The refinement: the expenses of ClickHouse implement atomic corrections *)
(* of whole resources.                                                     *)
(***************************************************************************)
totals == [k \in Keys |-> Total(k)]

LEMMA TotalsShown == TypeOK /\ AllLinked => totals = [k \in Keys |-> Shown(k)]
  BY ShownTotal DEF totals

LEMMA TotalsShownNext == TypeOK' /\ AllLinked' => totals' = [k \in Keys |-> Shown(k)']
<1>1. TypeOK' /\ AllLinked' => (totals = [k \in Keys |-> Shown(k)])'
  BY TotalsShown, PTL
<1> QED  BY <1>1

\* The steps that insert correct one resource at once.
LEMMA CorrectsOne ==
    ASSUME Settled, TypeOK', NEW i \in Importers, imp[i].pc = "writing",
           expenses' = Corrections(i), UNCHANGED <<raw, overlapped>>
    PROVE  Totals!Correct(imp[i].resource)
<1> DEFINE r == imp[i].resource
<1>1. /\ AllLinked'
      /\ \A k \in Keys : Shown(k)' = IF k[1] = r /\ raw[k] # NoCost THEN raw[k] ELSE Shown(k)
  BY InsertShows
<1>2. totals' = [k \in Keys |-> Shown(k)']
  BY <1>1, TotalsShownNext
<1>3. \A k \in Keys : totals[k] = Shown(k)
  BY TotalsShown DEF Settled
<1>4. totals' = [k \in Keys |-> IF k[1] = r /\ raw[k] # NoCost THEN raw[k] ELSE totals[k]]
  BY <1>1, <1>2, <1>3
<1> QED  BY <1>4 DEF Totals!Correct, Totals!Keys, Keys, totals

\* The total of a day after a step that leaves the table alone.
LEMMA TotalsStay ==
    ASSUME UNCHANGED expenses
    PROVE  totals' = totals
  BY DEF totals, Total, FoldLeft, MapThenFoldSet

LEMMA RefinesStep ==
    ASSUME TypeOK, TypeOK', TotalsInv, TotalsInv', [Next]_vars
    PROVE  [Totals!Next]_(Totals!vars)
<1>1. CASE overlapped
  <2>1. overlapped'
    BY <1>1, OverlapStays
  <2> QED  BY <1>1, <2>1 DEF Totals!Next, Totals!Overlap
<1>2. CASE ~overlapped
  <2>0. Settled
    BY <1>2 DEF Settled, TotalsInv
  <2>1. ASSUME NEW i \in Importers, StartImport(i)  PROVE Totals!Next
    <3>1. totals' = totals /\ overlapped' \in BOOLEAN /\ raw' \in [Keys -> Costs \cup {NoCost}]
      BY <2>1, TotalsStay DEF StartImport, TypeOK
    <3>2. CASE overlapped'
      BY <1>2, <3>1, <3>2 DEF totals, Totals!Next, Totals!Overlap
    <3>3. CASE ~overlapped'
      BY <1>2, <3>1, <3>3 DEF totals, TypeOK, Keys, Totals!Next, Totals!Report, Totals!Keys
    <3> QED  BY <3>2, <3>3
  <2>2. ASSUME NEW i \in Importers, UpdateRawRecords(i) \/ ClearRudiments(i)
        PROVE  Totals!Next
    <3>1. UNCHANGED <<expenses, overlapped>> /\ raw' \in [Keys -> Costs \cup {NoCost}]
      BY <2>2 DEF UpdateRawRecords, ClearRudiments, historyVars, TypeOK
    <3>2. totals' = totals
      BY <3>1, TotalsStay
    <3> QED  BY <3>1, <3>2 DEF totals, Keys, Totals!Next, Totals!Report, Totals!Keys
  <2>3. ASSUME NEW i \in Importers, Insert(i)  PROVE Totals!Next
    <3>1. Totals!Correct(imp[i].resource)
      BY <2>0, <2>3, CorrectsOne DEF Insert
    <3> QED  BY <3>1, ImporterParts DEF Totals!Next
  <2>4. ASSUME NEW i \in Importers, Abort(i)  PROVE [Totals!Next]_(Totals!vars)
    <3>1. CASE imp[i].pc = "writing" /\ expenses' = Corrections(i)
      <4>1. Totals!Correct(imp[i].resource)
        BY <2>0, <2>4, <3>1, CorrectsOne DEF Abort
      <4> QED  BY <4>1, ImporterParts DEF Totals!Next
    <3>2. CASE UNCHANGED expenses
      BY <2>4, <3>2, TotalsStay DEF Abort, totals, Totals!vars
    <3> QED  BY <2>4, <3>1, <3>2 DEF Abort
  <2>5. ASSUME NEW k \in Keys, Merge(k)  PROVE UNCHANGED Totals!vars
    <3>1. PICK rows : expenses' = rows
      OBVIOUS
    <3>2. Keeps(rows)
      BY <2>0, <2>5, <3>1, MergeKeeps DEF Settled
    <3>3. \A q \in Keys : Shown(q)' = Shown(q)
      <4>1. \A q \in Keys : LastOf(rows[q]) = Shown(q)
        BY <3>2 DEF Keeps
      <4>2. \A q \in Keys : Shown(q)' = LastOf(rows[q])
        BY <3>1 DEF Shown, LastOf
      <4> QED  BY <4>1, <4>2
    <3>4. AllLinked'
      BY <3>1, <3>2 DEF Keeps, AllLinked
    <3>5. totals' = totals
      BY <2>0, <3>3, <3>4, TotalsShown, TotalsShownNext DEF Settled
    <3> QED  BY <2>5, <3>5 DEF Merge, historyVars, totals, Totals!vars
  <2>6. ASSUME \/ UNCHANGED vars
               \/ \E i \in Importers :
                     \/ GetResourceIds(i) \/ ReadRaw(i) \/ ReadLedger(i) \/ QueryTotals(i)
                     \/ UpdateResourceInfo(i) \/ Finish(i)
        PROVE  UNCHANGED Totals!vars
    <3>1. UNCHANGED <<raw, expenses, overlapped>>
      BY <2>6 DEF vars, GetResourceIds, ReadRaw, ReadLedger, QueryTotals, UpdateResourceInfo,
             Finish, stores, historyVars
    <3> QED  BY <3>1, TotalsStay DEF totals, Totals!vars
  <2> QED  BY <2>1, <2>2, <2>3, <2>4, <2>5, <2>6 DEF Next, ImportStep
<1> QED  BY <1>1, <1>2 DEF TypeOK

LEMMA RefinesInit == Init => Totals!Init
<1> SUFFICES ASSUME Init PROVE Totals!Init
  OBVIOUS
<1>1. TypeOK /\ AllLinked
  BY LedgerTypeInit, TotalsInit DEF TotalsInv, Init
<1>2. \A k \in Keys : Shown(k) = 0
  BY DEF Init, Shown, LastOf
<1>3. totals = [k \in Keys |-> 0]
  BY <1>1, <1>2, TotalsShown
<1> QED  BY <1>3 DEF Init, totals, Keys, Totals!Init, Totals!Keys

\* The queries, inserts, failures and merges of ExpenseLedger amount to the atomic
\* corrections of DailyTotals: no day of a resource is seen corrected and another not
\* (save_clean_expenses and the CollapsingMergeTree).
THEOREM LedgerImplementsTotals == Spec => ImplementsDailyTotals
<1>1. Init => Totals!Init
  BY RefinesInit
<1>2. TypeOK /\ TypeOK' /\ TotalsInv /\ TotalsInv' /\ [Next]_vars => [Totals!Next]_(Totals!vars)
  BY RefinesStep
<1> QED
  BY <1>1, <1>2, LedgerTypeInit, LedgerTypeStep, TotalsInit, TotalsStep, PTL
     DEF Spec, ImplementsDailyTotals, Totals!Spec
=============================================================================
