------------------------------ MODULE DailyTotals ------------------------------
(***************************************************************************)
(* What the clean expenses of a cloud account promise, without rows, signs *)
(* or importers: every resource has a cost per day, reports change the raw *)
(* costs at will, and a correction gives all days of one resource the raw  *)
(* cost at once.  No day is ever seen half corrected.  The promise ends    *)
(* when two imports overlap.                                               *)
(***************************************************************************)
CONSTANTS
    Resources,      \* the resources of the account
    Dates,          \* the days of the import period
    Costs,          \* daily costs a report may give
    NoCost          \* no raw expense

VARIABLES
    raw,            \* the raw cost of a resource and day
    total,          \* the expense a user sees for it
    spoiled         \* two imports have overlapped

vars == <<raw, total, spoiled>>

Keys == Resources \X Dates

Init ==
    /\ raw = [k \in Keys |-> NoCost]
    /\ total = [k \in Keys |-> 0]
    /\ spoiled = FALSE

\* A report arrives: raw costs appear, change or go.
Report ==
    /\ raw' \in [Keys -> Costs \cup {NoCost}]
    /\ UNCHANGED <<total, spoiled>>

\* The days of a resource take their raw costs; without one they stay.
Correct(r) ==
    /\ total' = [k \in Keys |-> IF k[1] = r /\ raw[k] # NoCost
                                THEN raw[k] ELSE total[k]]
    /\ UNCHANGED <<raw, spoiled>>

\* Imports overlap: from then on nothing is promised.
Overlap ==
    \/ ~spoiled /\ spoiled' /\ UNCHANGED total
    \/ spoiled /\ spoiled'

Next == Report \/ (\E r \in Resources : Correct(r)) \/ Overlap

Spec == Init /\ [][Next]_vars
=============================================================================
