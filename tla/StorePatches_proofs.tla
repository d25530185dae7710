-------------------------- MODULE StorePatches_proofs --------------------------
(***************************************************************************)
(* Theorems about StorePatches: its types, and that a list patched by hand *)
(* shows what the data base holds, for any number of owners, slots,        *)
(* identifiers and calls, however their answers come.                      *)
(***************************************************************************)
EXTENDS StorePatches, FiniteSetTheorems, WellFoundedInduction, TLAPS

-----------------------------------------------------------------------------
(***************************************************************************)
(* Lists.                                                                  *)
(***************************************************************************)
\* A set that holds 0 and the successor of each of its numbers has all of them.
LEMMA InductionOnSets ==
    ASSUME NEW T, 0 \in T, \A n \in Nat : n \in T => n + 1 \in T
    PROVE  \A n \in Nat : n \in T
<1> DEFINE R == OpToRel(<, Nat)
           Q == Nat \ T
<1>1. SUFFICES ASSUME Q # {} PROVE FALSE
  OBVIOUS
<1>2. IsWellFoundedOn(R, Nat)
  BY NatLessThanWellFounded
<1>3. PICK m \in Q : \A k \in Q : ~(<<k, m>> \in R)
  <2> HIDE DEF R, Q
  <2>1. Q \subseteq Nat
    BY DEF Q
  <2> QED  BY <1>1, <1>2, <2>1, WFMin
<1>4. m \in Nat /\ m # 0 /\ m - 1 \in Nat /\ m = (m - 1) + 1
  OBVIOUS
<1>5. m - 1 \in Q
  BY <1>4
<1>6. <<m - 1, m>> \in R
  BY <1>4 DEF OpToRel
<1> QED  BY <1>3, <1>5, <1>6

\* out has the elements of the first n of list that are not in gone, at increasing
\* places of list.
EmbedsBy(f, out, list, n, gone) ==
  /\ f \in [1..Len(out) -> 1..n]
  /\ \A i, j \in 1..Len(out) : i < j <=> f[i] < f[j]
  /\ \A i \in 1..Len(out) : out[i] = list[f[i]] /\ list[f[i]] \notin gone
  /\ \A k \in 1..n : list[k] \notin gone => \E i \in 1..Len(out) : f[i] = k

Embeds(out, list, n, gone) == \E f : EmbedsBy(f, out, list, n, gone)

\* The recursive function of Without, up to n.
Filters(g, list, gone, n) ==
  g = [i \in 0..n |-> IF i = 0 THEN <<>>
                      ELSE IF list[i] \in gone THEN g[i - 1] ELSE Append(g[i - 1], list[i])]

LEMMA EmbedsStep ==
  ASSUME NEW S, NEW list \in Seq(S), NEW gone, NEW n \in Nat, n + 1 <= Len(list),
         NEW out \in Seq(S), Embeds(out, list, n, gone)
  PROVE  /\ list[n + 1] \in gone => Embeds(out, list, n + 1, gone)
         /\ list[n + 1] \notin gone =>
              /\ Append(out, list[n + 1]) \in Seq(S)
              /\ Embeds(Append(out, list[n + 1]), list, n + 1, gone)
<1>0. PICK f : EmbedsBy(f, out, list, n, gone)
  BY DEF Embeds
<1>1. /\ f \in [1..Len(out) -> 1..n]
      /\ \A i, j \in 1..Len(out) : i < j <=> f[i] < f[j]
      /\ \A i \in 1..Len(out) : out[i] = list[f[i]] /\ list[f[i]] \notin gone
      /\ \A k \in 1..n : list[k] \notin gone => \E i \in 1..Len(out) : f[i] = k
  BY <1>0 DEF EmbedsBy
<1>2. Len(out) \in Nat /\ Len(list) \in Nat /\ \A k \in 1..n + 1 : k \in 1..n \/ k = n + 1
  OBVIOUS
<1>3. ASSUME list[n + 1] \in gone  PROVE Embeds(out, list, n + 1, gone)
  <2>1. f \in [1..Len(out) -> 1..n + 1]
    BY <1>1, <1>2
  <2>2. \A k \in 1..n + 1 : list[k] \notin gone => \E i \in 1..Len(out) : f[i] = k
    BY <1>1, <1>2, <1>3
  <2>3. EmbedsBy(f, out, list, n + 1, gone)
    BY <1>1, <2>1, <2>2 DEF EmbedsBy
  <2> QED  BY <2>3 DEF Embeds
<1>4. ASSUME list[n + 1] \notin gone
      PROVE  /\ Append(out, list[n + 1]) \in Seq(S)
             /\ Embeds(Append(out, list[n + 1]), list, n + 1, gone)
  <2> DEFINE m == Len(out) + 1
             w == Append(out, list[n + 1])
             h == [i \in 1..m |-> IF i = m THEN n + 1 ELSE f[i]]
  <2>1. /\ w \in Seq(S) /\ Len(w) = m /\ w[m] = list[n + 1]
        /\ \A i \in 1..Len(out) : w[i] = out[i]
    BY <1>2
  <2>2. \A i \in 1..m : i = m \/ (i \in 1..Len(out) /\ i < m)
    BY <1>2
  <2>3. \A i \in 1..Len(out) : f[i] \in 1..n /\ f[i] < n + 1
    BY <1>1, <1>2
  <2>4. h \in [1..m -> 1..n + 1]
    BY <1>2, <2>2, <2>3
  <2>5. h[m] = n + 1 /\ \A i \in 1..Len(out) : h[i] = f[i]
    BY <1>2
  <2> HIDE DEF h, w
  <2>6. \A i, j \in 1..m : i < j <=> h[i] < h[j]
    <3> TAKE i, j \in 1..m
    <3>1. CASE i = m /\ j = m
      BY <3>1, <2>5
    <3>2. CASE i = m /\ j # m
      <4>1. j < i /\ h[i] = n + 1 /\ h[j] \in 1..n
        BY <3>2, <2>2, <2>3, <2>5
      <4> QED  BY <1>2, <4>1
    <3>3. CASE i # m /\ j = m
      <4>1. i < j /\ h[j] = n + 1 /\ h[i] \in 1..n
        BY <3>3, <2>2, <2>3, <2>5
      <4> QED  BY <1>2, <4>1
    <3>4. CASE i # m /\ j # m
      BY <1>1, <3>4, <2>2, <2>5
    <3> QED  BY <3>1, <3>2, <3>3, <3>4
  <2>7. \A i \in 1..m : w[i] = list[h[i]] /\ list[h[i]] \notin gone
    BY <1>1, <1>4, <2>1, <2>2, <2>5
  <2>8. ASSUME NEW k \in 1..n + 1, list[k] \notin gone  PROVE \E i \in 1..m : h[i] = k
    <3>1. m \in 1..m /\ 1..Len(out) \subseteq 1..m
      BY <1>2
    <3>2. CASE k = n + 1
      BY <2>5, <3>1, <3>2
    <3>3. CASE k \in 1..n
      <4>1. PICK i \in 1..Len(out) : f[i] = k
        BY <1>1, <2>8, <3>3
      <4> QED  BY <2>5, <3>1, <4>1
    <3> QED  BY <1>2, <3>2, <3>3
  <2>9. EmbedsBy(h, w, list, n + 1, gone)
    BY <2>1, <2>4, <2>6, <2>7, <2>8 DEF EmbedsBy
  <2>10. Embeds(w, list, n + 1, gone)
    BY <2>9 DEF Embeds
  <2> QED  BY <2>1, <2>10 DEF w
<1> QED  BY <1>3, <1>4

LEMMA FiltersExist ==
  ASSUME NEW list, NEW gone, NEW n \in Nat
  PROVE  \E g : Filters(g, list, gone, n)
<1> DEFINE T == {m \in Nat : \E g : Filters(g, list, gone, m)}
<1>1. 0 \in T
  <2> DEFINE g == [i \in 0..0 |-> <<>>]
  <2>1. \A i \in 0..0 : i = 0
    OBVIOUS
  <2>2. Filters(g, list, gone, 0)
    BY <2>1 DEF Filters
  <2> QED  BY <2>2
<1>2. ASSUME NEW m \in Nat, m \in T  PROVE m + 1 \in T
  <2>1. PICK g : Filters(g, list, gone, m)
    BY <1>2
  <2> DEFINE last == IF list[m + 1] \in gone THEN g[m] ELSE Append(g[m], list[m + 1])
             h == [i \in 0..m + 1 |-> IF i = m + 1 THEN last ELSE g[i]]
  <2>2. /\ \A i \in 0..m : h[i] = g[i] /\ i # m + 1
        /\ h[m + 1] = last
        /\ \A i \in 0..m + 1 : i = m + 1 \/ i \in 0..m
        /\ \A i \in 0..m : i # 0 => i - 1 \in 0..m
        /\ m + 1 # 0 /\ (m + 1) - 1 = m /\ m \in 0..m
    OBVIOUS
  <2>3. \A i \in 0..m + 1 :
          h[i] = IF i = 0 THEN <<>>
                 ELSE IF list[i] \in gone THEN h[i - 1] ELSE Append(h[i - 1], list[i])
    <3> TAKE i \in 0..m + 1
    <3>1. CASE i = m + 1
      <4> HIDE DEF h
      <4> QED  BY <3>1, <2>2
    <3>2. CASE i \in 0..m
      <4>1. g[i] = IF i = 0 THEN <<>>
                   ELSE IF list[i] \in gone THEN g[i - 1] ELSE Append(g[i - 1], list[i])
        BY <2>1, <3>2 DEF Filters
      <4> HIDE DEF h
      <4> QED  BY <3>2, <4>1, <2>2
    <3> QED  BY <3>1, <3>2, <2>2
  <2>4. Filters(h, list, gone, m + 1)
    BY <2>3 DEF Filters
  <2> QED  BY <2>4
<1>3. n \in T
  <2> HIDE DEF T
  <2> QED  BY <1>1, <1>2, InductionOnSets
<1> QED  BY <1>3

LEMMA WithoutEmbeds ==
  ASSUME NEW S, NEW list \in Seq(S), NEW gone
  PROVE  /\ Without(list, gone) \in Seq(S)
         /\ Embeds(Without(list, gone), list, Len(list), gone)
<1> DEFINE kept == CHOOSE g : Filters(g, list, gone, Len(list))
<1>0. Len(list) \in Nat
  OBVIOUS
<1>1. Filters(kept, list, gone, Len(list))
  BY <1>0, FiltersExist
<1>2. Without(list, gone) = kept[Len(list)]
  BY DEF Without, Filters
<1> HIDE DEF kept
<1>3. /\ kept[0] = <<>>
      /\ \A i \in 0..Len(list) : i # 0 =>
           kept[i] = IF list[i] \in gone THEN kept[i - 1] ELSE Append(kept[i - 1], list[i])
  <2>1. ASSUME NEW i \in 0..Len(list)
        PROVE  kept[i] = IF i = 0 THEN <<>>
                         ELSE IF list[i] \in gone THEN kept[i - 1]
                              ELSE Append(kept[i - 1], list[i])
    BY <1>1 DEF Filters
  <2>2. 0 \in 0..Len(list)
    BY <1>0
  <2> QED  BY <2>1, <2>2
<1> DEFINE T == {m \in Nat : m <= Len(list) =>
                   kept[m] \in Seq(S) /\ Embeds(kept[m], list, m, gone)}
<1>4. 0 \in T
  <2> DEFINE f == [i \in 1..0 |-> 0]
  <2>1. EmbedsBy(f, <<>>, list, 0, gone)
    BY DEF EmbedsBy
  <2>2. <<>> \in Seq(S) /\ Embeds(<<>>, list, 0, gone)
    <3> HIDE DEF f
    <3> QED  BY <2>1 DEF Embeds
  <2> QED  BY <1>3, <2>2
<1>5. ASSUME NEW m \in Nat, m \in T  PROVE m + 1 \in T
  <2>1. SUFFICES ASSUME m + 1 <= Len(list)
                 PROVE  kept[m + 1] \in Seq(S) /\ Embeds(kept[m + 1], list, m + 1, gone)
    OBVIOUS
  <2>2. kept[m] \in Seq(S) /\ Embeds(kept[m], list, m, gone)
    BY <1>0, <1>5, <2>1
  <2>3. kept[m + 1] = IF list[m + 1] \in gone THEN kept[m] ELSE Append(kept[m], list[m + 1])
    <3>1. m + 1 \in 0..Len(list) /\ m + 1 # 0 /\ (m + 1) - 1 = m
      BY <1>0, <2>1
    <3> QED  BY <1>3, <3>1
  <2> QED  BY <2>1, <2>2, <2>3, EmbedsStep
<1>6. Len(list) \in T
  <2> HIDE DEF T
  <2> QED  BY <1>0, <1>4, <1>5, InductionOnSets
<1> QED  BY <1>0, <1>2, <1>6
-----------------------------------------------------------------------------
\* The places of a slot in a list, the row that the pages take of them, which is
\* the first one among policies, and lists with one row in a slot.
Places(list, slot) == {i \in DOMAIN list : list[i].slot = slot}

Before(k, i, j) == IF k = "policy" THEN i <= j ELSE j <= i

Tops(k, list, slot) ==
  {j \in Places(list, slot) : \A i \in Places(list, slot) : Before(k, j, i)}

Top(k, list, slot) == {list[j] : j \in Tops(k, list, slot)}

OnePerSlot(list) == \A i, j \in DOMAIN list : list[i].slot = list[j].slot => i = j

\* A list without some of its rows: the slots they are not in stay as they are.
LEMMA WithoutRows ==
  ASSUME NEW S, NEW list \in Seq(S), NEW gone
  PROVE  /\ Without(list, gone) \in Seq(S)
         /\ ToSet(Without(list, gone)) = ToSet(list) \ gone
         /\ OnePerSlot(list) => OnePerSlot(Without(list, gone))
         /\ \A k, s : InSlot(list, s) \cap gone = {} =>
              /\ InSlot(Without(list, gone), s) = InSlot(list, s)
              /\ Top(k, Without(list, gone), s) = Top(k, list, s)
<1> DEFINE w == Without(list, gone)
<1>1. w \in Seq(S) /\ Embeds(w, list, Len(list), gone)
  BY WithoutEmbeds
<1> HIDE DEF w
<1>2. PICK f : EmbedsBy(f, w, list, Len(list), gone)
  BY <1>1 DEF Embeds
<1>3. /\ f \in [1..Len(w) -> 1..Len(list)]
      /\ \A i, j \in 1..Len(w) : i < j <=> f[i] < f[j]
      /\ \A i \in 1..Len(w) : w[i] = list[f[i]] /\ list[f[i]] \notin gone
      /\ \A n \in 1..Len(list) : list[n] \notin gone => \E i \in 1..Len(w) : f[i] = n
  BY <1>2 DEF EmbedsBy
<1>4. DOMAIN w = 1..Len(w) /\ DOMAIN list = 1..Len(list) /\ Len(w) \in Nat /\ Len(list) \in Nat
  BY <1>1
<1>5. ToSet(w) = ToSet(list) \ gone
  BY <1>3, <1>4 DEF ToSet
<1>6. ASSUME OnePerSlot(list)  PROVE OnePerSlot(w)
  <2>1. SUFFICES ASSUME NEW i \in 1..Len(w), NEW j \in 1..Len(w), w[i].slot = w[j].slot
                 PROVE  i = j
    BY <1>4 DEF OnePerSlot
  <2>2. f[i] = f[j]
    BY <1>3, <1>4, <1>6, <2>1 DEF OnePerSlot
  <2>3. ~(i < j) /\ ~(j < i)
    BY <1>3, <1>4, <2>2
  <2> QED  BY <2>3
<1>7. ASSUME NEW k, NEW s, InSlot(list, s) \cap gone = {}
      PROVE  InSlot(w, s) = InSlot(list, s) /\ Top(k, w, s) = Top(k, list, s)
  <2>1. InSlot(w, s) = InSlot(list, s)
    BY <1>5, <1>7 DEF InSlot
  <2>2. \A i \in 1..Len(w) : i \in Places(w, s) <=> f[i] \in Places(list, s)
    BY <1>3, <1>4 DEF Places
  <2>3. \A n \in Places(list, s) : \E i \in Places(w, s) : f[i] = n
    <3> TAKE n \in Places(list, s)
    <3>1. n \in 1..Len(list) /\ list[n] \notin gone
      BY <1>4, <1>7 DEF Places, InSlot, ToSet
    <3> QED  BY <1>3, <2>2, <3>1
  <2>4. ASSUME NEW i \in 1..Len(w), NEW j \in 1..Len(w)
        PROVE  Before(k, i, j) <=> Before(k, f[i], f[j])
    <3>1. f[i] \in Nat /\ f[j] \in Nat
      BY <1>3, <1>4
    <3>2. (i <= j <=> f[i] <= f[j]) /\ (j <= i <=> f[j] <= f[i])
      BY <1>3, <3>1
    <3> QED  BY <3>2 DEF Before
  <2>5. Places(w, s) \subseteq 1..Len(w)
    BY <1>4 DEF Places
  <2>6. \A i \in Tops(k, w, s) : f[i] \in Tops(k, list, s)
    BY <2>2, <2>3, <2>4, <2>5 DEF Tops
  <2>7. \A n \in Tops(k, list, s) : \E i \in Tops(k, w, s) : f[i] = n
    BY <2>2, <2>3, <2>4, <2>5 DEF Tops
  <2>8. Tops(k, w, s) \subseteq 1..Len(w)
    BY <2>5 DEF Tops
  <2>9. Top(k, w, s) = Top(k, list, s)
    BY <1>3, <2>6, <2>7, <2>8 DEF Top
  <2> QED  BY <2>1, <2>9
<1> QED  BY <1>1, <1>5, <1>6, <1>7 DEF w

\* p is list with row added at its end.
AddedTo(S, list, row, p) ==
  /\ p \in Seq(S) /\ ToSet(p) = ToSet(list) \cup {row}
  /\ OnePerSlot(list) /\ InSlot(list, row.slot) = {} => OnePerSlot(p)
  /\ \A s : s # row.slot => InSlot(p, s) = InSlot(list, s)
  /\ \A k, s : s # row.slot => Top(k, p, s) = Top(k, list, s)
  /\ InSlot(p, row.slot) = InSlot(list, row.slot) \cup {row}
  /\ \A k : k # "policy" \/ InSlot(list, row.slot) = {} => Top(k, p, row.slot) = {row}

LEMMA AppendRows ==
  ASSUME NEW S, NEW list \in Seq(S), NEW row \in S
  PROVE  AddedTo(S, list, row, Append(list, row))
<1> DEFINE w == Append(list, row)
           m == Len(list) + 1
<1>1. /\ w \in Seq(S) /\ Len(w) = m /\ w[m] = row /\ Len(list) \in Nat
      /\ \A i \in 1..Len(list) : w[i] = list[i]
      /\ DOMAIN list = 1..Len(list) /\ DOMAIN w = 1..m
  OBVIOUS
<1> HIDE DEF w
<1>2. \A i : i \in 1..m <=> i \in 1..Len(list) \/ i = m
  BY <1>1
<1>3. ToSet(w) = ToSet(list) \cup {row}
  BY <1>1, <1>2 DEF ToSet
<1>4. InSlot(list, row.slot) = {} <=> \A i \in 1..Len(list) : list[i].slot # row.slot
  BY <1>1 DEF InSlot, ToSet
<1>5. ASSUME OnePerSlot(list), InSlot(list, row.slot) = {}  PROVE OnePerSlot(w)
  BY <1>1, <1>2, <1>4, <1>5 DEF OnePerSlot
<1>6. ASSUME NEW s, s # row.slot  PROVE InSlot(w, s) = InSlot(list, s)
  BY <1>3, <1>6 DEF InSlot
<1>7. ASSUME NEW k, NEW s, s # row.slot  PROVE Top(k, w, s) = Top(k, list, s)
  <2>1. Places(w, s) = Places(list, s)
    BY <1>1, <1>2, <1>7 DEF Places
  <2>2. Tops(k, w, s) = Tops(k, list, s) /\ Tops(k, list, s) \subseteq 1..Len(list)
    BY <1>1, <2>1 DEF Tops, Places
  <2> QED  BY <1>1, <2>2 DEF Top
<1>8. InSlot(w, row.slot) = InSlot(list, row.slot) \cup {row}
  BY <1>3 DEF InSlot
<1>9. ASSUME NEW k, k # "policy" \/ InSlot(list, row.slot) = {}
      PROVE  Top(k, w, row.slot) = {row}
  <2>1. m \in Places(w, row.slot) /\ Places(w, row.slot) \subseteq 1..m
    BY <1>1, <1>2 DEF Places
  <2>2. CASE k # "policy"
    <3>1. m \in Tops(k, w, row.slot)
      BY <1>1, <2>1, <2>2 DEF Tops, Before
    <3>2. \A j \in Tops(k, w, row.slot) : j \in 1..m /\ m <= j
      BY <2>1, <2>2 DEF Tops, Before
    <3>3. Tops(k, w, row.slot) = {m}
      BY <1>1, <3>1, <3>2
    <3> QED  BY <1>1, <3>3 DEF Top
  <2>3. CASE InSlot(list, row.slot) = {}
    <3>1. Places(w, row.slot) = {m}
      BY <1>1, <1>2, <1>4, <2>1, <2>3 DEF Places
    <3>2. Tops(k, w, row.slot) = {m}
      BY <1>1, <3>1 DEF Tops, Before
    <3> QED  BY <1>1, <3>2 DEF Top
  <2> QED  BY <1>9, <2>2, <2>3
<1>10. AddedTo(S, list, row, w)
  BY <1>1, <1>3, <1>5, <1>6, <1>7, <1>8, <1>9 DEF AddedTo
<1> QED  BY <1>10 DEF w
\* The rows of the data base as a list: each is there, once.
LEMMA ListOfSet ==
  ASSUME NEW T, IsFiniteSet(T)
  PROVE  /\ SetToSeq(T) \in Seq(T)
         /\ ToSet(SetToSeq(T)) = T
         /\ \A i, j \in DOMAIN SetToSeq(T) : SetToSeq(T)[i] = SetToSeq(T)[j] => i = j
<1> DEFINE n == Cardinality(T)
           f == SetToSeq(T)
<1>1. n \in Nat /\ ExistsBijection(1..n, T)
  BY FS_CardinalityType
<1>2. PICK g : g \in Bijection(1..n, T)
  BY <1>1 DEF ExistsBijection
<1>3. g \in [1..n -> T] /\ IsInjective(g)
  BY <1>2 DEF Bijection, Injection
<1>4. f \in [1..n -> T] /\ IsInjective(f)
  BY <1>3 DEF SetToSeq
<1>5. f \in Injection(1..n, T)
  BY <1>4 DEF Injection
<1>6. IsFiniteSet(1..n) /\ Cardinality(1..n) = n
  BY <1>1, FS_Interval
<1> HIDE DEF f
<1>7. f \in Surjection(1..n, T)
  BY <1>5, <1>6, FS_Injection
<1>8. \A t \in T : \E i \in 1..n : f[i] = t
  BY <1>7 DEF Surjection
<1>9. f \in Seq(T) /\ DOMAIN f = 1..n
  BY <1>1, <1>4
<1>10. ToSet(f) = T
  BY <1>4, <1>8, <1>9 DEF ToSet
<1>11. \A i, j \in DOMAIN f : f[i] = f[j] => i = j
  BY <1>4 DEF IsInjective
<1> QED  BY <1>9, <1>10, <1>11 DEF f
-----------------------------------------------------------------------------
(***************************************************************************)
(* Patches.                                                                *)
(***************************************************************************)
\* What the page takes of a slot; the global tables show all their rows.
Holds(k, list, slot) == IF k = "global" THEN InSlot(list, slot) ELSE Top(k, list, slot)

\* A list p that is list with what new says of its slot put in.
PatchedBy(list, op, new, p) ==
  /\ p \in Seq(Row) /\ ToSet(p) \subseteq ToSet(list) \cup {new}
  /\ \A s : s # new.slot =>
       InSlot(p, s) = InSlot(list, s) /\ Holds(kind, p, s) = Holds(kind, list, s)
  /\ op = "delete" => InSlot(p, new.slot) = InSlot(list, new.slot) \ WithId(list, new.id)
  /\ op # "delete" => InSlot(p, new.slot) \subseteq InSlot(list, new.slot) \cup {new}
  /\ op # "delete" /\ kind # "global" => Holds(kind, p, new.slot) = {new}
  /\ kind = "global" => /\ op # "delete"
                        /\ InSlot(p, new.slot) =
                             {IF row.id = new.id THEN new ELSE row : row \in InSlot(list, new.slot)}
                        /\ \A row \in ToSet(list) : \E r \in ToSet(p) : r.id = row.id
  /\ kind = "policy" => /\ op # "delete"
                        /\ OnePerSlot(list) => OnePerSlot(p)

LEMMA WithoutId ==
  ASSUME kind # "global", kind # "policy", NEW list \in Seq(Row), NEW new \in Row,
         \A row \in ToSet(list) : row.id = new.id => row.slot = new.slot
  PROVE  PatchedBy(list, "delete", new, Without(list, WithId(list, new.id)))
<1> DEFINE gone == WithId(list, new.id)
           p == Without(list, gone)
<1>1. \A s : s # new.slot => InSlot(list, s) \cap gone = {}
  BY DEF InSlot, WithId
<1>2. /\ p \in Seq(Row) /\ ToSet(p) = ToSet(list) \ gone
      /\ \A k, s : s # new.slot => InSlot(p, s) = InSlot(list, s) /\ Top(k, p, s) = Top(k, list, s)
  <2> HIDE DEF gone
  <2> QED  BY <1>1, WithoutRows
<1> HIDE DEF p
<1>3. InSlot(p, new.slot) = InSlot(list, new.slot) \ gone
  BY <1>2 DEF InSlot
<1>4. PatchedBy(list, "delete", new, p)
  BY <1>2, <1>3 DEF PatchedBy, Holds
<1> QED  BY <1>4 DEF p

LEMMA AppendedNew ==
  ASSUME kind # "global", kind # "policy", NEW list \in Seq(Row), NEW new \in Row,
         NEW op, op # "delete"
  PROVE  PatchedBy(list, op, new, Append(list, new))
<1> DEFINE p == Append(list, new)
<1>1. AddedTo(Row, list, new, p)
  BY AppendRows
<1> HIDE DEF p
<1>2. PatchedBy(list, op, new, p)
  BY <1>1 DEF PatchedBy, Holds, AddedTo
<1> QED  BY <1>2 DEF p

LEMMA PolicyRows ==
  ASSUME kind # "global", NEW list \in Seq(Row), NEW new \in Row, NEW op, op # "delete"
  PROVE  PatchedBy(list, op, new, PatchPolicy(list, new))
<1> DEFINE gone == InSlot(list, new.slot)
           w == Without(list, gone)
           p == Append(w, new)
<1>1. \A s : s # new.slot => InSlot(list, s) \cap gone = {}
  BY DEF InSlot
<1>2. /\ w \in Seq(Row) /\ ToSet(w) = ToSet(list) \ gone
      /\ OnePerSlot(list) => OnePerSlot(w)
      /\ \A k, s : s # new.slot => InSlot(w, s) = InSlot(list, s) /\ Top(k, w, s) = Top(k, list, s)
  <2> HIDE DEF gone
  <2> QED  BY <1>1, WithoutRows
<1> HIDE DEF w
<1>3. InSlot(w, new.slot) = {}
  BY <1>2 DEF InSlot
<1>4. AddedTo(Row, w, new, p)
  BY <1>2, AppendRows
<1> HIDE DEF p
<1>5. PatchedBy(list, op, new, p)
  BY <1>2, <1>3, <1>4 DEF PatchedBy, Holds, AddedTo
<1> QED  BY <1>5 DEF p, w, PatchPolicy

LEMMA GlobalRows ==
  ASSUME kind = "global", NEW list \in Seq(Row), NEW new \in Row, NEW op, op # "delete",
         \A row \in ToSet(list) : row.id = new.id => row.slot = new.slot
  PROVE  PatchedBy(list, op, new, PatchGlobal(list, new))
<1> DEFINE p == PatchGlobal(list, new)
<1>1. /\ p \in Seq(Row) /\ DOMAIN p = DOMAIN list
      /\ \A i \in DOMAIN list : p[i] = IF list[i].id = new.id THEN new ELSE list[i]
  BY DEF PatchGlobal
<1> HIDE DEF p
<1>2. ToSet(p) = {IF row.id = new.id THEN new ELSE row : row \in ToSet(list)}
  BY <1>1 DEF ToSet
<1>3. \A s : s # new.slot => InSlot(p, s) = InSlot(list, s)
  BY <1>2 DEF InSlot
<1>4. InSlot(p, new.slot) =
        {IF row.id = new.id THEN new ELSE row : row \in InSlot(list, new.slot)}
  BY <1>2 DEF InSlot
<1>5. \A row \in ToSet(list) : \E r \in ToSet(p) : r.id = row.id
  BY <1>2
<1>6. PatchedBy(list, op, new, p)
  BY <1>1, <1>2, <1>3, <1>4, <1>5 DEF PatchedBy, Holds
<1> QED  BY <1>6 DEF p

\* Every patch but that of the ssh keys.
LEMMA PatchedRows ==
  ASSUME kind \in Kinds, kind # "key", NEW list \in Seq(Row), NEW new \in Row,
         NEW op \in Offered,
         \A row \in ToSet(list) : row.id = new.id => row.slot = new.slot
  PROVE  PatchedBy(list, op, new, Patched(list, op, new))
<1>1. CASE kind = "webhook"
  BY <1>1, WithoutId, AppendedNew DEF Patched, PatchWebhook
<1>2. CASE kind = "policy"
  BY <1>2, PolicyRows DEF Patched, Offered
<1>3. CASE kind = "constraint"
  BY <1>3, WithoutId, PolicyRows DEF Patched, PatchConstraint
<1>4. CASE kind = "global"
  BY <1>4, GlobalRows DEF Patched, Offered
<1> QED  BY <1>1, <1>2, <1>3, <1>4 DEF Kinds
\* The patch of the ssh keys: a key added, or the choice of the default one.
LEMMA KeyRows ==
  ASSUME kind = "key", NEW list \in Seq(Row), NEW new \in Row, NEW op
  PROVE  /\ Patched(list, op, new) \in Seq(Row)
         /\ op = "create" => ToSet(Patched(list, op, new)) = ToSet(list) \cup {new}
         /\ op # "create" => ToSet(Patched(list, op, new)) =
              {[row EXCEPT !.value = IF row.id = new.id THEN 1 ELSE 0] : row \in ToSet(list)}
<1>1. Patched(list, op, new) = PatchKey(list, op, new)
  BY DEF Patched
<1>2. CASE op = "create"
  <2>1. PatchKey(list, op, new) = Append(list, new)
    BY <1>2 DEF PatchKey
  <2>2. AddedTo(Row, list, new, Append(list, new))
    BY AppendRows
  <2> QED  BY <1>1, <1>2, <2>1, <2>2 DEF AddedTo
<1>3. CASE op # "create"
  <2> DEFINE p == [i \in DOMAIN list |->
                     [list[i] EXCEPT !.value = IF list[i].id = new.id THEN 1 ELSE 0]]
  <2>1. PatchKey(list, op, new) = p
    BY <1>3 DEF PatchKey
  <2>2. \A i \in DOMAIN list : list[i] \in Row
    OBVIOUS
  <2>3. \A i \in DOMAIN list : p[i] \in Row
    BY <2>2, StoreAssumption DEF Row
  <2>4. p \in Seq(Row)
    BY <2>3
  <2>5. ToSet(p) = {[row EXCEPT !.value = IF row.id = new.id THEN 1 ELSE 0] : row \in ToSet(list)}
    BY DEF ToSet
  <2> QED  BY <1>1, <1>3, <2>1, <2>4, <2>5
<1> QED  BY <1>2, <1>3

-----------------------------------------------------------------------------
(***************************************************************************)
(* The inductive invariant.                                                *)
(***************************************************************************)
Active == {c \in Calls : call[c] # Idle}
Served == {c \in Active : Miss(c)}
Since == {c \in Served : call[c].since}

\* The latest operations on their rows.
Fresh == {c \in Served : ~call[c].old}

Asked == IF query = Idle THEN {} ELSE ToSet(query.rows)
Known == server \cup ToSet(cache.rows) \cup Asked
Seen == Known \cup {call[c].row : c \in Active}

\* The data base gives an identifier out once, a row keeps its owner and its slot,
\* a slot is taken by one row, and the rows of the global lists are not deleted.
Alike(r, s) == r.id = s.id => r.owner = s.owner /\ r.slot = s.slot

IdsInv ==
  /\ \A r, s \in Seen : Alike(r, s)
  /\ kind # "key" => \A r, s \in server : r.owner = s.owner /\ r.slot = s.slot => r = s
  /\ \A r \in Known : r.id \in used
  /\ kind = "global" => \A i \in used : \E r \in server : r.id = i

\* A creation that has not been served has an identifier of its own.
Unborn(c) == call[c].op = "create" /\ call[c].phase = "sent"

CallsInv ==
  /\ \A c \in Served : call[c].live
  /\ \A c \in Active : Unborn(c) <=> call[c].row.id \notin used
  /\ \A c, d \in Active : Unborn(c) /\ c # d => call[c].row.id # call[d].row.id
  /\ \A c \in Active : call[c].since => c \in Served /\ (query # Idle => query.served)
  /\ \A c \in Active : call[c].old => c \in Served

\* Only one of related operations is the latest, and it says what the data base holds.
LatestInv ==
  /\ \A c, d \in Fresh : Related(call[c].row, call[d].row) => c = d
  /\ \A c \in Fresh : call[c].op # "delete" => call[c].row \in server
  /\ kind # "key" => \A c \in Fresh : call[c].op = "delete" =>
        \A row \in server : ~Related(row, call[c].row)
  /\ kind = "key" => \A c \in Fresh : call[c].op = "update" =>
        \A row \in Of(call[c].row.owner) :
            row.value = IF row.id = call[c].row.id THEN 1 ELSE 0

(***************************************************************************)
(* What a list says of the data base while the answers to the calls of C   *)
(* are on their way to it.                                                 *)
(***************************************************************************)
At(C, owner, slot) == {c \in C : call[c].row.owner = owner /\ call[c].row.slot = slot}
Latest(C, owner, slot) == {c \in At(C, owner, slot) : ~call[c].old}
Stands(owner, slot) == {row \in server : row.owner = owner /\ row.slot = slot}

\* The row that the slot is to hold, if any.
Current(C, owner, slot) ==
  IF Latest(C, owner, slot) # {} THEN {call[c].row.id : c \in Latest(C, owner, slot)}
  ELSE {row.id : row \in Stands(owner, slot)}

\* An answer on its way comes too late for its row.
Doomed(C, owner, slot) ==
  \E d \in At(C, owner, slot) : call[d].old /\ call[d].row.id \notin Current(C, owner, slot)

SlotOf(list, owner, C, slot) ==
  \/ Doomed(C, owner, slot)
  \/ /\ \A row \in InSlot(list, slot) : row.id \in Current(C, owner, slot)
     /\ Latest(C, owner, slot) = {} => Holds(kind, list, slot) = Stands(owner, slot)

\* Ssh keys: a row for each identifier, and the choice of one of them.
Calling(C, owner) == {c \in C : call[c].row.owner = owner}
Created(C, owner) == {c \in Calling(C, owner) : call[c].op = "create"}

KeysOf(list, owner, C) ==
  (\A c \in Calling(C, owner) : call[c].op # "delete") =>
    /\ \A row \in ToSet(list) : \E r \in server : r.id = row.id
    /\ \A r \in Of(owner) : \/ \E row \in ToSet(list) : row.id = r.id
                            \/ \E c \in Created(C, owner) : call[c].row.id = r.id
    /\ (\A c \in Calling(C, owner) : ~call[c].old /\ call[c].op = "create") =>
         /\ ToSet(list) \subseteq Of(owner)
         /\ Of(owner) \subseteq ToSet(list) \cup {call[c].row : c \in Calling(C, owner)}

\* A change of a global row finds it in the list.
Finds(list, owner) ==
  \A c \in Active : call[c].op = "update" /\ call[c].row.owner = owner =>
    \E row \in ToSet(list) : row.id = call[c].row.id

Reflects(list, owner, C) ==
  /\ \A row \in ToSet(list) : row.owner = owner
  /\ kind = "policy" => OnePerSlot(list)
  /\ kind = "global" => Finds(list, owner)
  /\ IF kind = "key" THEN KeysOf(list, owner, C)
     ELSE \A slot \in Slots : SlotOf(list, owner, C, slot)

CacheInv == raced = {} /\ cache.of # None => Reflects(cache.rows, cache.of, Served)

\* Among the calls served since the list on its way was read are the latest ones.
QueryInv ==
  query # Idle /\ query.served /\ ~query.missed =>
    /\ Reflects(query.rows, query.owner, Since)
    /\ \A d \in Since \ Fresh : \E c \in Since \cap Fresh : Related(call[c].row, call[d].row)

StoreInv == TypeOK /\ IdsInv /\ CallsInv /\ LatestInv /\ CacheInv /\ QueryInv
-----------------------------------------------------------------------------
(***************************************************************************)
(* What the invariant does not depend on.                                  *)
(***************************************************************************)
LEMMA CallTypes ==
  ASSUME TypeOK
  PROVE  /\ \A c \in Active : /\ c \in Calls /\ call[c] \in Call /\ call[c].row \in Row
                              /\ call[c].op \in Offered /\ call[c] # Idle
         /\ query # Idle => query \in Query
         /\ cache.rows \in Seq(Row) /\ ToSet(cache.rows) \subseteq Row
         /\ Served \subseteq Active /\ Since \subseteq Served /\ Fresh \subseteq Served
<1>1. ASSUME NEW c \in Active
      PROVE  /\ c \in Calls /\ call[c] \in Call /\ call[c].row \in Row
             /\ call[c].op \in Offered /\ call[c] # Idle
  <2>1. c \in Calls /\ call[c] # Idle
    BY DEF Active
  <2>2. call[c] \in Call
    BY <2>1 DEF TypeOK
  <2> QED  BY <2>1, <2>2 DEF TypeOK, Call
<1>2. cache.rows \in Seq(Row)
  BY DEF TypeOK, Cache
<1>3. ToSet(cache.rows) \subseteq Row
  BY <1>2 DEF ToSet
<1>4. query # Idle => query \in Query
  BY DEF TypeOK
<1> QED  BY <1>1, <1>2, <1>3, <1>4 DEF Served, Since, Fresh

\* Rows with the same identifier, wherever they are, have one owner and one slot.
LEMMA AlikeRows ==
  ASSUME IdsInv
  PROVE  /\ \A d, e \in Active : Alike(call[d].row, call[e].row)
         /\ \A row \in Known, d \in Active : Alike(row, call[d].row) /\ Alike(call[d].row, row)
         /\ \A r, s \in Known : Alike(r, s)
<1>1. Known \subseteq Seen
  BY DEF Seen
<1>2. \A d \in Active : call[d].row \in Seen
  BY DEF Seen
<1> QED  BY <1>1, <1>2 DEF IdsInv

\* A call keeps its row, its operation and its place among related ones.
Kept(c) == /\ call'[c].row = call[c].row
           /\ call'[c].op = call[c].op
           /\ call'[c].old = call[c].old

LEMMA FindsFrame ==
  ASSUME NEW list, NEW owner, Finds(list, owner),
         \A c \in Active' \ Active : call'[c].op = "update" /\ call'[c].row.owner = owner =>
            \E row \in ToSet(list) : row.id = call'[c].row.id,
         \A c \in Active' \cap Active : /\ call'[c].op = call[c].op
                                        /\ call'[c].row.id = call[c].row.id
                                        /\ call'[c].row.owner = call[c].row.owner
  PROVE  Finds(list, owner)'
  BY DEF Finds

LEMMA SlotFrame ==
  ASSUME UNCHANGED <<kind, server>>, NEW list, NEW owner, NEW C, NEW slot,
         \A c \in C : Kept(c), SlotOf(list, owner, C, slot)
  PROVE  SlotOf(list, owner, C, slot)'
<1>1. At(C, owner, slot)' = At(C, owner, slot)
  BY DEF At, Kept
<1>2. At(C, owner, slot) \subseteq C
  BY DEF At
<1>3. Latest(C, owner, slot)' = Latest(C, owner, slot)
  BY <1>1, <1>2 DEF Latest, Kept
<1>4. Stands(owner, slot)' = Stands(owner, slot)
  BY DEF Stands
<1>5. Latest(C, owner, slot) \subseteq C
  BY <1>2 DEF Latest
<1>6. Current(C, owner, slot)' = Current(C, owner, slot)
  BY <1>3, <1>4, <1>5 DEF Current, Kept
<1>7. Doomed(C, owner, slot)' <=> Doomed(C, owner, slot)
  BY <1>1, <1>2, <1>6 DEF Doomed, Kept
<1> QED  BY <1>3, <1>4, <1>6, <1>7 DEF SlotOf

LEMMA KeysFrame ==
  ASSUME UNCHANGED <<kind, server>>, NEW list, NEW owner, NEW C,
         \A c \in C : Kept(c), KeysOf(list, owner, C)
  PROVE  KeysOf(list, owner, C)'
<1>1. Calling(C, owner)' = Calling(C, owner) /\ Calling(C, owner) \subseteq C
  BY DEF Calling, Kept
<1>2. Created(C, owner)' = Created(C, owner) /\ Created(C, owner) \subseteq C
  BY <1>1 DEF Created, Kept
<1>3. Of(owner)' = Of(owner)
  BY DEF Of
<1>4. \A c \in Calling(C, owner) : Kept(c)
  BY <1>1
<1>5. {call[c].row : c \in Calling(C, owner)}' = {call[c].row : c \in Calling(C, owner)}
  BY <1>1, <1>4 DEF Kept
<1>6. (\A c \in Calling(C, owner) : call[c].op # "delete")'
         <=> \A c \in Calling(C, owner) : call[c].op # "delete"
  BY <1>1, <1>4 DEF Kept
<1>7. (\A c \in Calling(C, owner) : ~call[c].old /\ call[c].op = "create")'
         <=> \A c \in Calling(C, owner) : ~call[c].old /\ call[c].op = "create"
  BY <1>1, <1>4 DEF Kept
<1>8. \A r : (\E c \in Created(C, owner) : call[c].row.id = r.id)'
               <=> \E c \in Created(C, owner) : call[c].row.id = r.id
  BY <1>2 DEF Kept
<1> QED  BY <1>1, <1>2, <1>3, <1>5, <1>6, <1>7, <1>8 DEF KeysOf

\* What a list says stays true while nothing is served and nothing is answered.
LEMMA ReflectsFrame ==
  ASSUME UNCHANGED <<kind, server>>, NEW list, NEW owner, NEW C,
         \A c \in C : Kept(c),
         kind = "global" => Finds(list, owner)',
         Reflects(list, owner, C)
  PROVE  Reflects(list, owner, C)'
<1>1. kind = "key" => KeysOf(list, owner, C)'
  BY KeysFrame DEF Reflects
<1>2. kind # "key" => \A slot \in Slots : SlotOf(list, owner, C, slot)'
  BY SlotFrame DEF Reflects
<1> QED  BY <1>1, <1>2 DEF Reflects

LEMMA IdsFrame ==
  ASSUME IdsInv, UNCHANGED <<kind, server, used>>,
         \A s \in Seen' : \E r \in Seen : r.id = s.id /\ r.owner = s.owner /\ r.slot = s.slot,
         \A r \in Known' : r.id \in used
  PROVE  IdsInv'
<1>1. ASSUME NEW r \in Seen', NEW s \in Seen', r.id = s.id
      PROVE  r.owner = s.owner /\ r.slot = s.slot
  <2>1. PICK q \in Seen : q.id = r.id /\ q.owner = r.owner /\ q.slot = r.slot
    OBVIOUS
  <2>2. PICK t \in Seen : t.id = s.id /\ t.owner = s.owner /\ t.slot = s.slot
    OBVIOUS
  <2>3. Alike(q, t)
    BY <2>1, <2>2 DEF IdsInv
  <2> QED  BY <1>1, <2>1, <2>2, <2>3 DEF Alike
<1>2. (\A r, s \in Seen : Alike(r, s))'
  BY <1>1 DEF Alike
<1> QED  BY <1>2 DEF IdsInv

LEMMA CallsFrame ==
  ASSUME CallsInv, UNCHANGED used,
         \A c \in Active' : /\ c \in Active /\ call'[c].row.id = call[c].row.id
                            /\ call'[c].op = call[c].op /\ call'[c].phase = call[c].phase
                            /\ call'[c].live = call[c].live /\ call'[c].old = call[c].old
                            /\ call'[c].since => call[c].since /\ (query' # Idle => query'.served)
  PROVE  CallsInv'
<1>1. \A c \in Active' : Unborn(c)' <=> Unborn(c)
  BY DEF Unborn
<1>2. Served' \subseteq Served /\ \A c \in Active' : c \in Served => c \in Served'
  BY DEF Served, Miss
<1> QED  BY <1>1, <1>2 DEF CallsInv, Served

LEMMA LatestFrame ==
  ASSUME LatestInv, UNCHANGED <<kind, server>>,
         \A c \in Fresh' : c \in Fresh /\ Kept(c)
  PROVE  LatestInv'
<1>1. \A r, s : Related(r, s)' <=> Related(r, s)
  BY DEF Related
<1>2. \A owner : Of(owner)' = Of(owner)
  BY DEF Of
<1>3. (\A c, d \in Fresh : Related(call[c].row, call[d].row) => c = d)'
  BY <1>1 DEF LatestInv, Kept
<1>4. (\A c \in Fresh : call[c].op # "delete" => call[c].row \in server)'
  BY DEF LatestInv, Kept
<1>5. (kind # "key" => \A c \in Fresh : call[c].op = "delete" =>
        \A row \in server : ~Related(row, call[c].row))'
  BY <1>1 DEF LatestInv, Kept
<1>6. (kind = "key" => \A c \in Fresh : call[c].op = "update" =>
        \A row \in Of(call[c].row.owner) :
            row.value = IF row.id = call[c].row.id THEN 1 ELSE 0)'
  BY <1>2 DEF LatestInv, Kept
<1> QED  BY <1>3, <1>4, <1>5, <1>6 DEF LatestInv
-----------------------------------------------------------------------------
(***************************************************************************)
(* Each action keeps the invariant.                                        *)
(***************************************************************************)
\* A step that changes neither the list in the store nor the calls that are to patch it.
LEMMA CacheFrame ==
  ASSUME CacheInv, UNCHANGED <<kind, server, cache>>,
         raced' = {} => raced = {} /\ Served' = Served,
         \A c \in Served' : Kept(c),
         kind = "global" => \A list, owner : Finds(list, owner) => Finds(list, owner)'
  PROVE  CacheInv'
<1>1. SUFFICES ASSUME raced' = {}, cache.of # None
               PROVE  Reflects(cache.rows, cache.of, Served)'
  BY DEF CacheInv
<1>2. Reflects(cache.rows, cache.of, Served) /\ Served' = Served
  BY <1>1 DEF CacheInv
<1>3. kind = "global" => Finds(cache.rows, cache.of)
  BY <1>2 DEF Reflects
<1> QED  BY <1>2, <1>3, ReflectsFrame

\* The same of the list that is on its way.
LEMMA QueryFrame ==
  ASSUME QueryInv, UNCHANGED <<kind, server>>,
         kind = "global" => \A list, owner : Finds(list, owner) => Finds(list, owner)',
         query' # Idle /\ query'.served /\ ~query'.missed =>
            /\ query' = query /\ Since' = Since /\ \A c \in Since : Kept(c)
            /\ Since \cap Fresh' = Since \cap Fresh
  PROVE  QueryInv'
<1>1. SUFFICES ASSUME query' # Idle, query'.served, ~query'.missed
               PROVE  /\ Reflects(query.rows, query.owner, Since)'
                      /\ (\A d \in Since \ Fresh :
                            \E c \in Since \cap Fresh : Related(call[c].row, call[d].row))'
  BY DEF QueryInv
<1>2. /\ query' = query /\ Since' = Since /\ \A c \in Since : Kept(c)
      /\ \A d \in Since : d \in Fresh' <=> d \in Fresh
  BY <1>1
<1>3. /\ Reflects(query.rows, query.owner, Since)
      /\ \A d \in Since \ Fresh : \E c \in Since \cap Fresh : Related(call[c].row, call[d].row)
  BY <1>1, <1>2 DEF QueryInv
<1>4. kind = "global" => Finds(query.rows, query.owner)
  BY <1>3 DEF Reflects
<1>5. Reflects(query.rows, query.owner, Since)'
  BY <1>2, <1>3, <1>4, ReflectsFrame
<1>6. \A r, s : Related(r, s)' <=> Related(r, s)
  BY DEF Related
<1>7. (\A d \in Since \ Fresh : \E c \in Since \cap Fresh : Related(call[c].row, call[d].row))'
  BY <1>2, <1>3, <1>6 DEF Kept
<1> QED  BY <1>5, <1>7

LEMMA SameStep ==
  ASSUME StoreInv, UNCHANGED <<kind, server, used, cache, query, call, made, raced>>,
         view' \in Owners
  PROVE  StoreInv'
<1>1. TypeOK'
  BY DEF StoreInv, TypeOK, Offered
<1>2. /\ Active' = Active /\ Served' = Served /\ Since' = Since /\ Fresh' = Fresh
      /\ Seen' = Seen /\ Known' = Known
  BY DEF Active, Served, Since, Fresh, Seen, Known, Asked, Miss
<1>3. \A c \in Calls : Kept(c)
  BY DEF Kept
<1>4. IdsInv'
  BY <1>2, IdsFrame DEF StoreInv, IdsInv
<1>5. CallsInv'
  BY <1>2, CallsFrame DEF StoreInv, CallsInv
<1>6. Fresh \subseteq Calls /\ Served \subseteq Calls
  BY DEF Fresh, Served, Active
<1>7. LatestInv'
  BY <1>2, <1>3, <1>6, LatestFrame DEF StoreInv
<1>8. \A list, owner : Finds(list, owner) => Finds(list, owner)'
  BY <1>2 DEF Finds
<1>9. CacheInv' /\ QueryInv'
  <2>1. Since \subseteq Served'
    BY <1>2 DEF Since
  <2> QED  BY <1>2, <1>3, <1>6, <1>8, <2>1, CacheFrame, QueryFrame DEF StoreInv
<1> QED  BY <1>1, <1>4, <1>5, <1>7, <1>9 DEF StoreInv

\* A new request forgets what was served since the last list was read.
LEMMA AskStep ==
  ASSUME StoreInv, Ask
  PROVE  StoreInv'
<1>1. /\ query' = [owner |-> view, served |-> FALSE, rows |-> <<>>, missed |-> FALSE]
      /\ call' = [c \in Calls |-> IF call[c] = Idle THEN Idle ELSE [call[c] EXCEPT !.since = FALSE]]
      /\ UNCHANGED <<kind, server, used, cache, view, made, raced>>
  BY DEF Ask
<1>2. \A c \in Active : c \in Calls /\ call[c] \in Call /\ call[c].op \in Offered
  BY CallTypes DEF StoreInv
<1>3. /\ query' \in Query /\ query' # Idle /\ ToSet(query'.rows) = {}
  <2>1. view \in Owners
    BY DEF StoreInv, TypeOK
  <2>2. query' \in Query
    BY <1>1, <2>1 DEF Query
  <2>3. ToSet(query'.rows) = {}
    BY <1>1 DEF ToSet
  <2> QED  BY <2>2, <2>3, NoDataAssumption
<1>4. ASSUME NEW c \in Active
      PROVE  /\ call'[c] = [call[c] EXCEPT !.since = FALSE]
             /\ call'[c] \in Call /\ call'[c] # Idle
  <2>1. call'[c] = [call[c] EXCEPT !.since = FALSE]
    BY <1>1, <1>2 DEF Active
  <2>2. call'[c] \in Call
    BY <1>2, <2>1 DEF Call
  <2> QED  BY <2>1, <2>2, NoDataAssumption
<1>5. \A c \in Calls : c \notin Active => call'[c] = Idle
  BY <1>1 DEF Active
<1>6. \A c \in Active : /\ Kept(c) /\ call'[c].live = call[c].live
                        /\ call'[c].phase = call[c].phase /\ ~call'[c].since
  BY <1>2, <1>4 DEF Kept, Call
<1>7. Active' = Active
  BY <1>4, <1>5 DEF Active
<1>8. /\ Served' = Served /\ Fresh' = Fresh /\ Fresh \subseteq Served /\ Served \subseteq Active
  BY <1>6, <1>7 DEF Served, Fresh, Miss, Kept
<1>9. TypeOK'
  <2>1. call' \in [Calls -> Call \cup {Idle}]
    BY <1>1, <1>4, <1>5 DEF Active
  <2>2. \A c \in Calls : call'[c] # Idle => call'[c].op \in Offered
    BY <1>2, <1>5, <1>6 DEF Kept
  <2> QED  BY <1>1, <1>3, <2>1, <2>2 DEF StoreInv, TypeOK, Offered
<1>10. IdsInv'
  <2>1. Known' \subseteq Known
    BY <1>1, <1>3 DEF Known, Asked
  <2>2. Seen' \subseteq Seen
    BY <2>1, <1>6, <1>7 DEF Seen, Kept
  <2> QED  BY <1>1, <2>1, <2>2, IdsFrame DEF StoreInv, IdsInv
<1>11. CallsInv'
  BY <1>1, <1>6, <1>7, CallsFrame DEF StoreInv, Kept
<1>12. LatestInv'
  BY <1>1, <1>6, <1>8, LatestFrame DEF StoreInv
<1>13. \A list, owner : Finds(list, owner) => Finds(list, owner)'
  BY <1>6, <1>7, FindsFrame DEF Kept
<1>14. CacheInv' /\ QueryInv'
  BY <1>1, <1>6, <1>8, <1>13, CacheFrame, QueryFrame DEF StoreInv
<1> QED  BY <1>9, <1>10, <1>11, <1>12, <1>14 DEF StoreInv

\* A call that fails has changed nothing.
LEMMA FailStep ==
  ASSUME StoreInv, NEW c \in Calls, Fail(c)
  PROVE  StoreInv'
<1>1. /\ call[c] # Idle /\ call[c].phase = "sent"
      /\ call' = [call EXCEPT ![c] = Idle]
      /\ UNCHANGED <<kind, server, used, cache, view, query, made, raced>>
  BY DEF Fail
<1>2. call \in [Calls -> Call \cup {Idle}]
  BY DEF StoreInv, TypeOK
<1>3. Active' = Active \ {c}
  BY <1>1, <1>2 DEF Active
<1>4. \A d \in Active' : call'[d] = call[d] /\ Kept(d)
  BY <1>1, <1>2, <1>3 DEF Kept, Active
<1>5. /\ Served' = Served /\ Fresh' = Fresh /\ Since' = Since
      /\ Fresh \subseteq Served /\ Since \subseteq Served /\ Served \subseteq Active'
  <2>1. c \notin Served
    BY <1>1 DEF Served, Miss
  <2>2. Served' = Served
    BY <1>3, <1>4, <2>1 DEF Served, Miss
  <2>3. Served \subseteq Active'
    BY <1>3, <2>1 DEF Served
  <2> QED  BY <1>4, <2>2, <2>3 DEF Fresh, Since
<1>6. TypeOK'
  <2>1. call' \in [Calls -> Call \cup {Idle}]
    BY <1>1, <1>2
  <2>2. \A d \in Calls : call'[d] # Idle => call[d] # Idle /\ call'[d] = call[d]
    BY <1>1, <1>2
  <2> QED  BY <1>1, <2>1, <2>2 DEF StoreInv, TypeOK, Offered
<1>7. IdsInv'
  <2>1. Known' = Known
    BY <1>1 DEF Known, Asked
  <2>2. Seen' \subseteq Seen
    BY <2>1, <1>3, <1>4 DEF Seen
  <2> QED  BY <1>1, <2>1, <2>2, IdsFrame DEF StoreInv, IdsInv
<1>8. CallsInv'
  <2>1. \A d \in Active : call[d].since => (query # Idle => query.served)
    BY DEF StoreInv, CallsInv
  <2> QED  BY <1>1, <1>3, <1>4, <2>1, CallsFrame DEF StoreInv
<1>9. LatestInv'
  BY <1>1, <1>4, <1>5, LatestFrame DEF StoreInv
<1>10. \A list, owner : Finds(list, owner) => Finds(list, owner)'
  BY <1>3, <1>4, FindsFrame
<1>11. CacheInv' /\ QueryInv'
  BY <1>1, <1>4, <1>5, <1>10, CacheFrame, QueryFrame DEF StoreInv
<1> QED  BY <1>6, <1>7, <1>8, <1>9, <1>11 DEF StoreInv
LEMMA ServerFinite ==
  ASSUME TypeOK
  PROVE  IsFiniteSet(server)
<1> DEFINE f == [row \in server |-> row.id]
<1>1. \A row \in server : row.id \in Ids
  BY DEF TypeOK, Row
<1>2. f \in [server -> Ids]
  BY <1>1
<1>3. IsInjective(f)
  BY DEF TypeOK, IsInjective
<1>4. f \in Injection(server, Ids)
  BY <1>2, <1>3 DEF Injection
<1> HIDE DEF f
<1> QED  BY <1>4, NoDataAssumption, FS_Injection

\* The page finds a slot's only row.
LEMMA TopOfOne ==
  ASSUME NEW S, NEW list \in Seq(S), OnePerSlot(list), NEW k, NEW slot
  PROVE  Top(k, list, slot) = InSlot(list, slot)
<1>1. \A i, j \in Places(list, slot) : i = j /\ i \in Nat
  BY DEF Places, OnePerSlot
<1>2. Tops(k, list, slot) = Places(list, slot)
  BY <1>1 DEF Tops, Before
<1>3. InSlot(list, slot) = {list[i] : i \in Places(list, slot)}
  BY DEF InSlot, ToSet, Places
<1> QED  BY <1>2, <1>3 DEF Top

\* A list that has just been read says what the data base holds.
LEMMA ListRead ==
  ASSUME StoreInv, NEW owner \in Owners
  PROVE  /\ SetToSeq(Of(owner)) \in Seq(Row)
         /\ ToSet(SetToSeq(Of(owner))) = Of(owner)
         /\ Reflects(SetToSeq(Of(owner)), owner, {})
<1> DEFINE list == SetToSeq(Of(owner))
<1>1. IsFiniteSet(Of(owner)) /\ Of(owner) \subseteq server /\ server \subseteq Row
  <2>1. IsFiniteSet(server) /\ server \subseteq Row
    BY ServerFinite DEF StoreInv, TypeOK
  <2>2. Of(owner) \subseteq server
    BY DEF Of
  <2> QED  BY <2>1, <2>2, FS_Subset
<1>2. /\ list \in Seq(Of(owner)) /\ ToSet(list) = Of(owner)
      /\ \A i, j \in DOMAIN list : list[i] = list[j] => i = j
  BY <1>1, ListOfSet
<1> HIDE DEF list
<1>3. list \in Seq(Row) /\ \A i \in DOMAIN list : list[i] \in Of(owner)
  BY <1>1, <1>2
<1>4. \A row \in ToSet(list) : row.owner = owner
  BY <1>2 DEF Of
<1>5. kind # "key" => OnePerSlot(list)
  BY <1>2, <1>3 DEF OnePerSlot, StoreInv, IdsInv, Of
<1>6. kind = "global" => Finds(list, owner)
  <2>1. SUFFICES ASSUME kind = "global", NEW c \in Active, call[c].op = "update",
                        call[c].row.owner = owner
                 PROVE  \E row \in ToSet(list) : row.id = call[c].row.id
    BY DEF Finds
  <2>2. call[c].row.id \in used
    BY <2>1 DEF StoreInv, CallsInv, Unborn
  <2>3. PICK row \in server : row.id = call[c].row.id
    BY <2>1, <2>2 DEF StoreInv, IdsInv
  <2>4. row.owner = owner
    BY <2>1, <2>3 DEF StoreInv, IdsInv, Alike, Seen, Known
  <2> QED  BY <1>2, <2>3, <2>4 DEF Of
<1>7. ASSUME kind # "key", NEW slot \in Slots  PROVE SlotOf(list, owner, {}, slot)
  <2>1. InSlot(list, slot) = Stands(owner, slot)
    BY <1>2 DEF InSlot, Stands, Of
  <2>2. Holds(kind, list, slot) = InSlot(list, slot)
    BY <1>3, <1>5, <1>7, TopOfOne DEF Holds
  <2>3. Latest({}, owner, slot) = {}
    BY DEF Latest, At
  <2>4. Current({}, owner, slot) = {row.id : row \in Stands(owner, slot)}
    BY <2>3 DEF Current
  <2> QED  BY <2>1, <2>2, <2>4 DEF SlotOf
<1>8. KeysOf(list, owner, {})
  <2>1. Calling({}, owner) = {} /\ Created({}, owner) = {}
    BY DEF Calling, Created
  <2>2. Of(owner) \subseteq server
    BY <1>1
  <2> QED  BY <1>2, <2>1, <2>2 DEF KeysOf
<1>9. Reflects(list, owner, {})
  BY <1>4, <1>5, <1>6, <1>7, <1>8 DEF Reflects
<1> QED  BY <1>2, <1>3, <1>9 DEF list

LEMMA ServeQueryStep ==
  ASSUME StoreInv, ServeQuery
  PROVE  StoreInv'
<1>0. PICK rows, owner : rows = SetToSeq(Of(query.owner)) /\ owner = query.owner
  OBVIOUS
<1>1. /\ query # Idle /\ ~query.served
      /\ query' = [query EXCEPT !.served = TRUE, !.rows = rows]
      /\ UNCHANGED <<kind, server, used, cache, view, call, made, raced>>
  BY <1>0 DEF ServeQuery
<1>2. query \in Query
  BY <1>1, CallTypes DEF StoreInv
<1>3. owner \in Owners
  BY <1>0, <1>2 DEF Query
<1>4. /\ rows \in Seq(Row) /\ ToSet(rows) = Of(owner)
      /\ Reflects(rows, owner, {})
  BY <1>0, <1>3, ListRead
<1>5. /\ query' \in Query /\ query'.rows = rows /\ query'.owner = owner
      /\ query' # Idle /\ query'.served
  BY <1>0, <1>1, <1>2, <1>4, NoDataAssumption DEF Query
<1>6. /\ Active' = Active /\ Served' = Served /\ Since' = Since /\ Fresh' = Fresh
      /\ \A c \in Active : Kept(c)
  BY <1>1 DEF Active, Served, Since, Fresh, Miss, Kept
<1>7. Served \subseteq Active /\ Fresh \subseteq Active
  BY DEF Served, Fresh
<1>8. TypeOK'
  BY <1>1, <1>5 DEF StoreInv, TypeOK, Offered
<1>9. IdsInv'
  <2>1. Known' \subseteq Known
    BY <1>1, <1>4, <1>5 DEF Known, Asked, Of
  <2>2. Seen' \subseteq Seen
    BY <1>1, <1>6, <2>1 DEF Seen
  <2> QED  BY <1>1, <2>1, <2>2, IdsFrame DEF StoreInv, IdsInv
<1>10. CallsInv'
  BY <1>1, <1>5, <1>6, CallsFrame DEF StoreInv
<1>11. LatestInv'
  BY <1>1, <1>6, <1>7, LatestFrame DEF StoreInv
<1>12. \A l, o : Finds(l, o) => Finds(l, o)'
  BY <1>1, <1>6 DEF Finds
<1>13. CacheInv'
  BY <1>1, <1>6, <1>7, <1>12, CacheFrame DEF StoreInv
<1>14. QueryInv'
  <2>1. Since = {}
    BY <1>1, <1>7 DEF StoreInv, CallsInv, Since
  <2>2. kind = "global" => Finds(rows, owner)'
    BY <1>4, <1>12 DEF Reflects
  <2>3. Reflects(rows, owner, {})'
    BY <1>1, <1>4, <2>2, ReflectsFrame
  <2> QED  BY <1>1, <1>5, <1>6, <2>1, <2>3 DEF QueryInv
<1> QED  BY <1>8, <1>9, <1>10, <1>11, <1>13, <1>14 DEF StoreInv
\* A list read before some calls were served says the same of them as one read
\* before all the calls that are still to be answered.
LEMMA SlotSinceServed ==
  ASSUME StoreInv, kind # "key", NEW list, NEW owner, NEW slot,
         \A d \in Since \ Fresh : \E c \in Since \cap Fresh : Related(call[c].row, call[d].row),
         SlotOf(list, owner, Since, slot)
  PROVE  SlotOf(list, owner, Served, slot)
<1>1. Since \subseteq Served /\ At(Since, owner, slot) \subseteq At(Served, owner, slot)
  BY DEF Since, At
<1>2. \A C : C \subseteq Served => Latest(C, owner, slot) = At(C, owner, slot) \cap Fresh
  BY DEF Latest, At, Fresh
<1>3. \A c, d \in Latest(Served, owner, slot) : c = d
  <2>1. \A c, d \in At(Served, owner, slot) : Related(call[c].row, call[d].row)
    BY DEF At, Related
  <2> QED  BY <1>2, <2>1 DEF StoreInv, LatestInv
<1>4. CASE Latest(Since, owner, slot) # {}
  <2>1. Latest(Served, owner, slot) = Latest(Since, owner, slot)
    BY <1>1, <1>2, <1>3, <1>4
  <2>2. Current(Served, owner, slot) = Current(Since, owner, slot)
    BY <2>1 DEF Current
  <2>3. Doomed(Since, owner, slot) => Doomed(Served, owner, slot)
    BY <1>1, <2>2 DEF Doomed
  <2> QED  BY <2>1, <2>2, <2>3 DEF SlotOf
<1>5. CASE Latest(Since, owner, slot) = {}
  <2>1. At(Since, owner, slot) = {}
    <3>1. SUFFICES ASSUME NEW d \in At(Since, owner, slot)  PROVE FALSE
      OBVIOUS
    <3>2. d \in Since \ Fresh
      BY <1>1, <1>2, <1>5, <3>1 DEF At
    <3>3. PICK c \in Since \cap Fresh : Related(call[c].row, call[d].row)
      BY <3>2
    <3>4. c \in At(Since, owner, slot)
      BY <3>3 DEF At, Related
    <3> QED  BY <1>1, <1>2, <1>5, <3>3, <3>4
  <2>2. /\ \A row \in InSlot(list, slot) : row.id \in Current(Since, owner, slot)
        /\ Holds(kind, list, slot) = Stands(owner, slot)
    BY <1>5, <2>1 DEF SlotOf, Doomed
  <2>3. Current(Since, owner, slot) = {row.id : row \in Stands(owner, slot)}
    BY <1>5 DEF Current
  <2>4. CASE Latest(Served, owner, slot) = {}
    <3>1. Current(Served, owner, slot) = Current(Since, owner, slot)
      BY <2>3, <2>4 DEF Current
    <3> QED  BY <2>2, <3>1 DEF SlotOf
  <2>5. CASE Latest(Served, owner, slot) # {}
    <3>1. PICK e : e \in Latest(Served, owner, slot)
      BY <2>5
    <3>2. /\ e \in Fresh /\ call[e].row.owner = owner /\ call[e].row.slot = slot
      BY <1>2, <3>1 DEF At
    <3>3. \A row \in Stands(owner, slot) : row.id = call[e].row.id
      <4>1. CASE call[e].op = "delete"
        BY <3>2, <4>1 DEF StoreInv, LatestInv, Stands, Related
      <4>2. CASE call[e].op # "delete"
        <5>1. call[e].row \in server
          BY <3>2, <4>2 DEF StoreInv, LatestInv
        <5> QED  BY <3>2, <5>1 DEF StoreInv, IdsInv, Stands
      <4> QED  BY <4>1, <4>2
    <3>4. call[e].row.id \in Current(Served, owner, slot)
      BY <3>1 DEF Current
    <3> QED  BY <2>2, <2>3, <2>5, <3>3, <3>4 DEF SlotOf
  <2> QED  BY <2>4, <2>5
<1> QED  BY <1>4, <1>5

LEMMA KeysSinceServed ==
  ASSUME NEW list, NEW owner, KeysOf(list, owner, Since)
  PROVE  KeysOf(list, owner, Served)
<1>1. /\ Calling(Since, owner) \subseteq Calling(Served, owner)
      /\ Created(Since, owner) \subseteq Created(Served, owner)
  BY DEF Since, Calling, Created
<1> QED  BY <1>1 DEF KeysOf

LEMMA AnswerQueryStep ==
  ASSUME StoreInv, AnswerQuery
  PROVE  StoreInv'
<1>0. PICK rows, owner : rows = query.rows /\ owner = query.owner
  OBVIOUS
<1>1. /\ query # Idle /\ query.served
      /\ cache' = [of |-> owner, rows |-> rows]
      /\ raced' = IF query.missed THEN {"overtaken"} ELSE {}
      /\ query' = Idle
      /\ UNCHANGED <<kind, server, used, view, call, made>>
  BY <1>0 DEF AnswerQuery
<1>2. query \in Query
  BY <1>1, CallTypes DEF StoreInv
<1>3. owner \in Owners /\ rows \in Seq(Row)
  BY <1>0, <1>2 DEF Query
<1>4. /\ Active' = Active /\ Served' = Served /\ Fresh' = Fresh
      /\ \A c \in Active : Kept(c)
  BY <1>1 DEF Active, Served, Fresh, Miss, Kept
<1>5. Served \subseteq Active /\ Fresh \subseteq Active
  BY DEF Served, Fresh
<1>6. ToSet(rows) = Asked
  BY <1>0, <1>1 DEF Asked
<1>7. TypeOK'
  <2>1. cache' \in Cache
    BY <1>1, <1>3 DEF Cache
  <2>2. \A row \in ToSet(cache'.rows) : row.id \in used
    BY <1>1, <1>6 DEF StoreInv, IdsInv, Known
  <2>3. raced' \subseteq {"lost", "overtaken", "foreign", "reordered"}
    BY <1>1
  <2> QED  BY <1>1, <2>1, <2>2, <2>3 DEF StoreInv, TypeOK, Offered
<1>8. IdsInv'
  <2>1. Known' \subseteq Known
    BY <1>1, <1>6 DEF Known, Asked
  <2>2. Seen' \subseteq Seen
    BY <1>1, <1>4, <2>1 DEF Seen
  <2> QED  BY <1>1, <2>1, <2>2, IdsFrame DEF StoreInv, IdsInv
<1>9. CallsInv'
  BY <1>1, <1>4, CallsFrame DEF StoreInv
<1>10. LatestInv'
  BY <1>1, <1>4, <1>5, LatestFrame DEF StoreInv
<1>11. CacheInv'
  <2>1. SUFFICES ASSUME raced' = {}  PROVE Reflects(cache.rows, cache.of, Served)'
    BY DEF CacheInv
  <2>2. /\ Reflects(rows, owner, Since)
        /\ \A d \in Since \ Fresh : \E c \in Since \cap Fresh : Related(call[c].row, call[d].row)
    BY <1>0, <1>1, <2>1 DEF StoreInv, QueryInv
  <2>3. Reflects(rows, owner, Served)
    <3>1. kind = "key" => KeysOf(rows, owner, Served)
      BY <2>2, KeysSinceServed DEF Reflects
    <3>2. kind # "key" => \A slot \in Slots : SlotOf(rows, owner, Served, slot)
      BY <2>2, SlotSinceServed DEF Reflects
    <3> QED  BY <2>2, <3>1, <3>2 DEF Reflects
  <2>4. kind = "global" => Finds(rows, owner)
    BY <2>2 DEF Reflects
  <2>5. kind = "global" => Finds(rows, owner)'
    BY <1>1, <1>4, <2>4 DEF Finds
  <2>6. Reflects(rows, owner, Served)'
    BY <1>1, <1>4, <1>5, <2>3, <2>5, ReflectsFrame
  <2> QED  BY <1>1, <1>4, <2>6
<1>12. QueryInv'
  BY <1>1 DEF QueryInv
<1> QED  BY <1>7, <1>8, <1>9, <1>10, <1>11, <1>12 DEF StoreInv
\* What becomes of the calls when the user makes another one.
LEMMA MutateCalls ==
  ASSUME StoreInv, NEW c \in Calls, NEW op, NEW row \in Row, Mutate(c, op, row)
  PROVE  /\ c \notin Active /\ c \in Active'
         /\ call'[c] = [op |-> op, row |-> row, phase |-> "sent", live |-> TRUE,
                        since |-> FALSE, old |-> FALSE]
         /\ call' \in [Calls -> {call'[c]} \cup Call \cup {Idle}]
         /\ \A d \in Active' : d # c =>
              /\ d \in Active /\ Kept(d)
              /\ call'[d].phase = call[d].phase /\ call'[d].since = call[d].since
              /\ d \in Served => call'[d] = call[d]
         /\ raced' = {} => \A d \in Served : call'[d] = call[d] /\ d \in Active'
<1>1. /\ call[c] = Idle
      /\ call' = [d \in Calls |->
           IF d = c THEN [op |-> op, row |-> row, phase |-> "sent", live |-> TRUE,
                          since |-> FALSE, old |-> FALSE]
           ELSE IF SameLabel(d, op, row) /\ Miss(d) THEN Idle
           ELSE IF SameLabel(d, op, row) THEN [call[d] EXCEPT !.live = FALSE] ELSE call[d]]
      /\ raced' = IF {d \in Calls : SameLabel(d, op, row) /\ Miss(d)} = {}
                  THEN raced ELSE raced \cup {"lost"}
  BY DEF Mutate
<1>2. \A d \in Active : d \in Calls /\ call[d] \in Call /\ call[d] # Idle
  BY CallTypes DEF StoreInv
<1>3. call'[c] = [op |-> op, row |-> row, phase |-> "sent", live |-> TRUE,
                  since |-> FALSE, old |-> FALSE]
  BY <1>1
<1>4. c \notin Active
  BY <1>1 DEF Active
<1>5. \A d \in Calls : d # c =>
        \/ SameLabel(d, op, row) /\ Miss(d) /\ call'[d] = Idle
        \/ SameLabel(d, op, row) /\ ~Miss(d) /\ call'[d] = [call[d] EXCEPT !.live = FALSE]
        \/ ~SameLabel(d, op, row) /\ call'[d] = call[d]
  BY <1>1
<1>6. \A d \in Calls : SameLabel(d, op, row) => d \in Active
  BY DEF SameLabel, Active
<1>7. ASSUME NEW d \in Active', d # c
      PROVE  /\ d \in Active /\ Kept(d)
             /\ call'[d].phase = call[d].phase /\ call'[d].since = call[d].since
             /\ d \in Served => call'[d] = call[d]
  <2>1. d \in Calls /\ call'[d] # Idle
    BY DEF Active
  <2>2. CASE SameLabel(d, op, row)
    <3>1. d \in Active /\ ~Miss(d) /\ call'[d] = [call[d] EXCEPT !.live = FALSE]
      BY <1>5, <1>6, <1>7, <2>1, <2>2
    <3> QED  BY <1>2, <3>1 DEF Kept, Call, Served
  <2>3. CASE ~SameLabel(d, op, row)
    <3>1. call'[d] = call[d]
      BY <1>5, <1>7, <2>1, <2>3
    <3> QED  BY <2>1, <3>1 DEF Kept, Active
  <2> QED  BY <2>2, <2>3
<1>8. call' \in [Calls -> {call'[c]} \cup Call \cup {Idle}]
  <2>1. \A d \in Calls : d # c /\ d \in Active => call'[d] \in Call \cup {Idle}
    BY <1>2, <1>5 DEF Call
  <2>2. \A d \in Calls : d # c /\ d \notin Active => call'[d] = Idle
    BY <1>5, <1>6 DEF Active
  <2>3. \A d \in Calls : call'[d] \in {call'[c]} \cup Call \cup {Idle}
    BY <2>1, <2>2
  <2>4. call' = [d \in Calls |-> call'[d]]
    BY <1>1
  <2> HIDE <1>1
  <2> QED  BY <2>3, <2>4
<1>9. c \in Active'
  <2>1. call'[c] # Idle
    <3>1. op \in Ops
      BY DEF Mutate, Offered, Ops
    <3>2. call'[c] \in Call
      BY <1>3, <3>1 DEF Call
    <3> QED  BY <3>2, NoDataAssumption
  <2> QED  BY <2>1 DEF Active
<1>10. ASSUME raced' = {}, NEW d \in Served  PROVE call'[d] = call[d] /\ d \in Active'
  <2>1. d \in Active /\ Miss(d) /\ d # c
    BY <1>4 DEF Served
  <2>2. ~SameLabel(d, op, row)
    BY <1>1, <1>2, <1>10, <2>1
  <2> QED  BY <1>2, <1>5, <2>1, <2>2 DEF Active
<1> QED  BY <1>3, <1>4, <1>7, <1>8, <1>9, <1>10
\* A new row has an identifier of its own, a change is of a row of the list.
LEMMA MutateStep ==
  ASSUME StoreInv, NEW c \in Calls, NEW op, NEW row \in Row, Mutate(c, op, row),
         query = Idle,
         \/ /\ op = "create" /\ row.id \notin used
            /\ \A d \in Active : call[d].row.id # row.id
         \/ /\ op # "create"
            /\ \E r \in ToSet(cache.rows) : r.id = row.id /\ r.owner = row.owner /\ r.slot = row.slot
  PROVE  StoreInv'
<1>1. /\ made < MaxCalls /\ made' = made + 1 /\ op \in Offered /\ op \in Ops
      /\ raced' \in {raced, raced \cup {"lost"}} /\ raced \subseteq raced'
      /\ query' = Idle
      /\ UNCHANGED <<kind, server, used, cache, view>>
  BY DEF Mutate, Offered, Ops
<1>2. /\ c \notin Active /\ c \in Active'
      /\ call'[c] = [op |-> op, row |-> row, phase |-> "sent", live |-> TRUE,
                     since |-> FALSE, old |-> FALSE]
      /\ call' \in [Calls -> {call'[c]} \cup Call \cup {Idle}]
      /\ \A d \in Active' : d # c =>
           /\ d \in Active /\ Kept(d)
           /\ call'[d].phase = call[d].phase /\ call'[d].since = call[d].since
           /\ d \in Served => call'[d] = call[d]
      /\ raced' = {} => \A d \in Served : call'[d] = call[d] /\ d \in Active'
  BY MutateCalls
<1>3. call'[c].phase = "sent" /\ call'[c].op = op /\ call'[c].row = row /\ ~call'[c].since
  BY <1>2
<1>4. /\ \A d \in Active : d \in Calls /\ call[d].op \in Offered
      /\ Active' \subseteq Calls
  BY CallTypes DEF StoreInv, Active
<1>5. Served' \subseteq Served /\ Served' \subseteq Active' \ {c}
  BY <1>2, <1>3 DEF Served, Miss
<1>6. Fresh' \subseteq Fresh /\ Fresh' \subseteq Served'
  BY <1>2, <1>5 DEF Fresh, Kept
<1>7. TypeOK'
  <2>1. call'[c] \in Call
    BY <1>1, <1>2 DEF Call
  <2>2. call' \in [Calls -> Call \cup {Idle}]
    BY <1>2, <2>1
  <2>3. \A d \in Calls : call'[d] # Idle => call'[d].op \in Offered
    BY <1>1, <1>2, <1>3, <1>4 DEF Active, Kept
  <2>4. made' \in 0..MaxCalls
    BY <1>1, StoreAssumption DEF StoreInv, TypeOK
  <2>5. raced' \subseteq {"lost", "overtaken", "foreign", "reordered"}
    BY <1>1 DEF StoreInv, TypeOK
  <2> QED  BY <1>1, <2>2, <2>3, <2>4, <2>5 DEF StoreInv, TypeOK, Offered
<1>8. Known' = Known /\ Seen' \subseteq Seen \cup {row}
  <2>1. Known' = Known
    BY <1>1 DEF Known, Asked
  <2>2. {call'[d].row : d \in Active'} \subseteq {call[d].row : d \in Active} \cup {row}
    BY <1>2, <1>3 DEF Kept
  <2> QED  BY <2>1, <2>2 DEF Seen
<1>9. IdsInv'
  <2>1. CASE op = "create"
    <3>1. row.id \notin used /\ \A d \in Active : call[d].row.id # row.id
      BY <2>1
    <3>2. \A r \in Seen : r.id # row.id
      BY <3>1 DEF StoreInv, IdsInv, Seen
    <3>3. (\A r, s \in Seen : Alike(r, s))'
      BY <1>8, <3>2 DEF StoreInv, IdsInv, Alike
    <3> QED  BY <1>1, <1>8, <3>3 DEF StoreInv, IdsInv
  <2>2. CASE op # "create"
    <3>1. PICK r \in ToSet(cache.rows) : r.id = row.id /\ r.owner = row.owner /\ r.slot = row.slot
      BY <2>2
    <3>2. r \in Seen
      BY DEF Seen, Known
    <3> QED  BY <1>1, <1>8, <3>1, <3>2, IdsFrame DEF StoreInv, IdsInv
  <2> QED  BY <2>1, <2>2
<1>10. CallsInv'
  <2>1. row.id \notin used <=> op = "create"
    BY DEF StoreInv, IdsInv, Known
  <2>2. Unborn(c)' <=> op = "create"
    BY <1>3 DEF Unborn
  <2>3. \A d \in Active' : d # c => (Unborn(d)' <=> Unborn(d)) /\ call'[d].row = call[d].row
    BY <1>2 DEF Unborn, Kept
  <2>4. (\A d \in Served : call[d].live)'
    BY <1>2, <1>5 DEF StoreInv, CallsInv
  <2>5. (\A d \in Active : Unborn(d) <=> call[d].row.id \notin used)'
    BY <1>1, <1>2, <1>3, <2>1, <2>2, <2>3 DEF StoreInv, CallsInv
  <2>6. (\A d, e \in Active : Unborn(d) /\ d # e => call[d].row.id # call[e].row.id)'
    <3>1. SUFFICES ASSUME NEW d \in Active', NEW e \in Active', Unborn(d)', d # e
                   PROVE  call'[d].row.id # call'[e].row.id
      OBVIOUS
    <3>2. \A a \in Active : a \in Active => (Unborn(a) <=> call[a].row.id \notin used)
      BY DEF StoreInv, CallsInv
    <3>3. CASE d = c
      BY <1>2, <1>3, <2>2, <2>3, <3>1, <3>3
    <3>4. CASE e = c
      <4>1. d \in Active /\ Unborn(d) /\ call'[d].row = call[d].row
        BY <1>2, <2>3, <3>1, <3>4
      <4>2. op # "create" => row.id # call[d].row.id
        BY <2>1, <3>2, <4>1
      <4> QED  BY <1>3, <3>4, <4>1, <4>2
    <3>5. CASE d # c /\ e # c
      BY <1>2, <2>3, <3>1, <3>5 DEF StoreInv, CallsInv
    <3> QED  BY <3>3, <3>4, <3>5
  <2>7. (\A d \in Active : call[d].since => d \in Served /\ (query # Idle => query.served))'
    <3>1. SUFFICES ASSUME NEW d \in Active', call'[d].since
                   PROVE  d \in Served'
      BY <1>1
    <3>2. d # c /\ d \in Active /\ call[d].since /\ call'[d].phase = call[d].phase
      BY <1>2, <1>3, <3>1
    <3>3. d \in Served
      BY <3>2 DEF StoreInv, CallsInv
    <3> QED  BY <3>1, <3>2, <3>3 DEF Served, Miss
  <2>8. (\A d \in Active : call[d].old => d \in Served)'
    <3>1. SUFFICES ASSUME NEW d \in Active', call'[d].old
                   PROVE  d \in Served'
      OBVIOUS
    <3>2. d # c /\ d \in Active /\ call[d].old /\ call'[d].phase = call[d].phase
      BY <1>2, <3>1 DEF Kept
    <3>3. d \in Served
      BY <3>2 DEF StoreInv, CallsInv
    <3> QED  BY <3>1, <3>2, <3>3 DEF Served, Miss
  <2> QED  BY <2>4, <2>5, <2>6, <2>7, <2>8 DEF CallsInv
<1>11. LatestInv'
  BY <1>1, <1>2, <1>5, <1>6, LatestFrame DEF StoreInv
<1>12. CacheInv'
  <2>1. SUFFICES ASSUME raced' = {}, cache.of # None
                 PROVE  Reflects(cache.rows, cache.of, Served)'
    BY <1>1 DEF CacheInv
  <2>2. raced = {} /\ Reflects(cache.rows, cache.of, Served)
    BY <1>1, <2>1 DEF StoreInv, CacheInv
  <2>3. \A d \in Served : call'[d] = call[d] /\ d \in Active'
    BY <1>2, <2>1
  <2>4. Served' = Served /\ \A d \in Served : Kept(d)
    BY <1>5, <2>3 DEF Served, Miss, Kept
  <2>5. kind = "global" => Finds(cache.rows, cache.of)'
    <3>1. SUFFICES ASSUME kind = "global"  PROVE Finds(cache.rows, cache.of)'
      OBVIOUS
    <3>2. PICK l, o : l = cache.rows /\ o = cache.of
      OBVIOUS
    <3>3. Finds(l, o)
      BY <2>2, <3>1, <3>2 DEF Reflects
    <3>4. op = "update" => \E r \in ToSet(l) : r.id = row.id
      BY <3>2
    <3>5. Finds(l, o)'
      BY <1>2, <1>3, <3>3, <3>4, FindsFrame DEF Kept
    <3> QED  BY <1>1, <3>2, <3>5
  <2> QED  BY <1>1, <2>2, <2>4, <2>5, ReflectsFrame
<1>13. QueryInv'
  BY <1>1 DEF QueryInv
<1> QED  BY <1>7, <1>9, <1>10, <1>11, <1>12, <1>13 DEF StoreInv

\* A page shows rows of the list.
LEMMA DisplayRows ==
  ASSUME NEW list
  PROVE  Display(list) \subseteq ToSet(list)
<1>1. \A slot : Shown(list, slot) \subseteq ToSet(list)
  BY DEF Shown, Matching, ToSet
<1> QED  BY <1>1 DEF Display

LEMMA CreateStep ==
  ASSUME StoreInv, NEW c \in Calls, NEW id \in Ids, NEW slot \in Slots, NEW value \in Values,
         Create(c, id, slot, value)
  PROVE  StoreInv'
<1> DEFINE row == [id |-> id, owner |-> view, slot |-> slot, value |-> value]
<1>1. /\ query = Idle
      /\ id \notin used /\ \A d \in Calls : call[d] # Idle => call[d].row.id # id
      /\ Mutate(c, "create", row)
  BY DEF Create, Ready
<1>2. row \in Row
  BY DEF StoreInv, TypeOK, Row
<1>3. \A d \in Active : call[d].row.id # id
  BY <1>1 DEF Active
<1> QED  BY <1>1, <1>2, <1>3, MutateStep

LEMMA ChangeStep ==
  ASSUME StoreInv, NEW c \in Calls, NEW row \in Display(cache.rows),
         \/ \E value \in Values : Update(c, row, value)
         \/ Delete(c, row)
  PROVE  StoreInv'
<1>1. row \in ToSet(cache.rows) /\ row \in Row /\ query = Idle
  BY DisplayRows, CallTypes DEF Update, Delete, Ready, StoreInv
<1>2. ASSUME NEW value \in Values, Update(c, row, value)  PROVE StoreInv'
  <2> DEFINE new == [row EXCEPT !.value = value]
  <2>1. new \in Row /\ new.id = row.id /\ new.owner = row.owner /\ new.slot = row.slot
    BY <1>1 DEF Row
  <2>2. Mutate(c, "update", new)
    BY <1>2 DEF Update
  <2> HIDE DEF new
  <2> QED  BY <1>1, <2>1, <2>2, MutateStep
<1>3. ASSUME Delete(c, row)  PROVE StoreInv'
  <2>1. Mutate(c, "delete", row)
    BY <1>3 DEF Delete
  <2> QED  BY <1>1, <2>1, MutateStep
<1> QED  BY <1>2, <1>3
\* What the page takes of a slot is in the slot.
LEMMA HoldsInSlot ==
  ASSUME NEW list, NEW k, NEW slot
  PROVE  Holds(k, list, slot) \subseteq InSlot(list, slot)
  BY DEF Holds, Top, Tops, Places, InSlot, ToSet

\* The slot of an answer, once the answer is in the list.
LEMMA SlotAnswered ==
  ASSUME StoreInv, kind # "key", NEW c \in Served, ~AsksAgain(call[c].op),
         call[c].old => Corrected(c),
         NEW list \in Seq(Row), NEW p, PatchedBy(list, call[c].op, call[c].row, p),
         kind = "global" => Finds(list, call[c].row.owner),
         \A row \in ToSet(list) : Alike(row, call[c].row),
         SlotOf(list, call[c].row.owner, Served, call[c].row.slot)
  PROVE  SlotOf(p, call[c].row.owner, Served \ {c}, call[c].row.slot)
<1>0. PICK new, op, owner, slot :
        new = call[c].row /\ op = call[c].op /\ owner = new.owner /\ slot = new.slot
  OBVIOUS
<1>1. c \in Active /\ c \in At(Served, owner, slot) /\ op \in Offered
  BY <1>0, CallTypes DEF At, StoreInv
<1>2. At(Served \ {c}, owner, slot) = At(Served, owner, slot) \ {c}
  BY DEF At
<1>3. Latest(Served \ {c}, owner, slot) = Latest(Served, owner, slot) \ {c}
  BY <1>2 DEF Latest
<1>4. /\ Latest(Served, owner, slot) = At(Served, owner, slot) \cap Fresh
      /\ \A d, e \in Latest(Served, owner, slot) : d = e
  <2>1. Latest(Served, owner, slot) = At(Served, owner, slot) \cap Fresh
    BY DEF Latest, At, Fresh
  <2>2. \A d, e \in At(Served, owner, slot) : Related(call[d].row, call[e].row)
    BY DEF At, Related
  <2> QED  BY <2>1, <2>2 DEF StoreInv, LatestInv
<1>5. /\ op = "delete" => InSlot(p, slot) = InSlot(list, slot) \ WithId(list, new.id)
      /\ op # "delete" => InSlot(p, slot) \subseteq InSlot(list, slot) \cup {new}
      /\ op # "delete" /\ kind # "global" => Holds(kind, p, slot) = {new}
      /\ kind = "global" =>
           /\ op # "delete"
           /\ InSlot(p, slot) = {IF row.id = new.id THEN new ELSE row : row \in InSlot(list, slot)}
  BY <1>0 DEF PatchedBy
<1>6. ASSUME \A row \in InSlot(list, slot) : row.id = new.id
      PROVE  \A row \in InSlot(p, slot) : row.id = new.id
  BY <1>5, <1>6
<1>7. CASE ~call[c].old
  <2>1. /\ c \in Fresh /\ Latest(Served, owner, slot) = {c}
        /\ Latest(Served \ {c}, owner, slot) = {}
    BY <1>1, <1>3, <1>4, <1>7 DEF Fresh
  <2>2. /\ Current(Served, owner, slot) = {new.id}
        /\ Current(Served \ {c}, owner, slot) = {row.id : row \in Stands(owner, slot)}
    BY <1>0, <2>1 DEF Current
  <2>3. CASE op # "delete"
    <3>1. new \in server
      BY <1>0, <2>1, <2>3 DEF StoreInv, LatestInv
    <3>2. Stands(owner, slot) = {new}
      BY <1>0, <3>1 DEF StoreInv, IdsInv, Stands
    <3>3. Current(Served \ {c}, owner, slot) = {new.id}
      BY <2>2, <3>2
    <3>4. CASE Doomed(Served, owner, slot)
      <4>1. PICK d \in At(Served, owner, slot) : call[d].old /\ call[d].row.id # new.id
        BY <2>2, <3>4 DEF Doomed
      <4>2. d \in At(Served \ {c}, owner, slot)
        BY <1>2, <1>7, <4>1
      <4>3. Doomed(Served \ {c}, owner, slot)
        BY <3>3, <4>1, <4>2 DEF Doomed
      <4> QED  BY <1>0, <4>3 DEF SlotOf
    <3>5. CASE ~Doomed(Served, owner, slot)
      <4>1. \A row \in InSlot(list, slot) : row.id = new.id
        BY <1>0, <2>2, <3>5 DEF SlotOf
      <4>2. \A row \in InSlot(p, slot) : row.id \in Current(Served \ {c}, owner, slot)
        BY <1>6, <3>3, <4>1
      <4>3. Holds(kind, p, slot) = {new}
        <5>1. CASE kind # "global"
          BY <1>5, <2>3, <5>1
        <5>2. CASE kind = "global"
          <6>1. op = "update"
            BY <1>0, <1>1, <5>2 DEF Offered, AsksAgain
          <6>2. PICK row \in ToSet(list) : row.id = new.id
            BY <1>0, <1>1, <5>2, <6>1 DEF Finds
          <6>3. row \in InSlot(list, slot)
            BY <1>0, <6>2 DEF Alike, InSlot
          <6>4. InSlot(p, slot) = {new}
            BY <1>5, <4>1, <5>2, <6>3
          <6> QED  BY <5>2, <6>4 DEF Holds
        <5> QED  BY <5>1, <5>2
      <4> QED  BY <1>0, <3>2, <4>2, <4>3 DEF SlotOf
    <3> QED  BY <3>4, <3>5
  <2>4. CASE op = "delete"
    <3>1. Stands(owner, slot) = {}
      BY <1>0, <2>1, <2>4 DEF StoreInv, LatestInv, Stands, Related
    <3>2. Current(Served \ {c}, owner, slot) = {}
      BY <2>2, <3>1
    <3>3. CASE Doomed(Served, owner, slot)
      <4>1. PICK d \in At(Served, owner, slot) : call[d].old
        BY <3>3 DEF Doomed
      <4>2. d \in At(Served \ {c}, owner, slot)
        BY <1>2, <1>7, <4>1
      <4>3. Doomed(Served \ {c}, owner, slot)
        BY <3>2, <4>1, <4>2 DEF Doomed
      <4> QED  BY <1>0, <4>3 DEF SlotOf
    <3>4. CASE ~Doomed(Served, owner, slot)
      <4>1. \A row \in InSlot(list, slot) : row.id = new.id
        BY <1>0, <2>2, <3>4 DEF SlotOf
      <4>2. InSlot(p, slot) = {}
        BY <1>5, <2>4, <4>1 DEF InSlot, WithId
      <4>3. Holds(kind, p, slot) = {}
        BY <4>2, HoldsInSlot
      <4> QED  BY <1>0, <3>1, <4>2, <4>3 DEF SlotOf
    <3> QED  BY <3>3, <3>4
  <2> QED  BY <2>3, <2>4
<1>8. CASE call[c].old
  <2>1. PICK d \in Calls \ {c} : /\ call[d] # Idle /\ Miss(d) /\ ~call[d].old
                                 /\ call[d].row.id = new.id
    BY <1>0, <1>8 DEF Corrected
  <2>2. d \in Fresh /\ d \in Served /\ d \in Active
    BY <2>1 DEF Fresh, Served, Active
  <2>3. d \in Latest(Served, owner, slot) /\ d # c
    <3>1. Alike(call[d].row, new)
      BY <1>0, <1>1, <2>2, AlikeRows DEF StoreInv
    <3> QED  BY <1>0, <1>4, <2>1, <2>2, <3>1 DEF Alike, At
  <2>4. /\ Latest(Served, owner, slot) = {d} /\ Latest(Served \ {c}, owner, slot) = {d}
    BY <1>3, <1>4, <2>3
  <2>5. /\ Current(Served, owner, slot) = {new.id}
        /\ Current(Served \ {c}, owner, slot) = {new.id}
    BY <2>1, <2>4 DEF Current
  <2>6. CASE Doomed(Served, owner, slot)
    <3>1. PICK e \in At(Served, owner, slot) : call[e].old /\ call[e].row.id # new.id
      BY <2>5, <2>6 DEF Doomed
    <3>2. e \in At(Served \ {c}, owner, slot)
      BY <1>0, <1>2, <3>1
    <3>3. Doomed(Served \ {c}, owner, slot)
      BY <2>5, <3>1, <3>2 DEF Doomed
    <3> QED  BY <1>0, <3>3 DEF SlotOf
  <2>7. CASE ~Doomed(Served, owner, slot)
    <3>1. \A row \in InSlot(list, slot) : row.id = new.id
      BY <1>0, <2>5, <2>7 DEF SlotOf
    <3>2. \A row \in InSlot(p, slot) : row.id \in Current(Served \ {c}, owner, slot)
      BY <1>6, <2>5, <3>1
    <3> QED  BY <1>0, <2>4, <3>2 DEF SlotOf
  <2> QED  BY <2>6, <2>7
<1> QED  BY <1>7, <1>8
\* The ssh keys, once an answer is in the list.
LEMMA KeysAnswered ==
  ASSUME StoreInv, kind = "key", NEW c \in Served, ~AsksAgain(call[c].op),
         call[c].old => Corrected(c),
         NEW list \in Seq(Row), NEW p, p = Patched(list, call[c].op, call[c].row),
         ToSet(list) \subseteq Known,
         \A row \in ToSet(list) : row.owner = call[c].row.owner,
         KeysOf(list, call[c].row.owner, Served)
  PROVE  KeysOf(p, call[c].row.owner, Served \ {c})
<1>0. PICK new, op, owner : new = call[c].row /\ op = call[c].op /\ owner = new.owner
  OBVIOUS
<1>1. /\ c \in Active /\ op \in {"create", "update"} /\ new \in Row
      /\ c \in Calling(Served, owner)
  BY <1>0, CallTypes DEF StoreInv, Offered, AsksAgain, Calling
<1>2. /\ Calling(Served \ {c}, owner) = Calling(Served, owner) \ {c}
      /\ Created(Served \ {c}, owner) = Created(Served, owner) \ {c}
  BY DEF Calling, Created
<1>3. \A d, e \in Calling(Served, owner) \cap Fresh : d = e
  <2>1. \A d, e \in Calling(Served, owner) : Related(call[d].row, call[e].row)
    BY DEF Calling, Related
  <2> QED  BY <2>1 DEF StoreInv, LatestInv
<1>4. \A d \in Calling(Served, owner) : d \in Fresh <=> ~call[d].old
  BY DEF Calling, Fresh
<1>5. /\ op = "create" => ToSet(p) = ToSet(list) \cup {new}
      /\ op = "update" => ToSet(p) =
           {[row EXCEPT !.value = IF row.id = new.id THEN 1 ELSE 0] : row \in ToSet(list)}
  BY <1>0, <1>1, KeyRows
<1>6. SUFFICES ASSUME \A d \in Calling(Served \ {c}, owner) : call[d].op # "delete"
               PROVE
                 /\ \A row \in ToSet(p) : \E r \in server : r.id = row.id
                 /\ \A r \in Of(owner) : \/ \E row \in ToSet(p) : row.id = r.id
                                         \/ \E d \in Created(Served \ {c}, owner) : call[d].row.id = r.id
                 /\ (\A d \in Calling(Served \ {c}, owner) : ~call[d].old /\ call[d].op = "create") =>
                      /\ ToSet(p) \subseteq Of(owner)
                      /\ Of(owner) \subseteq ToSet(p) \cup {call[d].row : d \in Calling(Served \ {c}, owner)}
  BY <1>0 DEF KeysOf
<1>7. \A d \in Calling(Served, owner) : call[d].op # "delete"
  BY <1>0, <1>1, <1>2, <1>6
<1>8. /\ \A row \in ToSet(list) : \E r \in server : r.id = row.id
      /\ \A r \in Of(owner) : \/ \E row \in ToSet(list) : row.id = r.id
                              \/ \E d \in Created(Served, owner) : call[d].row.id = r.id
      /\ (\A d \in Calling(Served, owner) : ~call[d].old /\ call[d].op = "create") =>
           /\ ToSet(list) \subseteq Of(owner)
           /\ Of(owner) \subseteq ToSet(list) \cup {call[d].row : d \in Calling(Served, owner)}
  BY <1>0, <1>7 DEF KeysOf
\* The choice of a default key that is still to come.
<1>9. call[c].old => \E d \in Calling(Served \ {c}, owner) : call[d].op = "update"
  <2>1. SUFFICES ASSUME call[c].old
                 PROVE  \E d \in Calling(Served \ {c}, owner) : call[d].op = "update"
    OBVIOUS
  <2>2. PICK d \in Calls \ {c} : /\ call[d] # Idle /\ Miss(d) /\ call[d].op = "update"
                                 /\ Related(call[d].row, new)
    BY <1>0, <2>1 DEF Corrected
  <2>3. d \in Calling(Served \ {c}, owner)
    BY <1>0, <2>2 DEF Calling, Served, Active, Related
  <2> QED  BY <2>2, <2>3
<1>10. (\A d \in Calling(Served \ {c}, owner) : ~call[d].old /\ call[d].op = "create") =>
         c \in Fresh /\ Calling(Served, owner) = {c}
  <2>1. SUFFICES ASSUME \A d \in Calling(Served \ {c}, owner) : ~call[d].old /\ call[d].op = "create"
                 PROVE  c \in Fresh /\ Calling(Served, owner) = {c}
    OBVIOUS
  <2>2. ~call[c].old
    BY <1>9, <2>1
  <2>3. c \in Fresh
    BY <1>1, <1>4, <2>2
  <2>4. \A d \in Calling(Served, owner) : d \in Fresh
    BY <1>2, <1>4, <2>1, <2>2
  <2> QED  BY <1>1, <1>3, <2>3, <2>4
<1>11. CASE op = "create"
  <2>1. ~call[c].old => new \in server
    BY <1>0, <1>11 DEF StoreInv, LatestInv, Fresh
  <2>2. \E r \in server : r.id = new.id
    <3>1. CASE ~call[c].old
      BY <2>1, <3>1
    <3>2. CASE call[c].old
      BY <1>0, <1>11, <3>2 DEF Corrected
    <3> QED  BY <3>1, <3>2
  <2>3. \A row \in ToSet(p) : \E r \in server : r.id = row.id
    BY <1>5, <1>8, <1>11, <2>2
  <2>4. ASSUME NEW r \in Of(owner)
        PROVE  \/ \E row \in ToSet(p) : row.id = r.id
               \/ \E d \in Created(Served \ {c}, owner) : call[d].row.id = r.id
    BY <1>0, <1>2, <1>5, <1>8, <1>11
  <2>5. ASSUME \A d \in Calling(Served \ {c}, owner) : ~call[d].old /\ call[d].op = "create"
        PROVE  /\ ToSet(p) \subseteq Of(owner)
               /\ Of(owner) \subseteq ToSet(p) \cup {call[d].row : d \in Calling(Served \ {c}, owner)}
    <3>1. c \in Fresh /\ Calling(Served, owner) = {c} /\ ~call[c].old
      BY <1>10, <2>5 DEF Fresh
    <3>2. new \in Of(owner)
      BY <1>0, <2>1, <3>1 DEF Of
    <3>3. ToSet(list) \subseteq Of(owner) /\ Of(owner) \subseteq ToSet(list) \cup {new}
      <4>1. \A d \in Calling(Served, owner) :
              ~call[d].old /\ call[d].op = "create" /\ call[d].row = new
        BY <1>0, <1>11, <3>1
      <4> QED  BY <1>8, <4>1
    <3> QED  BY <1>5, <1>11, <3>2, <3>3
  <2> QED  BY <2>3, <2>4, <2>5
<1>12. CASE op = "update"
  <2>0. ToSet(list) \subseteq Row
    BY DEF ToSet
  <2>1. \A row \in ToSet(p) : \E s \in ToSet(list) :
          s.id = row.id /\ row = [s EXCEPT !.value = IF s.id = new.id THEN 1 ELSE 0]
    BY <1>5, <1>12, <2>0 DEF Row
  <2>2. \A s \in ToSet(list) : \E row \in ToSet(p) :
          s.id = row.id /\ row = [s EXCEPT !.value = IF s.id = new.id THEN 1 ELSE 0]
    BY <1>5, <1>12, <2>0 DEF Row
  <2>3. \A row \in ToSet(p) : \E r \in server : r.id = row.id
    BY <1>8, <2>1
  <2>4. ASSUME NEW r \in Of(owner)
        PROVE  \/ \E row \in ToSet(p) : row.id = r.id
               \/ \E d \in Created(Served \ {c}, owner) : call[d].row.id = r.id
    <3>1. c \notin Created(Served, owner)
      BY <1>0, <1>12 DEF Created
    <3>2. CASE \E s \in ToSet(list) : s.id = r.id
      BY <2>2, <3>2
    <3>3. CASE \E d \in Created(Served, owner) : call[d].row.id = r.id
      BY <1>2, <3>1, <3>3
    <3> QED  BY <1>8, <3>2, <3>3
  <2>5. ASSUME \A d \in Calling(Served \ {c}, owner) : ~call[d].old /\ call[d].op = "create"
        PROVE  /\ ToSet(p) \subseteq Of(owner)
               /\ Of(owner) \subseteq ToSet(p) \cup {call[d].row : d \in Calling(Served \ {c}, owner)}
    <3>1. c \in Fresh /\ Calling(Served, owner) = {c}
      BY <1>10, <2>5
    <3>2. Created(Served, owner) = {}
      BY <1>0, <1>12, <3>1 DEF Created
    <3>3. \A r \in Of(owner) : r.value = IF r.id = new.id THEN 1 ELSE 0
      BY <1>0, <1>12, <3>1 DEF StoreInv, LatestInv
    <3>4. ASSUME NEW s \in ToSet(list), NEW r \in server, r.id = s.id
          PROVE  r \in Of(owner) /\ [s EXCEPT !.value = IF s.id = new.id THEN 1 ELSE 0] = r
      <4>1. r.owner = s.owner /\ r.slot = s.slot /\ s.owner = owner
        BY <1>0, <3>4, AlikeRows DEF StoreInv, Known, Alike
      <4>2. r \in Of(owner)
        BY <4>1 DEF Of
      <4>3. r.value = IF s.id = new.id THEN 1 ELSE 0
        BY <3>3, <3>4, <4>2
      <4>4. r \in Row /\ s \in Row
        BY <2>0 DEF StoreInv, TypeOK
      <4> QED  BY <3>4, <4>1, <4>2, <4>3, <4>4 DEF Row
    <3>5. ToSet(p) \subseteq Of(owner)
      BY <1>8, <2>1, <3>4
    <3>6. Of(owner) \subseteq ToSet(p)
      <4>0. SUFFICES ASSUME NEW r \in Of(owner)  PROVE r \in ToSet(p)
        OBVIOUS
      <4>1. r \in server
        BY DEF Of
      <4>2. PICK s \in ToSet(list) : s.id = r.id
        BY <1>8, <3>2
      <4>3. [s EXCEPT !.value = IF s.id = new.id THEN 1 ELSE 0] = r
        BY <3>4, <4>1, <4>2
      <4> QED  BY <2>2, <4>2, <4>3
    <3> QED  BY <3>5, <3>6
  <2> QED  BY <2>3, <2>4, <2>5
<1> QED  BY <1>1, <1>11, <1>12
\* A patch puts in the list what was in it or came with the answer.
LEMMA PatchTypes ==
  ASSUME StoreInv, NEW c \in Served, ~AsksAgain(call[c].op)
  PROVE  LET p == Patched(cache.rows, call[c].op, call[c].row)
         IN  /\ p \in Seq(Row)
             /\ \A row \in ToSet(p) : \E r \in ToSet(cache.rows) \cup {call[c].row} :
                  r.id = row.id /\ r.owner = row.owner /\ r.slot = row.slot
             /\ kind # "key" => PatchedBy(cache.rows, call[c].op, call[c].row, p)
<1> DEFINE list == cache.rows
           op == call[c].op
           new == call[c].row
           p == Patched(list, op, new)
<1>1. /\ list \in Seq(Row) /\ new \in Row /\ op \in Offered /\ c \in Active
      /\ ToSet(list) \subseteq Row
  BY CallTypes DEF StoreInv
<1>2. \A row \in ToSet(list) : row.id = new.id => row.slot = new.slot
  BY <1>1, AlikeRows DEF StoreInv, Known, Alike
<1>3. kind \in Kinds
  BY DEF StoreInv, TypeOK
<1> HIDE DEF list, op, new, p
<1>4. CASE kind = "key"
  <2>1. /\ p \in Seq(Row)
        /\ op = "create" => ToSet(p) = ToSet(list) \cup {new}
        /\ op # "create" => ToSet(p) =
             {[row EXCEPT !.value = IF row.id = new.id THEN 1 ELSE 0] : row \in ToSet(list)}
    BY <1>1, <1>4, KeyRows DEF p
  <2>2. \A row \in ToSet(p) : \E r \in ToSet(list) \cup {new} :
          r.id = row.id /\ r.owner = row.owner /\ r.slot = row.slot
    <3>1. CASE op = "create"
      BY <2>1, <3>1
    <3>2. CASE op # "create"
      BY <1>1, <2>1, <3>2 DEF Row
    <3> QED  BY <3>1, <3>2
  <2> QED  BY <1>4, <2>1, <2>2 DEF p, list, op, new
<1>5. CASE kind # "key"
  <2>1. PatchedBy(list, op, new, p)
    BY <1>1, <1>2, <1>3, <1>5, PatchedRows DEF p
  <2>2. p \in Seq(Row) /\ ToSet(p) \subseteq ToSet(list) \cup {new}
    BY <2>1 DEF PatchedBy
  <2>3. \A row \in ToSet(p) : \E r \in ToSet(list) \cup {new} :
          r.id = row.id /\ r.owner = row.owner /\ r.slot = row.slot
    BY <2>2
  <2> QED  BY <2>1, <2>2, <2>3 DEF p, list, op, new
<1> QED  BY <1>4, <1>5

\* The list with an answer in it says what the data base holds, as far as the answers
\* that are still to come do not.
LEMMA ReflectsAnswered ==
  ASSUME StoreInv, NEW c \in Served, ~AsksAgain(call[c].op),
         call[c].old => Corrected(c), cache.of = call[c].row.owner,
         Reflects(cache.rows, cache.of, Served)
  PROVE  LET p == Patched(cache.rows, call[c].op, call[c].row)
         IN  Reflects(p, cache.of, Served \ {c})
<1>0. PICK list, op, new, owner, p :
        /\ list = cache.rows /\ op = call[c].op /\ new = call[c].row /\ owner = cache.of
        /\ p = Patched(list, op, new)
  OBVIOUS
<1>1. /\ list \in Seq(Row) /\ new \in Row /\ op \in Offered /\ c \in Active
      /\ new.owner = owner /\ ToSet(list) \subseteq Known
  BY <1>0, CallTypes DEF StoreInv, Known
<1>2. /\ \A row \in ToSet(p) : \E r \in ToSet(list) \cup {new} :
           r.id = row.id /\ r.owner = row.owner /\ r.slot = row.slot
      /\ kind # "key" => PatchedBy(list, op, new, p)
  BY <1>0, PatchTypes
<1>3. /\ \A row \in ToSet(list) : row.owner = owner
      /\ kind = "policy" => OnePerSlot(list)
      /\ kind = "global" => Finds(list, owner)
      /\ kind = "key" => KeysOf(list, owner, Served)
      /\ kind # "key" => \A slot \in Slots : SlotOf(list, owner, Served, slot)
  BY <1>0 DEF Reflects
<1>4. \A row \in ToSet(p) : row.owner = owner
  BY <1>1, <1>2, <1>3
<1>5. kind = "policy" => OnePerSlot(p)
  BY <1>2, <1>3 DEF PatchedBy
<1>6. kind = "global" => Finds(p, owner)
  <2>1. kind = "global" => \A row \in ToSet(list) : \E r \in ToSet(p) : r.id = row.id
    BY <1>2 DEF PatchedBy
  <2> QED  BY <1>3, <2>1 DEF Finds
<1>7. kind = "key" => KeysOf(p, owner, Served \ {c})
  BY <1>0, <1>1, <1>3, KeysAnswered
<1>8. ASSUME kind # "key", NEW slot \in Slots
      PROVE  SlotOf(p, owner, Served \ {c}, slot)
  <2>1. CASE slot = new.slot
    <3>1. \A row \in ToSet(list) : Alike(row, call[c].row)
      BY <1>1, AlikeRows DEF StoreInv
    <3> QED  BY <1>0, <1>1, <1>2, <1>3, <1>8, <2>1, <3>1, SlotAnswered
  <2>2. CASE slot # new.slot
    <3>1. InSlot(p, slot) = InSlot(list, slot) /\ Holds(kind, p, slot) = Holds(kind, list, slot)
      BY <1>2, <1>8, <2>2 DEF PatchedBy
    <3>2. At(Served \ {c}, owner, slot) = At(Served, owner, slot)
      BY <1>0, <2>2 DEF At
    <3>3. Latest(Served \ {c}, owner, slot) = Latest(Served, owner, slot)
      BY <3>2 DEF Latest
    <3>4. Current(Served \ {c}, owner, slot) = Current(Served, owner, slot)
      BY <3>3 DEF Current
    <3>5. SlotOf(list, owner, Served, slot)
      BY <1>3, <1>8
    <3> QED  BY <3>1, <3>2, <3>3, <3>4, <3>5 DEF SlotOf, Doomed
  <2> QED  BY <2>1, <2>2
<1>9. Reflects(p, owner, Served \ {c})
  BY <1>4, <1>5, <1>6, <1>7, <1>8 DEF Reflects
<1> QED  BY <1>0, <1>9
LEMMA AnswerStep ==
  ASSUME StoreInv, NEW c \in Calls, Answer(c)
  PROVE  StoreInv'
<1>0. PICK op, new : op = call[c].op /\ new = call[c].row
  OBVIOUS
<1>1. /\ call[c] # Idle /\ call[c].phase = "served"
      /\ cache' = IF AsksAgain(op) THEN [cache EXCEPT !.of = None]
                  ELSE [cache EXCEPT !.rows = Patched(cache.rows, op, new)]
      /\ raced' = raced \cup (IF cache.of # new.owner THEN {"foreign"} ELSE {})
                        \cup (IF call[c].old /\ ~Corrected(c) THEN {"reordered"} ELSE {})
      /\ query' = IF query # Idle /\ call[c].since THEN [query EXCEPT !.missed = TRUE] ELSE query
      /\ call' = [call EXCEPT ![c] = Idle]
      /\ UNCHANGED <<kind, server, used, view, made>>
  BY <1>0 DEF Answer, Answered
<1>2. c \in Active /\ c \in Served /\ new \in Row /\ new.id \in used
  <2>1. c \in Active /\ c \in Served
    BY <1>1 DEF Active, Served, Miss
  <2>2. ~Unborn(c)
    BY <1>1 DEF Unborn
  <2> QED  BY <1>0, <2>1, <2>2, CallTypes DEF StoreInv, CallsInv
<1>3. call \in [Calls -> Call \cup {Idle}] /\ cache \in Cache
  BY DEF StoreInv, TypeOK
<1>4. Active' = Active \ {c} /\ \A d \in Active' : call'[d] = call[d] /\ Kept(d)
  BY <1>1, <1>3 DEF Active, Kept
<1>5. /\ Served' = Served \ {c} /\ Fresh' = Fresh \ {c} /\ Since' = Since \ {c}
      /\ Served' \subseteq Active' /\ Fresh' \subseteq Active' /\ Since' \subseteq Active'
  BY <1>4 DEF Served, Fresh, Since, Miss
<1>6. /\ query' \in Query \cup {Idle} /\ (query' # Idle <=> query # Idle)
      /\ query' # Idle => query'.rows = query.rows /\ query'.served = query.served
  <2>1. CASE query # Idle /\ call[c].since
    <3>1. query \in Query
      BY <2>1, CallTypes DEF StoreInv
    <3>2. query' \in Query /\ query'.rows = query.rows /\ query'.served = query.served
      BY <1>1, <2>1, <3>1 DEF Query
    <3> QED  BY <2>1, <3>2, NoDataAssumption
  <2>2. CASE ~(query # Idle /\ call[c].since)
    BY <1>1, <2>2 DEF StoreInv, TypeOK
  <2> QED  BY <2>1, <2>2
<1>7. /\ cache' \in Cache
      /\ \A row \in ToSet(cache'.rows) : \E r \in ToSet(cache.rows) \cup {new} :
           r.id = row.id /\ r.owner = row.owner /\ r.slot = row.slot
  <2>1. CASE AsksAgain(op)
    <3>1. cache' \in Cache /\ cache'.rows = cache.rows
      BY <1>1, <1>3, <2>1 DEF Cache
    <3> QED  BY <3>1
  <2>2. CASE ~AsksAgain(op)
    <3>1. PICK p : p = Patched(cache.rows, op, new)
      OBVIOUS
    <3>2. /\ p \in Seq(Row)
          /\ \A row \in ToSet(p) : \E r \in ToSet(cache.rows) \cup {new} :
               r.id = row.id /\ r.owner = row.owner /\ r.slot = row.slot
      BY <1>0, <1>2, <2>2, <3>1, PatchTypes
    <3>3. cache' = [cache EXCEPT !.rows = p]
      BY <1>1, <2>2, <3>1
    <3>4. cache' \in Cache /\ cache'.rows = p
      BY <1>3, <3>2, <3>3 DEF Cache
    <3> QED  BY <3>2, <3>4
  <2> QED  BY <2>1, <2>2
<1>8. \A row \in ToSet(cache'.rows) : row.id \in used
  BY <1>2, <1>7 DEF StoreInv, TypeOK
<1>9. TypeOK'
  <2>1. call' \in [Calls -> Call \cup {Idle}]
    BY <1>1, <1>3
  <2>2. \A d \in Calls : call'[d] # Idle => call'[d].op \in Offered
    BY <1>1, <1>3 DEF StoreInv, TypeOK
  <2>3. raced' \subseteq {"lost", "overtaken", "foreign", "reordered"}
    BY <1>1 DEF StoreInv, TypeOK
  <2> QED  BY <1>1, <1>6, <1>7, <1>8, <2>1, <2>2, <2>3 DEF StoreInv, TypeOK, Offered
<1>10. IdsInv'
  <2>1. Asked' = Asked
    BY <1>6 DEF Asked
  <2>2. \A s \in ToSet(cache'.rows) :
          \E r \in Seen : r.id = s.id /\ r.owner = s.owner /\ r.slot = s.slot
    <3>1. ToSet(cache.rows) \cup {new} \subseteq Seen
      BY <1>0, <1>2 DEF Seen, Known
    <3> QED  BY <1>7, <3>1
  <2>3. \A s \in Seen' : \E r \in Seen : r.id = s.id /\ r.owner = s.owner /\ r.slot = s.slot
    <3>1. Seen' = server \cup ToSet(cache'.rows) \cup Asked \cup {call[d].row : d \in Active'}
      BY <1>1, <1>4, <2>1 DEF Seen, Known
    <3>2. server \cup Asked \cup {call[d].row : d \in Active'} \subseteq Seen
      BY <1>4 DEF Seen, Known
    <3> QED  BY <2>2, <3>1, <3>2
  <2>4. \A r \in Known' : r.id \in used
    BY <1>1, <1>8, <2>1 DEF Known, StoreInv, IdsInv
  <2> QED  BY <1>1, <2>3, <2>4, IdsFrame DEF StoreInv
<1>11. CallsInv'
  <2>1. \A d \in Active : call[d].since => (query # Idle => query.served)
    BY DEF StoreInv, CallsInv
  <2> QED  BY <1>1, <1>4, <1>6, <2>1, CallsFrame DEF StoreInv
<1>12. LatestInv'
  BY <1>1, <1>4, <1>5, LatestFrame DEF StoreInv
<1>13. \A list, owner : Finds(list, owner) => Finds(list, owner)'
  BY <1>4, FindsFrame
<1>14. CacheInv'
  <2>1. SUFFICES ASSUME raced' = {}, cache'.of # None
                 PROVE  Reflects(cache.rows, cache.of, Served)'
    BY DEF CacheInv
  <2>2. /\ raced = {} /\ cache.of = new.owner /\ (call[c].old => Corrected(c))
    BY <1>1, <2>1
  <2>3. ~AsksAgain(op)
    BY <1>1, <1>3, <2>1 DEF Cache
  <2>4. PICK p, owner, C : /\ p = Patched(cache.rows, op, new) /\ owner = cache.of
                           /\ C = Served \ {c}
    OBVIOUS
  <2>5. cache'.rows = p /\ cache'.of = owner /\ owner # None
    BY <1>1, <1>3, <2>1, <2>3, <2>4 DEF Cache
  <2>6. Reflects(cache.rows, cache.of, Served)
    BY <2>2, <2>4, <2>5 DEF StoreInv, CacheInv
  <2>7. Reflects(p, owner, C)
    BY <1>0, <1>2, <2>2, <2>3, <2>4, <2>6, ReflectsAnswered
  <2>8. kind = "global" => Finds(p, owner)'
    BY <1>13, <2>7 DEF Reflects
  <2>9. \A d \in C : Kept(d)
    BY <1>4, <1>5, <2>4
  <2>10. Reflects(p, owner, C)'
    BY <1>1, <2>7, <2>8, <2>9, ReflectsFrame
  <2>11. C = Served'
    BY <1>5, <2>4
  <2> QED  BY <2>5, <2>10, <2>11
<1>15. QueryInv'
  <2>1. CASE query # Idle /\ call[c].since
    <3>1. query \in Query
      BY <2>1, CallTypes DEF StoreInv
    <3>2. query'.missed
      BY <1>1, <2>1, <3>1 DEF Query
    <3> QED  BY <3>2 DEF QueryInv
  <2>2. CASE query = Idle
    BY <1>6, <2>2 DEF QueryInv
  <2>3. CASE query # Idle /\ ~call[c].since
    <3>1. query' = query /\ c \notin Since
      BY <1>1, <2>3 DEF Since
    <3> QED  BY <1>1, <1>4, <1>5, <1>13, <3>1, QueryFrame DEF StoreInv
  <2> QED  BY <2>1, <2>2, <2>3
<1> QED  BY <1>9, <1>10, <1>11, <1>12, <1>14, <1>15 DEF StoreInv

(***************************************************************************)
(* The data base serves a mutation.                                        *)
(***************************************************************************)
Like(r, s) == r.id = s.id /\ r.owner = s.owner /\ r.slot = s.slot

\* What the data base holds once it has done what new asks, answering with row.
Effect(op, new, row) ==
  /\ row \in Row /\ Like(row, new) /\ server' \subseteq Row
  /\ op = "delete" => row = new /\ \A r \in server' : r.id # new.id
  /\ op # "delete" => row \in server'
  /\ \A r, s \in server' : r.id = s.id => r = s
  /\ \A s \in server' : s.id # new.id => \E r \in server : Like(r, s)
  /\ \A r \in server : r.id # new.id => \E s \in server' : Like(r, s)
  /\ kind # "key" \/ op # "update" => \A r : r.id # new.id => (r \in server' <=> r \in server)
  /\ \A r : r.owner # new.owner => (r \in server' <=> r \in server)
  /\ kind = "key" /\ op = "update" => \A r \in server' :
       r.owner = new.owner => r.value = IF r.id = new.id THEN 1 ELSE 0

\* What an accepted mutation finds in the data base.
Accepted(op, new) ==
  /\ op # "create" => \E r \in server : Like(r, new)
  /\ op = "create" => \A r \in server : r.id # new.id
  /\ op = "create" /\ kind # "key" => \A r \in server : r.owner = new.owner => r.slot # new.slot

LEMMA AcceptedRows ==
  ASSUME StoreInv, NEW c \in Active, call[c].phase = "sent", ~Refused(call[c].op, call[c].row)
  PROVE  Accepted(call[c].op, call[c].row)
<1>0. PICK op, new : op = call[c].op /\ new = call[c].row
  OBVIOUS
<1>1. \A r \in server : r.id = new.id => Like(r, new)
  BY <1>0, AlikeRows DEF StoreInv, Known, Alike, Like
<1>2. op # "create" => \E r \in server : r.id = new.id
  BY <1>0 DEF Refused
<1>3. op = "create" => new.id \notin used
  BY <1>0 DEF StoreInv, CallsInv, Unborn
<1>4. \A r \in server : r.id \in used
  BY DEF StoreInv, IdsInv, Known
<1>5. op = "create" /\ kind # "key" => \A r \in server : r.owner = new.owner => r.slot # new.slot
  BY <1>0 DEF Refused
<1> QED  BY <1>0, <1>1, <1>2, <1>3, <1>4, <1>5 DEF Accepted

LEMMA StoredRows ==
  ASSUME StoreInv, NEW c \in Active, call[c].phase = "sent", ~Refused(call[c].op, call[c].row),
         server' = Stored(call[c].op, call[c].row)
  PROVE  \E row : Effect(call[c].op, call[c].row, row)
<1>0. PICK op, new : op = call[c].op /\ new = call[c].row
  OBVIOUS
<1>1. new \in Row /\ op \in Ops
  BY <1>0, CallTypes DEF StoreInv, Offered, Ops
<1>2. Accepted(op, new)
  BY <1>0, AcceptedRows
<1>3. server \subseteq Row /\ \A r, s \in server : r.id = s.id => r = s
  BY DEF StoreInv, TypeOK
<1>4. \A r \in server : r.id = new.id => Like(r, new)
  BY <1>0, AlikeRows DEF StoreInv, Known, Alike, Like
<1>5. PICK keys, kept : /\ keys = {row \in server : kind = "key" /\ row.owner = new.owner}
                        /\ kept = {row \in server : row.id # new.id}
  OBVIOUS
<1>6. CASE op = "delete"
  <2>1. server' = kept
    BY <1>0, <1>5, <1>6 DEF Stored
  <2>2. Effect(op, new, new)
    BY <1>1, <1>3, <1>4, <1>5, <1>6, <2>1 DEF Effect, Like
  <2> QED  BY <1>0, <2>2
<1>7. CASE op # "delete" /\ kind # "key"
  <2>1. server' = kept \cup {new}
    BY <1>0, <1>5, <1>7 DEF Stored
  <2>2. Effect(op, new, new)
    BY <1>1, <1>3, <1>4, <1>5, <1>7, <2>1 DEF Effect, Like
  <2> QED  BY <1>0, <2>2
<1>8. CASE op = "create" /\ kind = "key"
  <2> DEFINE row == [new EXCEPT !.value = IF keys = {} THEN 1 ELSE 0]
  <2>1. server' = server \cup {row}
    BY <1>0, <1>5, <1>8 DEF Stored
  <2>2. row \in Row /\ Like(row, new)
    BY <1>1, StoreAssumption DEF Row, Like
  <2>3. \A r \in server : r.id # new.id
    BY <1>2, <1>8 DEF Accepted
  <2> HIDE DEF row
  <2>4. Effect(op, new, row)
    BY <1>3, <1>8, <2>1, <2>2, <2>3 DEF Effect, Like
  <2> QED  BY <1>0, <2>4
<1>9. CASE op = "update" /\ kind = "key"
  <2> DEFINE put(r) == [r EXCEPT !.value = IF r \notin keys THEN @
                                           ELSE IF r.id = new.id THEN 1 ELSE 0]
  <2>1. server' = {put(r) : r \in server}
    BY <1>0, <1>5, <1>9 DEF Stored
  <2>2. \A r \in server : /\ put(r) \in Row /\ Like(put(r), r)
                          /\ r.owner # new.owner => put(r) = r
                          /\ r.owner = new.owner =>
                               put(r).value = IF r.id = new.id THEN 1 ELSE 0
    BY <1>3, <1>5, <1>9, StoreAssumption DEF Row, Like
  <2> HIDE DEF put
  <2>3. PICK own \in server : Like(own, new)
    BY <1>2, <1>9 DEF Accepted
  <2>4. server' \subseteq Row
    BY <2>1, <2>2
  <2>5. \A r, s \in server' : r.id = s.id => r = s
    BY <1>3, <2>1, <2>2 DEF Like
  <2>6. /\ \A s \in server' : \E r \in server : Like(r, s)
        /\ \A r \in server : \E s \in server' : Like(r, s)
    BY <2>1, <2>2 DEF Like
  <2>7. \A r : r.owner # new.owner => (r \in server' <=> r \in server)
    BY <2>1, <2>2 DEF Like
  <2>8. \A r \in server' : r.owner = new.owner => r.value = IF r.id = new.id THEN 1 ELSE 0
    BY <2>1, <2>2 DEF Like
  <2>9. put(own) \in server' /\ Like(put(own), new) /\ put(own) \in Row
    BY <2>1, <2>2, <2>3 DEF Like
  <2>10. Effect(op, new, put(own))
    BY <1>9, <2>4, <2>5, <2>6, <2>7, <2>8, <2>9 DEF Effect
  <2> QED  BY <1>0, <2>10
<1> QED  BY <1>1, <1>6, <1>7, <1>8, <1>9 DEF Ops

\* What becomes of the calls: c has its answer on the way, or is gone unnoticed, and the
\* related calls that were served before it are old.
Serving(c, row) ==
  LET new == call[c].row
  IN  /\ Active' = IF call[c].live THEN Active ELSE Active \ {c}
      /\ call[c].live => /\ call'[c].row = row /\ call'[c].op = call[c].op
                         /\ call'[c].phase = "served" /\ call'[c].live /\ ~call'[c].old
                         /\ call'[c].since = (query # Idle /\ query.served)
      /\ \A d \in Active \ {c} :
           /\ call'[d].row = call[d].row /\ call'[d].op = call[d].op
           /\ call'[d].phase = call[d].phase /\ call'[d].live = call[d].live
           /\ call'[d].since = call[d].since
           /\ call'[d].old <=> call[d].old \/ (d \in Served /\ Related(call[d].row, new))

LEMMA ServeCalls ==
  ASSUME StoreInv, NEW c \in Calls, Serve(c)
  PROVE  /\ c \in Active \ Served /\ call[c].phase = "sent" /\ call[c].row \in Row
         /\ Accepted(call[c].op, call[c].row)
         /\ call' \in [Calls -> Call \cup {Idle}]
         /\ \E row : Effect(call[c].op, call[c].row, row) /\ Serving(c, row)
<1> DEFINE op == call[c].op
           new == call[c].row
           watched == query # Idle /\ query.served
           answer == {row \in server' : row.id = new.id}
           told == IF op = "delete" THEN new ELSE CHOOSE row \in answer : TRUE
           put(d) == IF d = c THEN IF call[c].live
                                   THEN [call[c] EXCEPT !.phase = "served", !.since = watched,
                                           !.row = told]
                                   ELSE Idle
                     ELSE IF call[d] # Idle /\ Miss(d) /\ Related(call[d].row, new)
                          THEN [call[d] EXCEPT !.old = TRUE] ELSE call[d]
<1>0. call' = [d \in Calls |-> put(d)]
  BY DEF Serve
<1>1. /\ call[c] # Idle /\ call[c].phase = "sent" /\ ~Refused(op, new)
      /\ server' = Stored(op, new)
  BY DEF Serve
<1>2. c \in Active /\ c \notin Served /\ call[c] \in Call /\ new \in Row /\ op \in Offered
  BY <1>0, <1>1, CallTypes DEF StoreInv, Active, Served, Miss
<1>3. Accepted(op, new)
  BY <1>1, <1>2, AcceptedRows
<1>4. PICK row : Effect(op, new, row)
  BY <1>1, <1>2, StoredRows
<1>5. told = row
  <2>1. CASE op = "delete"
    BY <1>4, <2>1 DEF Effect
  <2>2. CASE op # "delete"
    <3>1. answer = {row}
      BY <1>4, <2>2 DEF Effect, Like
    <3> HIDE DEF answer
    <3> QED  BY <2>2, <3>1
  <2> QED  BY <2>1, <2>2
<1> HIDE DEF told
<1>6. call[c].live => call'[c] = [call[c] EXCEPT !.phase = "served", !.since = watched, !.row = row]
  BY <1>0, <1>5
<1>7. ~call[c].live => call'[c] = Idle
  BY <1>0
<1>8. ~call[c].old
  BY <1>2 DEF StoreInv, CallsInv
<1>9. row \in Row
  BY <1>4 DEF Effect
<1>10. call[c].live => call'[c] \in Call
  <2>1. \A b \in BOOLEAN : [call[c] EXCEPT !.phase = "served", !.since = b, !.row = row] \in Call
    BY <1>2, <1>9 DEF Call
  <2>2. watched \in BOOLEAN
    OBVIOUS
  <2> HIDE DEF watched
  <2> QED  BY <1>6, <2>1, <2>2
<1>11. \A d \in Calls : d # c =>
         call'[d] = IF d \in Served /\ Related(call[d].row, new)
                    THEN [call[d] EXCEPT !.old = TRUE] ELSE call[d]
  BY <1>0 DEF Served, Active
<1>12. \A d \in Active : d \in Calls /\ call[d] \in Call
  BY CallTypes DEF StoreInv
<1>13. ASSUME NEW d \in Active \ {c}
       PROVE  /\ call'[d] \in Call
              /\ call'[d].row = call[d].row /\ call'[d].op = call[d].op
              /\ call'[d].phase = call[d].phase /\ call'[d].live = call[d].live
              /\ call'[d].since = call[d].since
              /\ call'[d].old <=> call[d].old \/ (d \in Served /\ Related(call[d].row, new))
  <2>1. d \in Calls /\ call[d] \in Call /\ d # c
    BY <1>12
  <2>2. CASE d \in Served /\ Related(call[d].row, new)
    <3>1. call'[d] = [call[d] EXCEPT !.old = TRUE]
      BY <1>11, <2>1, <2>2
    <3> QED  BY <2>1, <2>2, <3>1 DEF Call
  <2>3. CASE ~(d \in Served /\ Related(call[d].row, new))
    <3>1. call'[d] = call[d]
      BY <1>11, <2>1, <2>3
    <3> QED  BY <2>1, <2>3, <3>1
  <2> QED  BY <2>2, <2>3
<1>14. \A d \in Calls \ Active : d # c /\ call'[d] = Idle
  BY <1>2, <1>11 DEF Served, Active
<1>15. call' \in [Calls -> Call \cup {Idle}]
  <2>1. call' = [d \in Calls |-> call'[d]]
    <3> HIDE DEF put
    <3> QED  BY <1>0
  <2>2. \A d \in Calls : call'[d] \in Call \cup {Idle}
    BY <1>7, <1>10, <1>13, <1>14
  <2> HIDE <1>0
  <2> QED  BY <2>1, <2>2
<1>16. Active' = IF call[c].live THEN Active ELSE Active \ {c}
  <2>1. \A d \in Calls : d # c => (call'[d] # Idle <=> d \in Active)
    BY <1>13, <1>14, NoDataAssumption
  <2>2. call'[c] # Idle <=> call[c].live
    BY <1>7, <1>10, NoDataAssumption
  <2> QED  BY <1>2, <2>1, <2>2 DEF Active
<1>17. call[c].live => /\ call'[c].row = row /\ call'[c].op = op
                       /\ call'[c].phase = "served" /\ call'[c].live /\ ~call'[c].old
                       /\ call'[c].since = watched
  <2> HIDE DEF watched
  <2> QED  BY <1>2, <1>6, <1>8 DEF Call
<1>18. Serving(c, row)
  BY <1>13, <1>16, <1>17 DEF Serving
<1> QED  BY <1>1, <1>2, <1>3, <1>4, <1>15, <1>18

\* The sets of calls once c has been served.
LEMMA ServedSets ==
  ASSUME StoreInv, NEW c \in Active \ Served, NEW row, Serving(c, row)
  PROVE  /\ Served' = IF call[c].live THEN Served \cup {c} ELSE Served
         /\ Since' = IF call[c].live /\ query # Idle /\ query.served THEN Since \cup {c} ELSE Since
         /\ Fresh' = {d \in Fresh : ~Related(call[d].row, call[c].row)}
                       \cup (IF call[c].live THEN {c} ELSE {})
<1>1. \A d \in Active' \ {c} : /\ d \in Active
                               /\ call'[d].phase = call[d].phase /\ call'[d].since = call[d].since
                               /\ call'[d].old <=>
                                    call[d].old \/ (d \in Served /\ Related(call[d].row, call[c].row))
  BY DEF Serving
<1>2. \A d \in Active \ {c} : d \in Active'
  BY DEF Serving
<1>3. c \in Active' <=> call[c].live
  BY DEF Serving
<1>4. Served' = IF call[c].live THEN Served \cup {c} ELSE Served
  <2>1. \A d \in Active \ {c} : d \in Served' <=> d \in Served
    BY <1>1, <1>2 DEF Served, Miss
  <2>2. call[c].live => c \in Served'
    BY <1>3 DEF Serving, Served, Miss
  <2>3. Served' \subseteq Active' /\ Served \subseteq Active
    BY DEF Served
  <2> QED  BY <1>1, <1>3, <2>1, <2>2, <2>3
<1>5. \A d \in Served : d # c /\ d \in Active' /\ d \in Served'
  BY <1>2, <1>4 DEF Served
<1>6. Since' = IF call[c].live /\ query # Idle /\ query.served THEN Since \cup {c} ELSE Since
  <2>1. \A d \in Served : call'[d].since = call[d].since
    BY <1>1, <1>5
  <2>2. call[c].live => call'[c].since = (query # Idle /\ query.served)
    BY DEF Serving
  <2> QED  BY <1>4, <2>1, <2>2 DEF Since
<1>7. Fresh' = {d \in Fresh : ~Related(call[d].row, call[c].row)}
                 \cup (IF call[c].live THEN {c} ELSE {})
  <2>1. \A d \in Served : call'[d].old <=> call[d].old \/ Related(call[d].row, call[c].row)
    BY <1>1, <1>5
  <2>2. call[c].live => ~call'[c].old
    BY DEF Serving
  <2> QED  BY <1>4, <2>1, <2>2 DEF Fresh
<1> QED  BY <1>4, <1>6, <1>7

\* A slot of a list when one more call has been served: nothing is known of the row
\* itself any more, but the identifier of the row that is to come is.
LEMMA SlotServed ==
  ASSUME StoreInv, UNCHANGED kind, kind # "key", NEW c \in Active \ Served, call[c].live, NEW row,
         Effect(call[c].op, call[c].row, row), Accepted(call[c].op, call[c].row), Serving(c, row),
         NEW list, NEW owner, NEW slot, NEW C, C \subseteq Served,
         SlotOf(list, owner, C, slot)
  PROVE  SlotOf(list, owner, C \cup {c}, slot)'
<1>0. PICK new, op, D : new = call[c].row /\ op = call[c].op /\ D = C \cup {c}
  OBVIOUS
<1>1. /\ \A d \in C : /\ d \in Active \ {c} /\ call'[d].row = call[d].row
                      /\ call'[d].old <=> call[d].old \/ Related(call[d].row, new)
      /\ call'[c].row = row /\ ~call'[c].old /\ Like(row, new)
  BY <1>0 DEF Served, Serving, Effect
<1>2. CASE owner # new.owner \/ slot # new.slot
  <2>1. At(D, owner, slot)' = At(C, owner, slot)
    BY <1>0, <1>1, <1>2 DEF At, Like
  <2>2. \A d \in At(C, owner, slot) : /\ call'[d].row = call[d].row
                                      /\ call'[d].old <=> call[d].old
    BY <1>1, <1>2 DEF At, Related
  <2>3. Latest(D, owner, slot)' = Latest(C, owner, slot)
    BY <2>1, <2>2 DEF Latest
  <2>4. Stands(owner, slot)' = Stands(owner, slot)
    <3>1. \A r \in server' \cup server : r.id = new.id => Like(r, new)
      <4>1. \A r \in server : r.id = new.id => Like(r, new)
        BY <1>0, AlikeRows DEF StoreInv, Known, Alike, Like
      <4>2. \A r \in server' : r.id = new.id => Like(r, new)
        BY <1>0 DEF Effect, Like
      <4> QED  BY <4>1, <4>2
    <3>2. \A r : r.id # new.id => (r \in server' <=> r \in server)
      BY <1>0 DEF Effect
    <3> QED  BY <1>2, <3>1, <3>2 DEF Stands, Like
  <2>5. Latest(C, owner, slot) \subseteq At(C, owner, slot)
    BY DEF Latest
  <2>6. Current(D, owner, slot)' = Current(C, owner, slot)
    BY <2>2, <2>3, <2>4, <2>5 DEF Current
  <2>7. Doomed(D, owner, slot)' <=> Doomed(C, owner, slot)
    BY <2>1, <2>2, <2>6 DEF Doomed
  <2>8. SlotOf(list, owner, D, slot)'
    BY <2>3, <2>4, <2>6, <2>7 DEF SlotOf
  <2> QED  BY <1>0, <2>8
<1>3. CASE owner = new.owner /\ slot = new.slot
  <2>1. At(D, owner, slot)' = At(C, owner, slot) \cup {c}
    BY <1>0, <1>1, <1>3 DEF At, Like
  <2>2. \A d \in At(C, owner, slot) : call'[d].row = call[d].row /\ call'[d].old
    BY <1>1, <1>3 DEF At, Related
  <2>3. Latest(D, owner, slot)' = {c}
    BY <1>1, <2>1, <2>2 DEF Latest
  <2>4. Current(D, owner, slot)' = {new.id}
    BY <1>1, <2>3 DEF Current, Like
  <2>5. CASE \E d \in At(C, owner, slot) : call[d].row.id # new.id
    <3>1. Doomed(D, owner, slot)'
      BY <2>1, <2>2, <2>4, <2>5 DEF Doomed
    <3> QED  BY <1>0, <3>1 DEF SlotOf
  <2>6. CASE \A d \in At(C, owner, slot) : call[d].row.id = new.id
    <3>1. Latest(C, owner, slot) \subseteq At(C, owner, slot)
      BY DEF Latest
    <3>2. Latest(C, owner, slot) # {} => Current(C, owner, slot) = {new.id}
      BY <2>6, <3>1 DEF Current
    <3>3. op = "create" => Stands(owner, slot) = {}
      BY <1>0, <1>3 DEF Accepted, Stands
    <3>4. op # "create" => {r.id : r \in Stands(owner, slot)} = {new.id}
      <4>1. SUFFICES ASSUME op # "create"  PROVE {r.id : r \in Stands(owner, slot)} = {new.id}
        OBVIOUS
      <4>2. PICK own \in server : Like(own, new)
        BY <1>0, <4>1 DEF Accepted
      <4>3. own \in Stands(owner, slot)
        BY <1>3, <4>2 DEF Stands, Like
      <4>4. \A r \in Stands(owner, slot) : r = own
        BY <4>3 DEF Stands, StoreInv, IdsInv
      <4> QED  BY <4>2, <4>3, <4>4 DEF Like
    <3>5. ~Doomed(C, owner, slot)
      <4>1. SUFFICES ASSUME NEW d \in At(C, owner, slot),
                            call[d].row.id \notin Current(C, owner, slot)
                     PROVE  FALSE
        BY DEF Doomed
      <4>2. call[d].row.id = new.id /\ d \in Served /\ d \in Active
        BY <2>6, <4>1 DEF At, Served
      <4>3. new.id \in used
        <5>1. ~Unborn(d)
          BY <4>2 DEF Unborn, Served, Miss
        <5> QED  BY <4>2, <5>1 DEF StoreInv, CallsInv
      <4>4. op # "create"
        <5>1. ~Unborn(c)
          BY <1>0, <4>3 DEF StoreInv, CallsInv
        <5>2. call[c].phase = "sent"
          <6>1. call[c] \in Call
            BY CallTypes DEF StoreInv
          <6> QED  BY <6>1 DEF Call, Served, Miss
        <5> QED  BY <1>0, <5>1, <5>2 DEF Unborn
      <4> QED  BY <3>2, <3>4, <4>1, <4>2, <4>4 DEF Current
    <3>6. \A r \in InSlot(list, slot) : r.id = new.id
      <4>1. \A r \in InSlot(list, slot) : r.id \in Current(C, owner, slot)
        BY <3>5 DEF SlotOf
      <4>2. Current(C, owner, slot) \subseteq {new.id}
        BY <3>2, <3>3, <3>4 DEF Current
      <4> QED  BY <4>1, <4>2
    <3>7. SlotOf(list, owner, D, slot)'
      BY <2>3, <2>4, <3>6 DEF SlotOf
    <3> QED  BY <1>0, <3>7
  <2> QED  BY <2>5, <2>6
<1> QED  BY <1>2, <1>3

\* The ssh keys of a list when one more call has been served.
LEMMA KeysServed ==
  ASSUME StoreInv, UNCHANGED kind, kind = "key", NEW c \in Active \ Served, call[c].live, NEW row,
         Effect(call[c].op, call[c].row, row), Accepted(call[c].op, call[c].row), Serving(c, row),
         NEW list, NEW owner, NEW C, C \subseteq Served,
         ToSet(list) \subseteq Known, \A r \in ToSet(list) : r.owner = owner,
         KeysOf(list, owner, C)
  PROVE  KeysOf(list, owner, C \cup {c})'
<1>0. PICK new, op, D : new = call[c].row /\ op = call[c].op /\ D = C \cup {c}
  OBVIOUS
<1>1. /\ \A d \in C : /\ d \in Active \ {c} /\ call'[d].row = call[d].row
                      /\ call'[d].op = call[d].op
                      /\ call'[d].old <=> call[d].old \/ Related(call[d].row, new)
      /\ call'[c].row = row /\ call'[c].op = op /\ ~call'[c].old /\ Like(row, new)
  BY <1>0 DEF Served, Serving, Effect
<1>2. \A r \in Known : r.id = new.id => r.owner = new.owner
  BY <1>0, AlikeRows DEF StoreInv, Alike
<1>3. server \subseteq Known
  BY DEF Known
<1>4. /\ op # "delete" => row \in server'
      /\ \A s \in server' : s.id # new.id => \E r \in server : Like(r, s)
      /\ \A r \in server : r.id # new.id => \E s \in server' : Like(r, s)
  BY <1>0 DEF Effect
<1>5. CASE owner # new.owner
  <2>1. Calling(D, owner)' = Calling(C, owner)
    BY <1>0, <1>1, <1>5 DEF Calling, Like
  <2>2. \A d \in Calling(C, owner) : /\ call'[d].row = call[d].row /\ call'[d].op = call[d].op
                                     /\ call'[d].old <=> call[d].old
    BY <1>1, <1>5 DEF Calling, Related
  <2>3. Created(D, owner)' = Created(C, owner) /\ Created(C, owner) \subseteq Calling(C, owner)
    BY <2>1, <2>2 DEF Created
  <2>4. Of(owner)' = Of(owner)
    BY <1>0, <1>5 DEF Of, Effect
  <2>5. \A r \in ToSet(list) : (\E s \in server : s.id = r.id) => \E s \in server' : s.id = r.id
    BY <1>2, <1>4, <1>5 DEF Like
  <2>6. {call[d].row : d \in Calling(D, owner)}' = {call[d].row : d \in Calling(C, owner)}
    BY <2>1, <2>2
  <2>7. (\A d \in Calling(D, owner) : call[d].op # "delete")'
          <=> \A d \in Calling(C, owner) : call[d].op # "delete"
    BY <2>1, <2>2
  <2>8. (\A d \in Calling(D, owner) : ~call[d].old /\ call[d].op = "create")'
          <=> \A d \in Calling(C, owner) : ~call[d].old /\ call[d].op = "create"
    BY <2>1, <2>2
  <2>9. \A r : (\E d \in Created(D, owner) : call[d].row.id = r.id)'
                 <=> \E d \in Created(C, owner) : call[d].row.id = r.id
    BY <2>2, <2>3
  <2>10. KeysOf(list, owner, D)'
    BY <2>4, <2>5, <2>6, <2>7, <2>8, <2>9 DEF KeysOf
  <2> QED  BY <1>0, <2>10
<1>6. CASE owner = new.owner
  <2>1. Calling(D, owner)' = Calling(C, owner) \cup {c}
    BY <1>0, <1>1, <1>6 DEF Calling, Like
  <2>2. \A d \in Calling(C, owner) : /\ call'[d].row = call[d].row /\ call'[d].op = call[d].op
                                     /\ call'[d].old
    BY <1>1, <1>6 DEF Calling, Related
  <2>3. SUFFICES ASSUME (\A d \in Calling(D, owner) : call[d].op # "delete")'
                 PROVE
                   /\ \A r \in ToSet(list) : \E s \in server' : s.id = r.id
                   /\ \A r \in Of(owner)' : \/ \E s \in ToSet(list) : s.id = r.id
                                            \/ (\E d \in Created(D, owner) : call[d].row.id = r.id)'
                   /\ (\A d \in Calling(D, owner) : ~call[d].old /\ call[d].op = "create")' =>
                        /\ ToSet(list) \subseteq Of(owner)'
                        /\ Of(owner)' \subseteq ToSet(list) \cup
                             {call[d].row : d \in Calling(D, owner)}'
    <3>1. (KeysOf(list, owner, D)') => KeysOf(list, owner, C \cup {c})'
      BY <1>0
    <3> QED  BY <2>3, <3>1 DEF KeysOf
  <2>4. op # "delete" /\ \A d \in Calling(C, owner) : call[d].op # "delete"
    BY <1>1, <2>1, <2>2, <2>3
  <2>5. /\ \A r \in ToSet(list) : \E s \in server : s.id = r.id
        /\ \A r \in Of(owner) : \/ \E s \in ToSet(list) : s.id = r.id
                                \/ \E d \in Created(C, owner) : call[d].row.id = r.id
        /\ (\A d \in Calling(C, owner) : ~call[d].old /\ call[d].op = "create") =>
             /\ ToSet(list) \subseteq Of(owner)
             /\ Of(owner) \subseteq ToSet(list) \cup {call[d].row : d \in Calling(C, owner)}
    BY <2>4 DEF KeysOf
  <2>6. /\ \A d \in Created(C, owner) : d \in Created(D, owner)' /\ call'[d].row = call[d].row
        /\ op = "create" => c \in Created(D, owner)'
    BY <1>1, <2>1, <2>2 DEF Created
  <2>7. \A r \in ToSet(list) : \E s \in server' : s.id = r.id
    BY <1>1, <1>4, <2>4, <2>5 DEF Like
  <2>8. ASSUME NEW r \in Of(owner)'
        PROVE  \/ \E s \in ToSet(list) : s.id = r.id
               \/ (\E d \in Created(D, owner) : call[d].row.id = r.id)'
    <3>1. r \in server' /\ r.owner = owner
      BY DEF Of
    <3>2. CASE r.id = new.id /\ op = "create"
      BY <1>1, <2>6, <3>2 DEF Like
    <3>3. CASE r.id # new.id \/ op # "create"
      <4>1. \E s \in server : Like(s, r)
        <5>1. CASE r.id # new.id
          BY <1>4, <3>1, <5>1
        <5>2. CASE r.id = new.id /\ op # "create"
          <6>1. \E s \in server : Like(s, new)
            BY <1>0, <5>2 DEF Accepted
          <6>2. Like(r, new)
            BY <1>0, <2>4, <3>1, <5>2 DEF Effect, Like
          <6> QED  BY <6>1, <6>2 DEF Like
        <5> QED  BY <3>3, <5>1, <5>2
      <4>2. PICK s \in Of(owner) : s.id = r.id
        BY <3>1, <4>1 DEF Of, Like
      <4> QED  BY <2>5, <2>6, <4>2
    <3> QED  BY <3>2, <3>3
  <2>9. ASSUME (\A d \in Calling(D, owner) : ~call[d].old /\ call[d].op = "create")'
        PROVE  /\ ToSet(list) \subseteq Of(owner)'
               /\ Of(owner)' \subseteq ToSet(list) \cup {call[d].row : d \in Calling(D, owner)}'
    <3>1. op = "create" /\ Calling(C, owner) = {}
      BY <1>1, <2>1, <2>2, <2>9
    <3>2. ToSet(list) = Of(owner)
      BY <2>5, <3>1
    <3>3. Of(owner) \subseteq Of(owner)' /\ Of(owner)' \subseteq Of(owner) \cup {row}
      <4>1. \A r \in server : r.id # new.id
        BY <1>0, <3>1 DEF Accepted
      <4>2. /\ \A r : r.id # new.id => (r \in server' <=> r \in server)
            /\ \A r \in server' : r.id = new.id => r = row
        BY <1>0, <3>1 DEF Effect, Like
      <4> QED  BY <4>1, <4>2 DEF Of
    <3>4. row \in {call[d].row : d \in Calling(D, owner)}'
      BY <1>1, <2>1
    <3> QED  BY <3>2, <3>3, <3>4
  <2> QED  BY <2>7, <2>8, <2>9
<1> QED  BY <1>5, <1>6

\* What a list says when one more call is to be answered.
LEMMA ReflectsServed ==
  ASSUME StoreInv, UNCHANGED kind, NEW c \in Active \ Served, call[c].live, NEW row,
         Effect(call[c].op, call[c].row, row), Accepted(call[c].op, call[c].row), Serving(c, row),
         NEW list, NEW owner, NEW C, C \subseteq Served, ToSet(list) \subseteq Known,
         Reflects(list, owner, C)
  PROVE  Reflects(list, owner, C \cup {c})'
<1>0. PICK D : D = C \cup {c}
  OBVIOUS
<1>1. \A r \in ToSet(list) : r.owner = owner
  BY DEF Reflects
<1>2. kind = "key" => KeysOf(list, owner, D)'
  <2>1. kind = "key" => KeysOf(list, owner, C)
    BY DEF Reflects
  <2> QED  BY <1>0, <1>1, <2>1, KeysServed
<1>3. kind # "key" => \A slot \in Slots : SlotOf(list, owner, D, slot)'
  <2>1. kind # "key" => \A slot \in Slots : SlotOf(list, owner, C, slot)
    BY DEF Reflects
  <2> QED  BY <1>0, <2>1, SlotServed
<1>4. kind = "global" => Finds(list, owner)'
  <2>1. /\ Active' \ Active = {}
        /\ \A d \in Active' \cap Active : /\ call'[d].op = call[d].op
                                          /\ call'[d].row.id = call[d].row.id
                                          /\ call'[d].row.owner = call[d].row.owner
    BY DEF Serving, Effect, Like
  <2>2. kind = "global" => Finds(list, owner)
    BY DEF Reflects
  <2> QED  BY <2>1, <2>2, FindsFrame
<1>5. Reflects(list, owner, D)'
  BY <1>1, <1>2, <1>3, <1>4 DEF Reflects
<1> QED  BY <1>0, <1>5

LEMMA ServeIds ==
  ASSUME StoreInv, UNCHANGED <<kind, cache>>, Asked' = Asked, NEW c \in Active, NEW row,
         used' = used \cup {call[c].row.id},
         Effect(call[c].op, call[c].row, row), Accepted(call[c].op, call[c].row), Serving(c, row)
  PROVE  IdsInv'
<1>0. PICK new, op : new = call[c].row /\ op = call[c].op
  OBVIOUS
<1>1. /\ op # "delete" => row \in server'
      /\ \A s \in server' : s.id # new.id => \E r \in server : Like(r, s)
      /\ \A s \in server' : s.id = new.id => s = row /\ op # "delete"
      /\ Like(row, new)
  BY <1>0 DEF Effect, Like
<1>2. \A s \in Seen' : \E r \in Seen : Like(r, s)
  <2>1. new \in Seen /\ Known \subseteq Seen /\ \A d \in Active : call[d].row \in Seen
    BY <1>0 DEF Seen
  <2>2. \A s \in server' : \E r \in Seen : Like(r, s)
    BY <1>1, <2>1 DEF Like, Known
  <2>3. \A d \in Active' : \E r \in Seen : Like(r, call'[d].row)
    <3>1. SUFFICES ASSUME NEW d \in Active'  PROVE \E r \in Seen : Like(r, call'[d].row)
      OBVIOUS
    <3>2. CASE d = c
      <4>1. call'[d].row = row
        BY <3>2 DEF Serving
      <4> QED  BY <1>1, <2>1, <4>1 DEF Like
    <3>3. CASE d # c
      <4>1. d \in Active /\ call'[d].row = call[d].row
        BY <3>3 DEF Serving
      <4> QED  BY <2>1, <4>1 DEF Like
    <3> QED  BY <3>2, <3>3
  <2>4. ToSet(cache'.rows) \cup Asked' \subseteq Seen
    BY DEF Seen, Known
  <2>5. Seen' = server' \cup (ToSet(cache'.rows) \cup Asked') \cup {call'[d].row : d \in Active'}
    BY DEF Seen, Known
  <2> QED  BY <2>2, <2>3, <2>4, <2>5 DEF Like
<1>3. (\A r, s \in Seen : Alike(r, s))'
  <2>1. \A r, s \in Seen : Alike(r, s)
    BY DEF StoreInv, IdsInv
  <2>2. \A r, s \in Seen' : Alike(r, s)
    <3>1. SUFFICES ASSUME NEW r \in Seen', NEW s \in Seen'  PROVE Alike(r, s)
      OBVIOUS
    <3>2. PICK q, t \in Seen : Like(q, r) /\ Like(t, s)
      BY <1>2
    <3> QED  BY <2>1, <3>2 DEF Alike, Like
  <2> QED  BY <2>2 DEF Alike
<1>4. kind # "key" =>
        \A r, s \in server' : r.owner = s.owner /\ r.slot = s.slot => r = s
  <2>1. SUFFICES ASSUME kind # "key", NEW r \in server', NEW s \in server',
                        r.owner = s.owner, r.slot = s.slot, r # s
                 PROVE  FALSE
    OBVIOUS
  <2>2. \A q \in server' : q.id # new.id => q \in server
    BY <1>0, <2>1 DEF Effect
  <2>3. \A q, t \in server : q.owner = t.owner /\ q.slot = t.slot => q = t
    BY <2>1 DEF StoreInv, IdsInv
  <2>4. \A q \in server' : q.id # new.id => ~(q.owner = new.owner /\ q.slot = new.slot) \/ op = "delete"
    <3>1. SUFFICES ASSUME NEW q \in server', q.id # new.id, q.owner = new.owner, q.slot = new.slot,
                          op # "delete"
                   PROVE  FALSE
      OBVIOUS
    <3>2. op # "create"
      BY <1>0, <2>1, <2>2, <3>1 DEF Accepted
    <3>3. PICK own \in server : Like(own, new)
      BY <1>0, <3>2 DEF Accepted
    <3> QED  BY <2>2, <2>3, <3>1, <3>3 DEF Like
  <2>5. CASE r.id # new.id /\ s.id # new.id
    BY <2>1, <2>2, <2>3, <2>5
  <2>6. CASE r.id = new.id
    BY <1>1, <2>1, <2>4, <2>6 DEF Like
  <2>7. CASE s.id = new.id
    BY <1>1, <2>1, <2>4, <2>7 DEF Like
  <2> QED  BY <2>5, <2>6, <2>7
<1>5. \A r \in Known' : r.id \in used'
  <2>1. \A r \in Known : r.id \in used
    BY DEF StoreInv, IdsInv
  <2>2. \A s \in server' : s.id \in used'
    BY <1>0, <1>1, <2>1 DEF Known, Like
  <2>3. ToSet(cache'.rows) \cup Asked' \subseteq Known
    BY DEF Known
  <2> QED  BY <2>1, <2>2, <2>3 DEF Known
<1>6. kind = "global" => \A i \in used' : \E r \in server' : r.id = i
  <2>1. SUFFICES ASSUME kind = "global", NEW i \in used'  PROVE \E r \in server' : r.id = i
    OBVIOUS
  <2>2. op # "delete"
    BY <1>0, <2>1, CallTypes DEF StoreInv, Offered
  <2>3. CASE i = new.id
    BY <1>1, <2>2, <2>3 DEF Like
  <2>4. CASE i # new.id
    <3>1. PICK r \in server : r.id = i
      BY <1>0, <2>1, <2>4 DEF StoreInv, IdsInv
    <3>2. r \in server'
      BY <1>0, <2>1, <2>4, <3>1 DEF Effect
    <3> QED  BY <3>1, <3>2
  <2> QED  BY <2>3, <2>4
<1> QED  BY <1>3, <1>4, <1>5, <1>6 DEF IdsInv

LEMMA ServeLatest ==
  ASSUME StoreInv, UNCHANGED kind, NEW c \in Active \ Served, NEW row,
         Effect(call[c].op, call[c].row, row), Accepted(call[c].op, call[c].row), Serving(c, row)
  PROVE  LatestInv'
<1>0. PICK new, op : new = call[c].row /\ op = call[c].op
  OBVIOUS
<1>1. /\ \A d \in Fresh' : d # c => /\ d \in Fresh /\ ~Related(call[d].row, new)
                                    /\ call'[d].row = call[d].row /\ call'[d].op = call[d].op
      /\ c \in Fresh' => call'[c].row = row /\ call'[c].op = op
  <2>1. \A d \in Fresh' : d # c => d \in Fresh /\ d \in Active /\ ~Related(call[d].row, new)
    BY <1>0, ServedSets DEF Fresh, Served
  <2>2. c \in Fresh' => call[c].live
    BY ServedSets DEF Fresh
  <2> QED  BY <1>0, <2>1, <2>2 DEF Serving
<1>2. Like(row, new)
  BY <1>0 DEF Effect
<1>3. \A r, s : Related(r, s)' <=> Related(r, s)
  BY DEF Related
<1>4. \A r, s, t : /\ Related(r, s) => Related(s, r)
                   /\ Like(s, t) => (Related(r, s) <=> Related(r, t)) /\ (Related(s, r) <=> Related(t, r))
  BY DEF Related, Like
\* The rows of the calls that stay the latest are out of the way of the new one.
<1>5. ASSUME NEW d \in Fresh', d # c
      PROVE  /\ kind # "key" => \A r : Related(r, call[d].row) /\ r \in server' => r \in server
             /\ call[d].row \in server => call[d].row \in server'
             /\ kind = "key" => call[d].row.owner # new.owner
  <2>1. d \in Fresh /\ ~Related(call[d].row, new) /\ d \in Active
    BY <1>1, <1>5 DEF Fresh, Served
  <2>2. kind = "key" => call[d].row.owner # new.owner
    BY <2>1 DEF Related
  <2>3. call[d].row.id # new.id
    <3>1. Alike(call[d].row, new)
      BY <1>0, <2>1, AlikeRows DEF StoreInv
    <3> QED  BY <2>1, <3>1 DEF Alike, Related
  <2>4. call[d].row \in server => call[d].row \in server'
    BY <1>0, <2>2, <2>3 DEF Effect
  <2>5. kind # "key" => \A r : Related(r, call[d].row) /\ r \in server' => r \in server
    <3>1. SUFFICES ASSUME kind # "key", NEW r \in server', Related(r, call[d].row)  PROVE r \in server
      OBVIOUS
    <3>2. r.id # new.id
      <4>1. SUFFICES ASSUME r.id = new.id  PROVE FALSE
        OBVIOUS
      <4>2. Like(r, new)
        BY <1>0, <4>1 DEF Effect, Like
      <4> QED  BY <1>4, <2>1, <3>1, <4>2
    <3> QED  BY <1>0, <3>1, <3>2 DEF Effect
  <2> QED  BY <2>2, <2>4, <2>5
<1>6. (\A d, e \in Fresh : Related(call[d].row, call[e].row) => d = e)'
  <2>1. SUFFICES ASSUME NEW d \in Fresh', NEW e \in Fresh', Related(call'[d].row, call'[e].row)
                 PROVE  d = e
    BY <1>3
  <2>2. CASE d # c /\ e # c
    BY <1>1, <2>1, <2>2 DEF StoreInv, LatestInv
  <2>3. CASE d = c /\ e # c
    BY <1>1, <1>2, <1>4, <2>1, <2>3
  <2>4. CASE d # c /\ e = c
    BY <1>1, <1>2, <1>4, <2>1, <2>4
  <2> QED  BY <2>2, <2>3, <2>4
<1>7. (\A d \in Fresh : call[d].op # "delete" => call[d].row \in server)'
  <2>1. SUFFICES ASSUME NEW d \in Fresh', call'[d].op # "delete"  PROVE call'[d].row \in server'
    OBVIOUS
  <2>2. CASE d = c
    BY <1>0, <1>1, <2>1, <2>2 DEF Effect
  <2>3. CASE d # c
    <3>1. call[d].row \in server
      BY <1>1, <2>1, <2>3 DEF StoreInv, LatestInv
    <3> QED  BY <1>1, <1>5, <2>3, <3>1
  <2> QED  BY <2>2, <2>3
<1>8. (kind # "key" => \A d \in Fresh : call[d].op = "delete" =>
         \A r \in server : ~Related(r, call[d].row))'
  <2>1. SUFFICES ASSUME kind # "key", NEW d \in Fresh', call'[d].op = "delete", NEW r \in server',
                        Related(r, call'[d].row)
                 PROVE  FALSE
    BY <1>3
  <2>2. CASE d = c
    <3>1. op = "delete" /\ Related(r, new)
      BY <1>1, <1>2, <1>4, <2>1, <2>2
    <3>2. r.id # new.id /\ r \in server
      BY <1>0, <2>1, <3>1 DEF Effect
    <3>3. PICK own \in server : Like(own, new)
      BY <1>0, <3>1 DEF Accepted
    <3>4. r = own
      BY <2>1, <3>1, <3>2, <3>3 DEF StoreInv, IdsInv, Related, Like
    <3> QED  BY <3>2, <3>3, <3>4 DEF Like
  <2>3. CASE d # c
    <3>1. Related(r, call[d].row) /\ d \in Fresh /\ call[d].op = "delete"
      BY <1>1, <2>1, <2>3
    <3>2. r \in server
      BY <1>5, <2>1, <2>3, <3>1
    <3> QED  BY <2>1, <3>1, <3>2 DEF StoreInv, LatestInv
  <2> QED  BY <2>2, <2>3
<1>9. (kind = "key" => \A d \in Fresh : call[d].op = "update" =>
         \A r \in Of(call[d].row.owner) : r.value = IF r.id = call[d].row.id THEN 1 ELSE 0)'
  <2>1. SUFFICES ASSUME kind = "key", NEW d \in Fresh', call'[d].op = "update",
                        NEW r \in server', r.owner = call'[d].row.owner
                 PROVE  r.value = IF r.id = call'[d].row.id THEN 1 ELSE 0
    BY DEF Of
  <2>2. CASE d = c
    BY <1>0, <1>1, <1>2, <2>1, <2>2 DEF Effect, Like
  <2>3. CASE d # c
    <3>1. r.owner # new.owner /\ call'[d].row = call[d].row /\ d \in Fresh /\ call[d].op = "update"
      BY <1>1, <1>5, <2>1, <2>3
    <3>2. r \in Of(call[d].row.owner)
      BY <1>0, <2>1, <3>1 DEF Effect, Of
    <3> QED  BY <2>1, <3>1, <3>2 DEF StoreInv, LatestInv
  <2> QED  BY <2>2, <2>3
<1> QED  BY <1>6, <1>7, <1>8, <1>9 DEF LatestInv

LEMMA ServeStep ==
  ASSUME StoreInv, NEW c \in Calls, Serve(c)
  PROVE  StoreInv'
<1>0. PICK new, op : op = call[c].op /\ new = call[c].row
  OBVIOUS
<1>1. /\ used' = used \cup {new.id}
      /\ raced' = IF call[c].live THEN raced ELSE raced \cup {"lost"}
      /\ query' = IF ~call[c].live /\ (query # Idle /\ query.served)
                  THEN [query EXCEPT !.missed = TRUE] ELSE query
      /\ UNCHANGED <<kind, cache, view, made>>
  BY <1>0 DEF Serve
<1>2. /\ c \in Active \ Served /\ call[c].phase = "sent" /\ new \in Row /\ Accepted(op, new)
      /\ call' \in [Calls -> Call \cup {Idle}]
  BY <1>0, ServeCalls
<1>3. PICK row : Effect(op, new, row) /\ Serving(c, row)
  BY <1>0, ServeCalls
<1>4. /\ query' \in Query \cup {Idle} /\ (query' # Idle <=> query # Idle)
      /\ query' # Idle => query'.rows = query.rows /\ query'.served = query.served
      /\ query # Idle /\ query.served /\ ~call[c].live => query'.missed
  <2>1. CASE ~call[c].live /\ query # Idle /\ query.served
    <3>1. query \in Query
      BY <2>1, CallTypes DEF StoreInv
    <3>2. /\ query' \in Query /\ query'.rows = query.rows /\ query'.served = query.served
          /\ query'.missed
      BY <1>1, <2>1, <3>1 DEF Query
    <3> QED  BY <2>1, <3>2, NoDataAssumption
  <2>2. CASE ~(~call[c].live /\ query # Idle /\ query.served)
    BY <1>1, <2>2 DEF StoreInv, TypeOK
  <2> QED  BY <2>1, <2>2
<1>5. Asked' = Asked
  BY <1>4 DEF Asked
<1>6. /\ Served' = IF call[c].live THEN Served \cup {c} ELSE Served
      /\ Since' = IF call[c].live /\ query # Idle /\ query.served THEN Since \cup {c} ELSE Since
      /\ Fresh' = {d \in Fresh : ~Related(call[d].row, new)}
                    \cup (IF call[c].live THEN {c} ELSE {})
  BY <1>0, <1>2, <1>3, ServedSets
<1>7. \A d \in Active' : /\ d \in Active /\ call'[d].op = call[d].op
                         /\ call'[d].row.id = call[d].row.id
                         /\ d # c => /\ call'[d].row = call[d].row
                                     /\ call'[d].phase = call[d].phase
                                     /\ call'[d].live = call[d].live
                                     /\ call'[d].since = call[d].since
                                     /\ call'[d].old => call[d].old \/ d \in Served
  <2>1. row.id = new.id
    BY <1>3 DEF Effect, Like
  <2> QED  BY <1>0, <1>2, <1>3, <2>1 DEF Serving
<1>8. c \in Active' => /\ call[c].live /\ call'[c].row = row /\ call'[c].phase = "served"
                       /\ call'[c].live /\ ~call'[c].old
                       /\ call'[c].since = (query # Idle /\ query.served)
  BY <1>3 DEF Serving
<1>9. TypeOK'
  <2>1. server' \subseteq Row /\ \A r, s \in server' : r.id = s.id => r = s
    BY <1>3 DEF Effect
  <2>2. used' \subseteq Ids /\ used \subseteq used'
    BY <1>1, <1>2 DEF StoreInv, TypeOK, Row
  <2>3. \A d \in Calls : call'[d] # Idle => call'[d].op \in Offered
    <3>1. \A d \in Active' : call'[d].op \in Offered
      BY <1>7, CallTypes DEF StoreInv
    <3> QED  BY <3>1 DEF Active
  <2>4. raced' \subseteq {"lost", "overtaken", "foreign", "reordered"}
    BY <1>1 DEF StoreInv, TypeOK
  <2> QED  BY <1>1, <1>2, <1>4, <2>1, <2>2, <2>3, <2>4 DEF StoreInv, TypeOK, Offered
<1>10. IdsInv'
  BY <1>0, <1>1, <1>2, <1>3, <1>5, ServeIds
<1>11. CallsInv'
  <2>1. (\A d \in Served : call[d].live)'
    <3>1. SUFFICES ASSUME NEW d \in Served'  PROVE call'[d].live
      OBVIOUS
    <3>2. CASE d = c
      BY <1>8, <3>2 DEF Served
    <3>3. CASE d # c
      <4>1. d \in Served /\ d \in Active'
        BY <1>6, <3>3 DEF Served
      <4> QED  BY <1>7, <3>3, <4>1 DEF StoreInv, CallsInv
    <3> QED  BY <3>2, <3>3
  <2>2. \A d \in Active' : Unborn(d)' <=> Unborn(d) /\ d # c
    BY <1>7, <1>8 DEF Unborn
  <2>3. op = "create" <=> new.id \notin used
    BY <1>0, <1>2 DEF StoreInv, CallsInv, Unborn
  <2>4. \A d \in Active : Unborn(d) /\ d # c => call[d].row.id # new.id
    BY <1>0, <1>2 DEF StoreInv, CallsInv
  <2>5. (\A d \in Active : Unborn(d) <=> call[d].row.id \notin used)'
    <3>1. SUFFICES ASSUME NEW d \in Active'  PROVE Unborn(d)' <=> call'[d].row.id \notin used'
      OBVIOUS
    <3>2. d \in Active /\ call'[d].row.id = call[d].row.id
      BY <1>7
    <3>3. Unborn(d) <=> call[d].row.id \notin used
      BY <3>2 DEF StoreInv, CallsInv
    <3> QED  BY <1>0, <1>1, <2>2, <2>4, <3>2, <3>3
  <2>6. (\A d, e \in Active : Unborn(d) /\ d # e => call[d].row.id # call[e].row.id)'
    <3>1. \A d, e \in Active : Unborn(d) /\ d # e => call[d].row.id # call[e].row.id
      BY DEF StoreInv, CallsInv
    <3> QED  BY <1>7, <2>2, <3>1
  <2>7. (\A d \in Active : call[d].since => d \in Served /\ (query # Idle => query.served))'
    <3>1. SUFFICES ASSUME NEW d \in Active', call'[d].since
                   PROVE  d \in Served' /\ (query' # Idle => query'.served)
      OBVIOUS
    <3>2. CASE d = c
      BY <1>4, <1>6, <1>8, <3>1, <3>2
    <3>3. CASE d # c
      <4>1. d \in Active /\ call[d].since
        BY <1>7, <3>1, <3>3
      <4>2. d \in Served /\ (query # Idle => query.served)
        BY <4>1 DEF StoreInv, CallsInv
      <4> QED  BY <1>4, <1>6, <4>2
    <3> QED  BY <3>2, <3>3
  <2>8. (\A d \in Active : call[d].old => d \in Served)'
    <3>1. SUFFICES ASSUME NEW d \in Active', call'[d].old  PROVE d \in Served'
      OBVIOUS
    <3>2. d # c /\ d \in Active /\ (call[d].old \/ d \in Served)
      BY <1>7, <1>8, <3>1
    <3>3. d \in Served
      BY <3>2 DEF StoreInv, CallsInv
    <3> QED  BY <1>6, <3>3
  <2> QED  BY <2>1, <2>5, <2>6, <2>7, <2>8 DEF CallsInv
<1>12. LatestInv'
  BY <1>0, <1>1, <1>2, <1>3, ServeLatest
<1>13. CacheInv'
  <2>1. SUFFICES ASSUME raced' = {}, cache.of # None
                 PROVE  Reflects(cache.rows, cache.of, Served)'
    BY <1>1 DEF CacheInv
  <2>2. call[c].live /\ raced = {}
    BY <1>1, <2>1
  <2>3. PICK list, owner, C, D : /\ list = cache.rows /\ owner = cache.of
                                 /\ C = Served /\ D = C \cup {c}
    OBVIOUS
  <2>4. Reflects(list, owner, C) /\ ToSet(list) \subseteq Known /\ C \subseteq Served
    BY <2>1, <2>2, <2>3 DEF StoreInv, CacheInv, Known
  <2>5. Reflects(list, owner, D)'
    BY <1>0, <1>1, <1>2, <1>3, <2>2, <2>3, <2>4, ReflectsServed
  <2>6. list = cache'.rows /\ owner = cache'.of /\ D = Served'
    BY <1>1, <1>6, <2>2, <2>3
  <2> QED  BY <2>5, <2>6
<1>14. QueryInv'
  <2>1. SUFFICES ASSUME query' # Idle, query'.served, ~query'.missed
                 PROVE  /\ Reflects(query.rows, query.owner, Since)'
                        /\ (\A d \in Since \ Fresh :
                              \E e \in Since \cap Fresh : Related(call[e].row, call[d].row))'
    BY DEF QueryInv
  <2>2. query # Idle /\ query.served /\ call[c].live
    BY <1>4, <2>1
  <2>3. query' = query
    BY <1>1, <2>2
  <2>4. /\ Reflects(query.rows, query.owner, Since)
        /\ \A d \in Since \ Fresh : \E e \in Since \cap Fresh : Related(call[e].row, call[d].row)
    BY <2>1, <2>2, <2>3 DEF StoreInv, QueryInv
  <2>5. Since' = Since \cup {c} /\ c \in Fresh'
    BY <1>6, <2>2
  <2>6. Reflects(query.rows, query.owner, Since)'
    <3>1. PICK list, owner, C, D : /\ list = query.rows /\ owner = query.owner
                                   /\ C = Since /\ D = C \cup {c}
      OBVIOUS
    <3>2. Reflects(list, owner, C) /\ ToSet(list) \subseteq Known /\ C \subseteq Served
      BY <2>2, <2>4, <3>1 DEF Known, Asked, Since
    <3>3. Reflects(list, owner, D)'
      BY <1>0, <1>1, <1>2, <1>3, <2>2, <3>1, <3>2, ReflectsServed
    <3>4. list = query'.rows /\ owner = query'.owner /\ D = Since'
      BY <2>3, <2>5, <3>1
    <3> QED  BY <3>3, <3>4
  <2>7. \A r, s : Related(r, s)' <=> Related(r, s)
    BY <1>1 DEF Related
  <2>8. /\ \A d \in Since : d # c /\ call'[d].row = call[d].row
        /\ call'[c].row = row /\ Like(row, new)
    <3>1. Since \subseteq Active \ {c}
      BY <1>2 DEF Since, Served
    <3> QED  BY <1>0, <1>3, <2>2, <3>1 DEF Serving, Effect
  <2>9. (\A d \in Since \ Fresh : \E e \in Since \cap Fresh : Related(call[e].row, call[d].row))'
    <3>1. SUFFICES ASSUME NEW d \in Since' \ Fresh'
                   PROVE  \E e \in Since' \cap Fresh' : Related(call'[e].row, call'[d].row)
      BY <2>7
    <3>2. d \in Since
      BY <2>5
    <3>3. CASE Related(call[d].row, new)
      <4>1. Related(row, call[d].row)
        BY <2>8, <3>3 DEF Related, Like
      <4> QED  BY <2>5, <2>8, <3>2, <4>1
    <3>4. CASE ~Related(call[d].row, new)
      <4>1. d \notin Fresh
        BY <1>6, <3>1, <3>4
      <4>2. PICK e \in Since \cap Fresh : Related(call[e].row, call[d].row)
        BY <2>4, <3>2, <4>1
      <4>3. ~Related(call[e].row, new)
        BY <3>4, <4>2 DEF Related
      <4>4. e \in Since' \cap Fresh'
        BY <1>6, <2>5, <4>2, <4>3
      <4> QED  BY <2>8, <3>2, <4>2, <4>4
    <3> QED  BY <3>3, <3>4
  <2> QED  BY <2>6, <2>9
<1> QED  BY <1>9, <1>10, <1>11, <1>12, <1>13, <1>14 DEF StoreInv
-----------------------------------------------------------------------------
(***************************************************************************)
(* The invariant of every behaviour, and what it says of the pages.        *)
(***************************************************************************)
LEMMA StoreInit == Init => StoreInv
<1> SUFFICES ASSUME Init  PROVE StoreInv
  OBVIOUS
<1>1. /\ kind \in Kinds /\ server = {} /\ used = {} /\ view \in Owners /\ query = Idle
      /\ cache = [of |-> None, rows |-> <<>>] /\ call = [c \in Calls |-> Idle]
      /\ made = 0 /\ raced = {}
  BY DEF Init
<1>2. ToSet(cache.rows) = {} /\ cache \in Cache
  BY <1>1 DEF ToSet, Cache
<1>3. TypeOK
  BY <1>1, <1>2, StoreAssumption DEF TypeOK
<1>4. Active = {} /\ Served = {} /\ Since = {} /\ Fresh = {} /\ Known = {} /\ Seen = {}
  BY <1>1, <1>2 DEF Active, Served, Since, Fresh, Known, Seen, Asked
<1>5. IdsInv /\ CallsInv /\ LatestInv
  BY <1>1, <1>4 DEF IdsInv, CallsInv, LatestInv
<1>6. CacheInv /\ QueryInv
  BY <1>1 DEF CacheInv, QueryInv
<1> QED  BY <1>3, <1>5, <1>6 DEF StoreInv

LEMMA StoreNext == StoreInv /\ [Next]_vars => StoreInv'
<1> SUFFICES ASSUME StoreInv, [Next]_vars  PROVE StoreInv'
  OBVIOUS
<1>1. ASSUME NEW owner \in Owners, Navigate(owner)  PROVE StoreInv'
  BY <1>1, SameStep DEF Navigate
<1>2. CASE Ask
  BY <1>2, AskStep
<1>3. CASE ServeQuery
  BY <1>3, ServeQueryStep
<1>4. CASE AnswerQuery
  BY <1>4, AnswerQueryStep
<1>5. ASSUME NEW c \in Calls, UserStep(c)  PROVE StoreInv'
  BY <1>5, CreateStep, ChangeStep DEF UserStep
<1>6. ASSUME NEW c \in Calls, Serve(c)  PROVE StoreInv'
  BY <1>6, ServeStep
<1>7. ASSUME NEW c \in Calls, Fail(c)  PROVE StoreInv'
  BY <1>7, FailStep
<1>8. ASSUME NEW c \in Calls, Answer(c)  PROVE StoreInv'
  BY <1>8, AnswerStep
<1>9. CASE UNCHANGED vars
  BY <1>9, SameStep DEF vars, StoreInv, TypeOK
<1> QED  BY <1>1, <1>2, <1>3, <1>4, <1>5, <1>6, <1>7, <1>8, <1>9 DEF Next

\* With nothing on its way, what the page makes of the list is what the data base holds.
LEMMA QuietPage == StoreInv => ShownIsStored
<1>1. SUFFICES ASSUME StoreInv, Quiet, raced = {}  PROVE Display(cache.rows) = Of(view)
  BY DEF ShownIsStored
<1>2. PICK list : list = cache.rows
  OBVIOUS
<1>3. cache.of = view /\ view # None /\ list \in Seq(Row)
  BY <1>1, <1>2, NoDataAssumption, CallTypes DEF Quiet, Ready, StoreInv, TypeOK
<1>4. Active = {} /\ Served = {}
  BY <1>1 DEF Quiet, Active, Served
<1>5. Reflects(list, view, {})
  BY <1>1, <1>2, <1>3, <1>4 DEF StoreInv, CacheInv
<1>6. \A row \in ToSet(list) : row.owner = view
  BY <1>5 DEF Reflects
<1>7. server \subseteq Row
  BY <1>1 DEF StoreInv, TypeOK
<1>8. CASE kind = "key"
  <2>1. KeysOf(list, view, {}) /\ Calling({}, view) = {}
    BY <1>5, <1>8 DEF Reflects, Calling
  <2>2. ToSet(list) = Of(view)
    BY <2>1 DEF KeysOf
  <2> QED  BY <1>2, <1>8, <2>2 DEF Display
<1>9. CASE kind # "key"
  <2>1. \A slot \in Slots : Holds(kind, list, slot) = Stands(view, slot)
    <3>1. SUFFICES ASSUME NEW slot \in Slots  PROVE Holds(kind, list, slot) = Stands(view, slot)
      OBVIOUS
    <3>2. SlotOf(list, view, {}, slot)
      BY <1>5, <1>9 DEF Reflects
    <3>3. At({}, view, slot) = {} /\ Latest({}, view, slot) = {}
      BY DEF At, Latest
    <3> QED  BY <3>2, <3>3 DEF SlotOf, Doomed
  <2>2. Of(view) = UNION {Stands(view, slot) : slot \in Slots}
    BY <1>7 DEF Of, Stands, Row
  <2>3. CASE kind = "global"
    <3>1. ToSet(list) \subseteq Row
      BY <1>3 DEF ToSet
    <3>2. ToSet(list) = UNION {InSlot(list, slot) : slot \in Slots}
      BY <3>1 DEF InSlot, Row
    <3>3. \A slot \in Slots : InSlot(list, slot) = Stands(view, slot)
      BY <2>1, <2>3 DEF Holds
    <3> QED  BY <1>2, <2>2, <2>3, <3>2, <3>3 DEF Display
  <2>4. CASE kind # "global"
    <3>1. \A slot \in Slots : Shown(list, slot) = Top(kind, list, slot)
      <4>1. SUFFICES ASSUME NEW slot \in Slots  PROVE Shown(list, slot) = Top(kind, list, slot)
        OBVIOUS
      <4>2. Matching(list, slot) = Places(list, slot)
        BY <1>6 DEF Matching, Places, ToSet
      <4> QED  BY <4>2 DEF Shown, Top, Tops, Before
    <3>2. \A slot \in Slots : Shown(list, slot) = Stands(view, slot)
      BY <2>1, <2>4, <3>1 DEF Holds
    <3> QED  BY <1>2, <1>9, <2>2, <2>4, <3>2 DEF Display
  <2> QED  BY <2>3, <2>4
<1> QED  BY <1>8, <1>9

\* Whatever the order in which requests are sent, cancelled, served and answered, the
\* restapi store holds only rows with an identifier that the data base gave out, and
\* no two rows of the data base share one: reducer.ts patches the lists with rows of
\* answers only.
THEOREM TypesHold == Spec => []TypeOK
<1>1. StoreInv => TypeOK
  BY DEF StoreInv
<1> QED  BY <1>1, StoreInit, StoreNext, PTL DEF Spec

\* The lists that reducer.ts patches by hand, read the way the pages read them, amount
\* to a list just loaded once every answer is in, for any number of owners, slots,
\* identifiers and requests on their way; only the races that raced records are excepted.
THEOREM PatchedListsAreFresh == Spec => []ShownIsStored
<1> QED  BY StoreInit, StoreNext, QuietPage, PTL DEF Spec
=============================================================================
