------------------------------ MODULE ToolProofs ------------------------------
(***************************************************************************)
(* What the topology files of the two tools promise, for any map, any      *)
(* snapshot and any setting of the tools' options.                         *)
(***************************************************************************)
EXTENDS MCTools, FiniteSetTheorems, FunctionTheorems, SequenceTheorems,
        WellFoundedInduction, TLAPS

-----------------------------------------------------------------------------
(* fetch_topology: sorting                                                 *)

\* The order of the sort: i is not behind j.
NotBehind(s, i, j) ==
    \/ s[i].count > s[j].count
    \/ s[i].count = s[j].count /\ i <= j

UpTo(s, i) == {j \in DOMAIN s : NotBehind(s, j, i)}

CountsAreInts(s) == \A i \in DOMAIN s : s[i].count \in Int

\* Sorted(s) gives each place of s a rank of its own.
LEMMA RanksDiffer ==
    ASSUME NEW n \in Nat, NEW s, DOMAIN s = 1 .. n, CountsAreInts(s)
    PROVE  [i \in 1 .. n |-> Cardinality(UpTo(s, i))] \in Bijection(1 .. n, 1 .. n)
<1> DEFINE rank == [i \in 1 .. n |-> Cardinality(UpTo(s, i))]
<1>1. IsFiniteSet(1 .. n) /\ Cardinality(1 .. n) = n BY FS_Interval
<1>2. ASSUME NEW i \in 1 .. n
      PROVE  IsFiniteSet(UpTo(s, i)) /\ Cardinality(UpTo(s, i)) \in 1 .. n
  <2>1. UpTo(s, i) \in SUBSET (1 .. n) /\ i \in UpTo(s, i) BY DEF UpTo, NotBehind, CountsAreInts
  <2>2. IsFiniteSet(UpTo(s, i)) /\ Cardinality(UpTo(s, i)) <= n
        BY <1>1, <2>1, FS_Subset
  <2>3. Cardinality(UpTo(s, i)) \in Nat /\ Cardinality(UpTo(s, i)) # 0
        BY <2>1, <2>2, FS_CardinalityType, FS_EmptySet
  <2> QED BY <2>2, <2>3
<1>3. ASSUME NEW i \in 1 .. n, NEW j \in 1 .. n, i # j, NotBehind(s, i, j)
      PROVE  Cardinality(UpTo(s, i)) # Cardinality(UpTo(s, j))
  <2>1. UpTo(s, i) \in SUBSET UpTo(s, j) BY <1>3 DEF UpTo, NotBehind, CountsAreInts
  <2>2. j \in UpTo(s, j) /\ j \notin UpTo(s, i) BY <1>3 DEF UpTo, NotBehind, CountsAreInts
  <2> QED BY <1>2, <2>1, <2>2, FS_Subset
<1>4. \A i, j \in 1 .. n : NotBehind(s, i, j) \/ NotBehind(s, j, i)
      BY DEF NotBehind, CountsAreInts
<1>5. rank \in [1 .. n -> 1 .. n] BY <1>2
<1>6. \A i, j \in 1 .. n : rank[i] = rank[j] => i = j
  <2> SUFFICES ASSUME NEW i \in 1 .. n, NEW j \in 1 .. n, rank[i] = rank[j], i # j
               PROVE  FALSE
      OBVIOUS
  <2>1. Cardinality(UpTo(s, i)) = Cardinality(UpTo(s, j)) OBVIOUS
  <2> QED BY <2>1, <1>3, <1>4
<1> HIDE DEF rank
<1>7. rank \in Injection(1 .. n, 1 .. n) BY <1>5, <1>6, Fun_IsInj
<1>8. rank \in Surjection(1 .. n, 1 .. n) BY <1>1, <1>7, FS_Injection
<1>9. rank \in Bijection(1 .. n, 1 .. n) BY <1>7, <1>8 DEF Bijection
<1> QED BY <1>9 DEF rank

\* So the sorted list has the entries of s, each at one place.
LEMMA SortedIs ==
    ASSUME NEW n \in Nat, NEW s, DOMAIN s = 1 .. n, CountsAreInts(s)
    PROVE  /\ DOMAIN Sorted(s) = 1 .. n
           /\ \E at \in [1 .. n -> 1 .. n] :
                /\ \A k \in 1 .. n : Sorted(s)[k] = s[at[k]]
                /\ \A j, k \in 1 .. n : j # k => at[j] # at[k]
<1> DEFINE rank == [i \in 1 .. n |-> Cardinality(UpTo(s, i))]
           place(i) == Cardinality({j \in DOMAIN s :
                                      \/ s[j].count > s[i].count
                                      \/ s[j].count = s[i].count /\ j <= i})
           at == [k \in DOMAIN s |-> CHOOSE i \in DOMAIN s : place(i) = k]
<1>1. rank \in Bijection(1 .. n, 1 .. n) BY RanksDiffer
<1>2. \A i \in 1 .. n : rank[i] = place(i) BY DEF UpTo, NotBehind
<1>3. Sorted(s) = [k \in DOMAIN s |-> s[CHOOSE i \in DOMAIN s : place(i) = k]]
      BY DEF Sorted
<1> HIDE DEF rank, place
<1>4. \A k \in 1 .. n : \E i \in 1 .. n : place(i) = k
      BY <1>1, <1>2 DEF Bijection, Surjection
<1>5. \A k \in 1 .. n : at[k] \in 1 .. n /\ place(at[k]) = k BY <1>4
<1>6. \A k \in 1 .. n : Sorted(s)[k] = s[at[k]] BY <1>3
<1>7. DOMAIN Sorted(s) = 1 .. n BY <1>3
<1>8. at \in [1 .. n -> 1 .. n] BY <1>5
<1>9. \A j, k \in 1 .. n : j # k => at[j] # at[k] BY <1>5
<1> HIDE DEF at
<1> QED BY <1>6, <1>7, <1>8, <1>9

-----------------------------------------------------------------------------
(* fetch_topology: rounding                                                *)

LEMMA DivMod ==
    ASSUME NEW n \in Int, NEW k \in Nat \ {0},
           NEW q \in Int, q = n \div k, NEW r \in Int, r = n % k
    PROVE  n = k * q + r /\ r \in 0 .. (k - 1)
OBVIOUS

\* A place lies at most half a cell from the middle of its cell.
LEMMA KeyIsNear ==
    ASSUME NEW x \in Int, FetchAssumption
    PROVE  /\ CoordKey(x) \in Int
           /\ 2 * (Cell * CoordKey(x)) - Cell <= 2 * x
           /\ 2 * x <= 2 * (Cell * CoordKey(x)) + Cell
<1> DEFINE n == 2 * x + Cell
           w == 2 * Cell
           k == n \div w
           r == n % w
<1>1. Cell \in Nat /\ Cell >= 1 BY DEF FetchAssumption
<1>2. n \in Int /\ w \in Nat \ {0} BY <1>1
<1>3. k \in Int /\ r \in Int BY <1>2
<1>4. n = w * k + r /\ r \in 0 .. (w - 1) BY <1>2, <1>3, DivMod
<1>5. CoordKey(x) = IF r = 0 /\ k % 2 = 1 THEN k - 1 ELSE k BY DEF CoordKey
<1> HIDE DEF k, r
<1>6. w * k = 2 * (Cell * k) /\ Cell * k \in Int BY <1>1, <1>3
<1>7. 2 * x + Cell = 2 * (Cell * k) + r /\ 0 <= r /\ r < 2 * Cell BY <1>1, <1>4, <1>6
<1>8. CASE r = 0 /\ k % 2 = 1
  <2>1. CoordKey(x) = k - 1 BY <1>5, <1>8
  <2>2. Cell * (k - 1) = Cell * k - Cell BY <1>1, <1>3
  <2> QED BY <1>1, <1>3, <1>6, <1>7, <1>8, <2>1, <2>2
<1>9. CASE ~ (r = 0 /\ k % 2 = 1)
  <2>1. CoordKey(x) = k BY <1>5, <1>9
  <2> QED BY <1>1, <1>3, <1>6, <1>7, <2>1
<1> QED BY <1>8, <1>9

\* So two places of one cell are at most its width apart.
LEMMA OneCell ==
    ASSUME NEW x \in Int, NEW y \in Int, FetchAssumption, CoordKey(x) = CoordKey(y)
    PROVE  Gap(x, y) <= Cell
<1> DEFINE m == Cell * CoordKey(x)
<1>1. Cell \in Nat BY DEF FetchAssumption
<1>2. m \in Int /\ 2 * m - Cell <= 2 * x /\ 2 * x <= 2 * m + Cell
      BY <1>1, KeyIsNear
<1>3. 2 * m - Cell <= 2 * y /\ 2 * y <= 2 * m + Cell BY KeyIsNear
<1> HIDE DEF m
<1> QED BY <1>1, <1>2, <1>3 DEF Gap

-----------------------------------------------------------------------------
(* fetch_topology: links                                                   *)

Fix == [id : Devices, at : Places]
HistoryEdge == [a : Places, b : Places, count : Counts]
Link == [a : Devices, b : Devices, count : Counts]

\* What is known of an edge when it is added, F being the nodes and H the
\* history read.
ClosestIn(F, d, x) ==
    \E i \in DOMAIN F :
        /\ F[i].id = d /\ Gap(x, F[i].at) < Tolerance
        /\ \A j \in DOMAIN F : Gap(x, F[i].at) <= Gap(x, F[j].at) + Cell

Witness(F, e, h) ==
    /\ h.count = e.count /\ h.count >= MinCount
    /\ Gap(h.a, h.b) <= MaxDistance
    /\ ClosestIn(F, e.a, h.a) /\ ClosestIn(F, e.b, h.b)

Witnessed(F, H, e) == \E i \in DOMAIN H : Witness(F, e, H[i])

Pair(e) == {e.a, e.b}

OnePerPair == \A i, j \in DOMAIN edges : i # j => Pair(edges[i]) # Pair(edges[j])

\* The key of a cell finds a device that stands there.
Keyed(F, E) == \A k \in DOMAIN E : \E i \in DOMAIN F : F[i].id = E[k] /\ CoordKey(F[i].at) = k

\* The two indices hold devices where they stand, devices are read before
\* edges, and a pair with a link is a pair seen.
FetchInv ==
    /\ fixes \in Seq(Fix)
    /\ Keyed(fixes, exact)
    /\ history \in Seq(HistoryEdge) /\ edges \in Seq(Link)
    /\ fStep = "devices" => edges = <<>>
    /\ \A i \in DOMAIN edges : Pair(edges[i]) \in pairs
    /\ \A i \in DOMAIN edges : Witnessed(fixes, history, edges[i])
    /\ OnePerPair

LEMMA FetchInvShows == FetchInv => LinksWitnessed
<1> SUFFICES ASSUME FetchInv PROVE LinksWitnessed OBVIOUS
<1>1. ASSUME NEW e \in Range(edges)
      PROVE  \E h \in Range(history) : Witness(fixes, e, h)
      BY DEF FetchInv, Range, Witnessed
<1>2. \A i, j \in DOMAIN edges : i # j => Pair(edges[i]) # Pair(edges[j])
      BY DEF FetchInv, OnePerPair
<1> QED BY <1>1, <1>2 DEF LinksWitnessed, CloseTo, ClosestIn, Witness, Pair

\* The device an end resolves to, if any, is the closest there is up to
\* a cell.
LEMMA ResolvedIsClosest ==
    ASSUME FetchInv, NEW x \in Places, Resolve(x) # NoDevice
    PROVE  Resolve(x) \in Devices /\ ClosestIn(fixes, Resolve(x), x)
<1> USE FetchAssumption
<1>1. DOMAIN fixes = 1 .. Len(fixes) /\ \A i \in DOMAIN fixes : fixes[i] \in Fix
      BY DEF FetchInv
<1>2. \A i \in DOMAIN fixes : fixes[i].id \in Devices /\ fixes[i].at \in Int
      BY <1>1 DEF Fix
<1>3. \A i \in DOMAIN fixes : Gap(x, fixes[i].at) \in Nat
  <2>1. x \in Int OBVIOUS
  <2> QED BY <1>2, <2>1 DEF Gap
<1> DEFINE k == CoordKey(x)
<1>4. CASE k \in DOMAIN exact
  <2>1. PICK i \in DOMAIN fixes : fixes[i].id = exact[k] /\ CoordKey(fixes[i].at) = k
        BY <1>4 DEF FetchInv, Keyed
  <2>2. Gap(x, fixes[i].at) <= Cell
    <3>1. x \in Int OBVIOUS
    <3> QED BY <1>2, <2>1, <3>1, OneCell
  <2>3. \A j \in DOMAIN fixes : 0 <= Gap(x, fixes[j].at) BY <1>3
  <2>4. Resolve(x) = exact[k] BY <1>4 DEF Resolve
  <2>5. Gap(x, fixes[i].at) < Tolerance BY <1>3, <2>2
  <2>6. \A j \in DOMAIN fixes : Gap(x, fixes[i].at) <= Gap(x, fixes[j].at) + Cell
        BY <1>3, <2>2, <2>3
  <2> QED BY <1>2, <2>1, <2>4, <2>5, <2>6 DEF ClosestIn
<1>5. CASE k \notin DOMAIN exact
  <2> DEFINE is == {i \in DOMAIN fixes : \A j \in DOMAIN fixes :
                      \/ Gap(x, fixes[i].at) < Gap(x, fixes[j].at)
                      \/ Gap(x, fixes[i].at) = Gap(x, fixes[j].at) /\ i <= j}
  <2>1. \A i \in is : /\ i \in DOMAIN fixes
                      /\ \A j \in DOMAIN fixes : Gap(x, fixes[i].at) <= Gap(x, fixes[j].at)
        BY <1>2, <1>3
  <2>2. Resolve(x) = IF \E i \in is : Gap(x, fixes[i].at) < Tolerance
                     THEN fixes[CHOOSE i \in is : TRUE].id ELSE NoDevice
        BY <1>5, Zenon DEF Resolve, Nearest
  <2> HIDE DEF is
  <2>3. PICK i \in is : Gap(x, fixes[i].at) < Tolerance BY <2>2
  <2>4. PICK n \in is : Resolve(x) = fixes[n].id BY <2>2, <2>3
  <2>5. Gap(x, fixes[n].at) <= Gap(x, fixes[i].at) BY <2>1
  <2>6. Gap(x, fixes[n].at) < Tolerance BY <1>2, <1>3, <2>1, <2>3, <2>5
  <2>7. \A j \in DOMAIN fixes : Gap(x, fixes[n].at) <= Gap(x, fixes[j].at) + Cell
        BY <1>3, <2>1
  <2> QED BY <1>2, <2>1, <2>4, <2>6, <2>7 DEF ClosestIn
<1> QED BY <1>4, <1>5

\* A history edge that is added is witnessed by itself, one that is skipped
\* leaves what was there.
LEMMA FetchHistory ==
    ASSUME FetchInv, NEW h \in HistoryEdge, ReadHistory(h)
    PROVE  FetchInv'
<1> DEFINE p == Resolve(h.a)
           q == Resolve(h.b)
           e == [a |-> p, b |-> q, count |-> h.count]
<1> USE FetchAssumption
<1>1. /\ h.a \in Places /\ h.b \in Places /\ h.count \in Counts
      /\ h.count \in Int /\ Gap(h.a, h.b) \in Int
  <2>1. h.a \in Places /\ h.b \in Places /\ h.count \in Counts BY DEF HistoryEdge
  <2>2. h.a \in Int /\ h.b \in Int /\ h.count \in Int BY <2>1
  <2> QED BY <2>1, <2>2 DEF Gap
<1>2. /\ fixes' = fixes /\ exact' = exact /\ fStep' = fStep /\ fStep = "edges"
      /\ history' = Append(history, h)
      /\ IF h.count < MinCount \/ NoDevice \in {p, q} \/ p = q \/ {p, q} \in pairs
         THEN UNCHANGED <<pairs, edges>>
         ELSE /\ pairs' = pairs \cup {{p, q}}
              /\ edges' = IF Gap(h.a, h.b) > MaxDistance THEN edges ELSE Append(edges, e)
      BY Zenon DEF ReadHistory
<1>3. history \in Seq(HistoryEdge) /\ edges \in Seq(Link) BY DEF FetchInv
<1>4. /\ history' \in Seq(HistoryEdge)
      /\ DOMAIN history \subseteq DOMAIN history'
      /\ Len(history') \in DOMAIN history' /\ history'[Len(history')] = h
      /\ \A i \in DOMAIN history : history'[i] = history[i]
      BY <1>2, <1>3
<1>5. Len(history') \in DOMAIN history' BY <1>4
<1>6. \A i \in DOMAIN edges : Witnessed(fixes', history', edges[i])
  <2> SUFFICES ASSUME NEW i \in DOMAIN edges
               PROVE  Witnessed(fixes', history', edges[i])
      OBVIOUS
  <2>1. PICK k \in DOMAIN history : Witness(fixes, edges[i], history[k])
        BY DEF FetchInv, Witnessed
  <2>2. k \in DOMAIN history' /\ history'[k] = history[k] BY <1>4
  <2> QED BY <1>2, <2>1, <2>2 DEF Witnessed
<1>7. CASE edges' = edges /\ pairs \subseteq pairs'
  <2>1. \A i \in DOMAIN edges' : Pair(edges'[i]) \in pairs' BY <1>7 DEF FetchInv
  <2>2. \A i \in DOMAIN edges' : Witnessed(fixes', history', edges'[i]) BY <1>6, <1>7
  <2>3. OnePerPair' BY <1>7 DEF FetchInv, OnePerPair
  <2> QED BY <1>2, <1>3, <1>4, <1>7, <2>1, <2>2, <2>3 DEF FetchInv
<1>8. CASE /\ ~ (h.count < MinCount) /\ p # NoDevice /\ q # NoDevice
           /\ {p, q} \notin pairs /\ pairs' = pairs \cup {{p, q}}
           /\ ~ (Gap(h.a, h.b) > MaxDistance) /\ edges' = Append(edges, e)
  <2>1. /\ p \in Devices /\ q \in Devices /\ ClosestIn(fixes, p, h.a) /\ ClosestIn(fixes, q, h.b)
        BY <1>1, <1>8, ResolvedIsClosest
  <2>2. e \in Link BY <1>1, <2>1 DEF Link
  <2>3. Witness(fixes', e, h) BY <1>1, <1>2, <1>8, <2>1 DEF Witness
  <2> DEFINE n == Len(edges)
  <2>4. /\ n \in Nat /\ DOMAIN edges = 1 .. n /\ edges' \in Seq(Link)
        /\ DOMAIN edges' = 1 .. n + 1 /\ edges'[n + 1] = e
        /\ \A i \in 1 .. n : edges'[i] = edges[i]
        BY <1>3, <1>8, <2>2
  <2> HIDE DEF n
  <2>5. Pair(e) = {p, q} BY DEF Pair
  <2> HIDE DEF e, p, q
  <2>6. \A i \in 1 .. n + 1 : i \in 1 .. n \/ i = n + 1 BY <2>4
  <2>7. \A i \in DOMAIN edges' : Pair(edges'[i]) \in pairs'
    <3>1. \A i \in 1 .. n : Pair(edges[i]) \in pairs' BY <1>8, <2>4 DEF FetchInv
    <3> QED BY <1>8, <2>4, <2>5, <2>6, <3>1
  <2>8. \A i \in DOMAIN edges' : Witnessed(fixes', history', edges'[i])
    <3>1. Witnessed(fixes', history', e) BY <1>4, <2>3 DEF Witnessed
    <3> QED BY <1>6, <2>4, <2>6, <3>1
  <2>9. OnePerPair'
    <3>1. \A i \in 1 .. n : Pair(edges[i]) \in pairs BY <2>4 DEF FetchInv
    <3>2. \A i, j \in 1 .. n : i # j => Pair(edges[i]) # Pair(edges[j])
          BY <2>4 DEF FetchInv, OnePerPair
    <3>3. \A i, j \in 1 .. n + 1 : i # j => Pair(edges'[i]) # Pair(edges'[j])
      <4>1. \A i \in 1 .. n : Pair(edges'[i]) # Pair(e) BY <1>8, <2>4, <2>5, <3>1
      <4>2. \A i, j \in 1 .. n : i # j => Pair(edges'[i]) # Pair(edges'[j])
            BY <2>4, <3>2
      <4>3. edges'[n + 1] = e BY <2>4
      <4> QED BY <2>6, <4>1, <4>2, <4>3
    <3> QED BY <2>4, <3>3 DEF OnePerPair
  <2> QED BY <1>2, <1>4, <2>4, <2>7, <2>8, <2>9 DEF FetchInv
<1> QED BY <1>1, <1>2, <1>7, <1>8

-----------------------------------------------------------------------------
(* fetch_topology: the other steps                                         *)

LEMMA FetchSorted ==
    ASSUME FetchInv, Assemble
    PROVE  FetchInv'
<1> USE FetchAssumption
<1> DEFINE n == Len(edges)
<1>1. /\ n \in Nat /\ DOMAIN edges = 1 .. n /\ CountsAreInts(edges)
      /\ \A i \in 1 .. n : edges[i] \in Link
  <2>1. n \in Nat /\ DOMAIN edges = 1 .. n /\ \A i \in 1 .. n : edges[i] \in Link
        BY DEF FetchInv
  <2>2. \A i \in 1 .. n : edges[i].count \in Counts BY <2>1 DEF Link
  <2>3. \A i \in 1 .. n : edges[i].count \in Int BY <2>2
  <2> QED BY <2>1, <2>3 DEF CountsAreInts
<1>2. /\ edges' = Sorted(edges) /\ fStep' = "done"
      /\ UNCHANGED <<fixes, exact, history, pairs>>
      BY DEF Assemble
<1> HIDE DEF n
<1>3. DOMAIN edges' = 1 .. n BY <1>1, <1>2, SortedIs
<1>4. PICK at \in [1 .. n -> 1 .. n] :
            /\ \A k \in 1 .. n : edges'[k] = edges[at[k]]
            /\ \A j, k \in 1 .. n : j # k => at[j] # at[k]
      BY <1>1, <1>2, SortedIs
<1>5. edges' \in Seq(Link)
  <2>1. edges' = [k \in 1 .. n |-> edges'[k]]
    <3>1. edges' = [k \in DOMAIN edges |-> edges'[k]] BY <1>2, <1>3, <1>1 DEF Sorted
    <3> QED BY <1>1, <3>1
  <2>2. \A k \in 1 .. n : edges'[k] \in Link BY <1>1, <1>4
  <2> QED BY <1>1, <2>1, <2>2, IsASeq
<1>6. \A k \in 1 .. n : Pair(edges'[k]) \in pairs'
      BY <1>1, <1>2, <1>4 DEF FetchInv
<1>7. \A k \in 1 .. n : Witnessed(fixes', history', edges'[k])
      BY <1>1, <1>2, <1>4 DEF FetchInv
<1>8. \A j, k \in 1 .. n : j # k => Pair(edges'[j]) # Pair(edges'[k])
      BY <1>1, <1>4 DEF FetchInv, OnePerPair
<1>9. OnePerPair' BY <1>3, <1>8 DEF OnePerPair
<1> QED BY <1>2, <1>3, <1>5, <1>6, <1>7, <1>9 DEF FetchInv

LEMMA FetchDevice ==
    ASSUME FetchInv, NEW d \in Devices, ReadDevice(d)
    PROVE  FetchInv'
<1>1. /\ fStep = "devices" /\ edges = <<>>
      /\ fStep' = fStep /\ history' = history /\ pairs' = pairs /\ edges' = edges
      BY DEF ReadDevice, FetchInv
<1>2. fixes' \in Seq(Fix) /\ Keyed(fixes', exact')
  <2>1. CASE UNCHANGED <<fixes, exact>> BY <2>1 DEF FetchInv
  <2>2. ASSUME NEW x \in Places,
               fixes' = Append(fixes, [id |-> d, at |-> x]),
               exact' = [k \in DOMAIN exact \cup {CoordKey(x)} |->
                            IF k = CoordKey(x) THEN d ELSE exact[k]]
        PROVE  <1>2
    <3> DEFINE f == [id |-> d, at |-> x]
    <3>1. f \in Fix /\ f.id = d /\ f.at = x BY DEF Fix
    <3>2. fixes \in Seq(Fix) BY DEF FetchInv
    <3> HIDE DEF f
    <3>3. /\ fixes' \in Seq(Fix) /\ DOMAIN fixes \subseteq DOMAIN fixes'
          /\ Len(fixes') \in DOMAIN fixes' /\ fixes'[Len(fixes')] = f
          /\ \A i \in DOMAIN fixes : fixes'[i] = fixes[i]
          BY <2>2, <3>1, <3>2 DEF f
    <3>4. ASSUME NEW k \in DOMAIN exact'
          PROVE  \E i \in DOMAIN fixes' : fixes'[i].id = exact'[k] /\ CoordKey(fixes'[i].at) = k
      <4>1. CASE k = CoordKey(x) BY <2>2, <3>1, <3>3, <4>1
      <4>2. CASE k # CoordKey(x)
        <5>1. k \in DOMAIN exact /\ exact'[k] = exact[k] BY <2>2, <4>2
        <5>2. PICK i \in DOMAIN fixes : fixes[i].id = exact[k] /\ CoordKey(fixes[i].at) = k
              BY <5>1 DEF FetchInv, Keyed
        <5> QED BY <3>3, <5>1, <5>2
      <4> QED BY <4>1, <4>2
    <3> QED BY <3>3, <3>4 DEF Keyed
  <2> QED BY <2>1, <2>2 DEF ReadDevice
<1>3. edges' = <<>> /\ DOMAIN edges' = {} BY <1>1
<1>4. history' \in Seq(HistoryEdge) /\ edges' \in Seq(Link) BY <1>1 DEF FetchInv
<1> QED BY <1>2, <1>3, <1>4 DEF FetchInv, OnePerPair

LEMMA FetchStep == FetchInv /\ [FetchNext]_fvars => FetchInv'
<1> SUFFICES ASSUME FetchInv, [FetchNext]_fvars PROVE FetchInv' OBVIOUS
<1>1. ASSUME NEW d \in Devices, ReadDevice(d) PROVE FetchInv' BY <1>1, FetchDevice
<1>2. CASE DevicesRead
      BY <1>2 DEF DevicesRead, FetchInv, OnePerPair
<1>3. ASSUME NEW x \in Places, NEW y \in Places, NEW n \in Counts,
             ReadHistory([a |-> x, b |-> y, count |-> n])
      PROVE  FetchInv'
  <2>1. [a |-> x, b |-> y, count |-> n] \in HistoryEdge BY DEF HistoryEdge
  <2> QED BY <1>3, <2>1, FetchHistory
<1>4. CASE Assemble BY <1>4, FetchSorted
<1>5. CASE UNCHANGED fvars
      BY <1>5 DEF fvars, FetchInv, OnePerPair
<1> QED BY <1>1, <1>2, <1>3, <1>4, <1>5 DEF FetchNext

(* Whatever devices and edges the snapshot holds and in whatever order they *)
(* come, every link of the file fetched was witnessed by a history edge in  *)
(* reach, each of whose ends lies within the tolerance of its node, no      *)
(* device of the snapshot being nearer to it by more than the width of a    *)
(* cell of the rounded coordinates, and no pair has two links.              *)
(* (fetch_topology.py:74-76, 231-327)                                       *)
THEOREM EveryLinkWitnessed == Spec => []LinksWitnessed
<1>1. Init => FetchInv
      BY DEF Init, FetchInit, FetchInv, OnePerPair, Keyed
<1>2. FetchInv /\ [Next]_vars => FetchInv'
      BY FetchStep DEF Next, vars, ivars, fvars
<1> QED BY <1>1, <1>2, FetchInvShows, PTL DEF Spec

-----------------------------------------------------------------------------
(* import_topology: least and greatest                                     *)

\* A non-empty set of naturals has a least member.
LEMMA Least ==
    ASSUME NEW S \in SUBSET Nat, S # {}
    PROVE  Min(S) \in S /\ \A n \in S : Min(S) <= n
<1>1. PICK m \in S : \A n \in S : ~ (<<n, m>> \in OpToRel(<, Nat))
      BY NatLessThanWellFounded, WFMin, Zenon
<1>2. \A n \in S : ~ (n < m) BY <1>1, Zenon DEF OpToRel
<1>3. \A n \in S : m <= n BY <1>2
<1> QED BY <1>3 DEF Min

LEMMA LeastOfTwo ==
    ASSUME NEW x \in Int, NEW y \in Int
    PROVE  Min({x, y}) = IF x <= y THEN x ELSE y
<1>1. \E m \in {x, y} : \A n \in {x, y} : m <= n OBVIOUS
<1>2. Min({x, y}) \in {x, y} /\ \A n \in {x, y} : Min({x, y}) <= n BY <1>1 DEF Min
<1> QED BY <1>2

LEMMA GreatestOfTwo ==
    ASSUME NEW x \in Int, NEW y \in Int
    PROVE  Max({x, y}) = IF x >= y THEN x ELSE y
<1>1. \E m \in {x, y} : \A n \in {x, y} : m >= n OBVIOUS
<1>2. Max({x, y}) \in {x, y} /\ \A n \in {x, y} : Max({x, y}) >= n BY <1>1 DEF Max
<1> QED BY <1>2

\* A finite set of integers has a greatest member, if it has any: a smallest
\* set without one would lose its greatest member with any of its members.
HasGreatest(S) == \E m \in S : \A n \in S : n <= m

Headless(T) == IsFiniteSet(T) /\ T # {} /\ ~ HasGreatest(T)

LEMMA Greatest ==
    ASSUME NEW S \in SUBSET Int, IsFiniteSet(S), S # {}
    PROVE  HasGreatest(S)
<1> DEFINE sizes == {Cardinality(T) : T \in {U \in SUBSET Int : Headless(U)}}
<1>1. sizes \in SUBSET Nat BY FS_CardinalityType DEF Headless
<1>2. SUFFICES ASSUME sizes # {} PROVE FALSE BY DEF Headless
<1>3. Min(sizes) \in sizes /\ \A n \in sizes : Min(sizes) <= n BY <1>1, <1>2, Least
<1>4. PICK T \in SUBSET Int : Headless(T) /\ Min(sizes) = Cardinality(T) BY <1>3
<1>5. PICK x \in T : TRUE BY <1>4 DEF Headless
<1> DEFINE U == T \ {x}
<1>6. IsFiniteSet(U) /\ Cardinality(U) = Cardinality(T) - 1
      BY <1>4, <1>5, FS_RemoveElement DEF Headless
<1>7. Cardinality(T) \in Nat BY <1>4, FS_CardinalityType DEF Headless
<1>8. ~ Headless(U)
  <2> SUFFICES ASSUME Headless(U) PROVE FALSE OBVIOUS
  <2>1. U \in SUBSET Int OBVIOUS
  <2>2. Cardinality(U) \in sizes BY <2>1
  <2>3. Cardinality(T) <= Cardinality(U) BY <1>3, <1>4, <2>2
  <2> QED BY <1>6, <1>7, <2>3
<1>9. CASE U = {}
  <2>1. T = {x} BY <1>5, <1>9
  <2> QED BY <1>4, <2>1 DEF Headless, HasGreatest
<1>10. CASE U # {}
  <2>1. PICK m \in U : \A n \in U : n <= m BY <1>6, <1>8, <1>10 DEF Headless, HasGreatest
  <2>2. x \in Int /\ m \in Int /\ T \subseteq Int BY <1>5, <2>1
  <2>3. \A n \in T : n = x \/ n <= m BY <2>1
  <2>4. HasGreatest(T)
    <3>1. CASE x <= m BY <1>5, <2>1, <2>2, <2>3, <3>1 DEF HasGreatest
    <3>2. CASE m < x
      <4>1. \A n \in T : n <= x BY <2>2, <2>3, <3>2
      <4> QED BY <1>5, <4>1 DEF HasGreatest
    <3> QED BY <2>2, <3>1, <3>2
  <2> QED BY <1>4, <2>4 DEF Headless
<1> QED BY <1>9, <1>10

\* The image of a finite set.
LEMMA Image ==
    ASSUME NEW S, IsFiniteSet(S), NEW f, DOMAIN f = S
    PROVE  /\ IsFiniteSet({f[x] : x \in S})
           /\ Cardinality({f[x] : x \in S}) <= Cardinality(S)
<1>1. [x \in S |-> f[x]] \in Surjection(S, {f[x] : x \in S}) BY DEF Surjection
<1> QED BY <1>1, FS_Surjection

-----------------------------------------------------------------------------
(* import_topology: names                                                  *)

NamesDiffer == \A p, q \in Kept : named[p] = named[q] => p = q

NameInv == Kept \subseteq Keys /\ NamesDiffer

\* There are more suffixes to try than names, so one is free.
LEMMA UniqueIsNew ==
    ASSUME NameInv, NEW t
    PROVE  Unique(t) \notin Taken
<1>1. IsFiniteSet(Kept) BY FS_Subset, ImportAssumption DEF NameInv
<1>2. IsFiniteSet(Taken) BY <1>1, Image DEF Taken, Kept
<1> DEFINE n == Cardinality(Taken)
           tries == 2 .. (n + 2)
           free == {k \in tries : <<t, k>> \notin Taken}
<1>3. n \in Nat BY <1>2, FS_CardinalityType
<1>4. IsFiniteSet(tries) /\ Cardinality(tries) = n + 1
  <2>1. n + 2 \in Int /\ 2 \in Int BY <1>3
  <2>2. IsFiniteSet(tries) /\ Cardinality(tries) = IF 2 > n + 2 THEN 0 ELSE (n + 2) - 2 + 1
        BY <2>1, FS_Interval
  <2> QED BY <1>3, <2>2
<1>5. free # {}
  <2> SUFFICES ASSUME free = {} PROVE FALSE OBVIOUS
  <2> DEFINE f == [k \in tries |-> <<t, k>>]
  <2>1. f \in [tries -> Taken] OBVIOUS
  <2>2. \A j, k \in tries : f[j] = f[k] => j = k OBVIOUS
  <2> HIDE DEF n, f, tries
  <2>3. Cardinality(Taken) < Cardinality(tries) BY <1>3, <1>4 DEF n
  <2>4. \E j, k \in tries : j # k /\ f[j] = f[k] BY <1>2, <1>4, <2>1, <2>3, FS_PigeonHole
  <2> QED BY <2>2, <2>4
<1>6. free \in SUBSET Nat BY <1>3
<1>7. Min(free) \in free BY <1>5, <1>6, Least
<1>8. <<t, Min(free)>> \notin Taken BY <1>7
<1>9. Unique(t) = IF <<t>> \notin Taken THEN <<t>> ELSE <<t, Min(free)>>
      BY DEF Unique
<1> QED BY <1>8, <1>9

LEMMA NameStep == NameInv /\ [ImportNext]_ivars => NameInv'
<1> SUFFICES ASSUME NameInv, [ImportNext]_ivars PROVE NameInv' OBVIOUS
<1>1. CASE named' = named BY <1>1 DEF NameInv, NamesDiffer, Kept
<1>2. ASSUME NEW p \in Keys, NEW t \in Texts,
             named' = [q \in Kept \cup {p} |-> IF q = p THEN Unique(t) ELSE named[q]]
      PROVE  NameInv'
  <2>1. \A q \in Kept : named[q] # Unique(t) BY UniqueIsNew DEF Taken
  <2>2. Kept' = Kept \cup {p} BY <1>2 DEF Kept
  <2>3. \A q, r \in Kept' : named'[q] = named'[r] => q = r
        BY <1>2, <2>1, <2>2 DEF NameInv, NamesDiffer
  <2> QED BY <2>2, <2>3 DEF NameInv, NamesDiffer
<1>3. ASSUME NEW p \in Keys, ReadNode(p) PROVE NameInv'
      BY <1>1, <1>2, <1>3 DEF ReadNode
<1>4. (\E p \in Keys : ReadNode(p)) \/ named' = named
      BY DEF ImportNext, ivars, ReadNode, AddCompanion, ReadEdge, NodesRead, EdgesRead,
             Merge, StartGaps, FillGap, GapsFilled, Written
<1> QED BY <1>1, <1>3, <1>4

-----------------------------------------------------------------------------
(* import_topology: measured links                                         *)

\* The entries of R from p to q, and what x, the level from p to q, then owes
\* them; y is the level of the other way.
Way(R, p, q) == {i \in DOMAIN R : R[i].from = p /\ R[i].to = q}

Trusted(R, p, q, x) ==
    \A i \in Way(R, p, q) : \E j \in Way(R, p, q) :
        x = R[j].snr /\ Rank[R[j].source] >= Rank[R[i].source]

Guessed(R, p, q, x, y) == Way(R, p, q) = {} => x < y

\* A measured link is of a pair that N names, and right in both directions.
RightFor(N, R, l, p, q) ==
    /\ p \in DOMAIN N /\ q \in DOMAIN N /\ l.a = N[p] /\ l.b = N[q]
    /\ Trusted(R, p, q, l.ab) /\ Guessed(R, p, q, l.ab, l.ba)
    /\ Trusted(R, q, p, l.ba) /\ Guessed(R, q, p, l.ba, l.ab)

Right(N, R, l) == \E p, q \in Nat : RightFor(N, R, l, p, q)

\* The ends and levels of a link.
WellMade(N, l) ==
    /\ l.ab \in Int /\ l.ba \in Int
    /\ l.kind \in {"measured", "inferred"} =>
          /\ \E p \in DOMAIN N : l.a = N[p]
          /\ \E p \in DOMAIN N : l.b = N[p]
          /\ l.a = l.b => l.ab = l.ba

HasLink(N, L, e) ==
    \E l \in L : l.kind = "measured" /\ Ends(l) = {N[e.from], N[e.to]}

BaseInv ==
    /\ raw \in Seq(Measurements)
    /\ \A i \in DOMAIN raw : raw[i].from \in Kept /\ raw[i].to \in Kept
    /\ iStep = "nodes" => raw = <<>>
    /\ iStep \in {"nodes", "edges"} => links = {}
    /\ ~ Merged => \A l \in links : l.kind = "measured"
    /\ iStep = "gaps" => \A z \in gaps : z \in Kept \X Kept /\ z[1] < z[2]
    /\ IsFiniteSet(links)
    /\ \A l \in links : WellMade(named, l)
    /\ \A l \in links : l.kind = "measured" => Right(named, raw, l)
    /\ Merged => \A i \in DOMAIN raw : HasLink(named, links, raw[i])

\* Of the measurements of one direction there is a best one.
LEMMA BestIsBest ==
    ASSUME BaseInv, NEW is \in SUBSET DOMAIN raw, is # {}
    PROVE  \E j \in is : /\ Best(is) = raw[j]
                         /\ \A i \in is : Rank[raw[j].source] >= Rank[raw[i].source]
<1>1. DOMAIN raw = 1 .. Len(raw) /\ Len(raw) \in Nat BY DEF BaseInv
<1>2. \A i \in DOMAIN raw : Rank[raw[i].source] \in Int
  <2>1. \A i \in DOMAIN raw : raw[i] \in Measurements BY DEF BaseInv
  <2>2. \A i \in DOMAIN raw : raw[i].source \in DOMAIN Rank BY <2>1, ImportAssumption
  <2> QED BY <2>2, ImportAssumption
<1>3. IsFiniteSet(is)
  <2>1. IsFiniteSet(DOMAIN raw) BY <1>1, FS_Interval
  <2> QED BY <2>1, FS_Subset
<1> DEFINE rank == [i \in is |-> Rank[raw[i].source]]
           ranks == {rank[i] : i \in is}
<1>4. ranks \in SUBSET Int /\ ranks # {} BY <1>2
<1>5. IsFiniteSet(ranks) BY <1>3, Image
<1>6. PICK m \in ranks : \A n \in ranks : n <= m BY <1>4, <1>5, Greatest DEF HasGreatest
<1> DEFINE top == {i \in is : rank[i] = m}
<1>7. top \in SUBSET Nat /\ top # {} BY <1>1, <1>6
<1>8. Min(top) \in top /\ \A i \in top : Min(top) <= i BY <1>7, Least
<1>9. \A i \in is : \/ rank[Min(top)] > rank[i]
                    \/ rank[Min(top)] = rank[i] /\ Min(top) <= i
  <2> SUFFICES ASSUME NEW i \in is
               PROVE  \/ rank[Min(top)] > rank[i]
                      \/ rank[Min(top)] = rank[i] /\ Min(top) <= i
      OBVIOUS
  <2>1. rank[Min(top)] = m /\ m \in Int /\ rank[i] \in Int /\ rank[i] <= m
        BY <1>4, <1>6, <1>8
  <2>2. rank[i] = m => i \in top OBVIOUS
  <2> QED BY <1>8, <2>1, <2>2
<1> DEFINE First(i) == \A j \in is :
                \/ Rank[raw[i].source] > Rank[raw[j].source]
                \/ Rank[raw[i].source] = Rank[raw[j].source] /\ i <= j
<1>10. Min(top) \in is /\ First(Min(top)) BY <1>8, <1>9
<1>11. Best(is) = raw[CHOOSE i \in is : First(i)] BY DEF Best
<1> DEFINE j == CHOOSE i \in is : First(i)
<1>12. j \in is /\ First(j) BY <1>10
<1> HIDE DEF j
<1>13. \A i \in is : Rank[raw[j].source] >= Rank[raw[i].source]
  <2>1. j \in DOMAIN raw /\ is \subseteq DOMAIN raw BY <1>12
  <2> QED BY <1>2, <1>12, <2>1
<1>14. Best(is) = raw[j] BY <1>11 DEF j
<1> QED BY <1>12, <1>13, <1>14

\* Each direction of the link of a pair is right, given a measurement of either.
LEMMA MeasuredIsRight ==
    ASSUME BaseInv, NEW p \in Kept, NEW q \in Kept, NameInv,
           Directed(p, q) \cup Directed(q, p) # {}
    PROVE  /\ WellMade(named, Measured(p, q))
           /\ Right(named, raw, Measured(p, q))
           /\ Measured(p, q).kind = "measured"
           /\ Ends(Measured(p, q)) = {named[p], named[q]}
<1> DEFINE l == Measured(p, q)
           there == Directed(p, q)
           back == Directed(q, p)
<1>1. /\ l.a = named[p] /\ l.b = named[q] /\ l.kind = "measured"
      /\ l.ab = IF there # {} THEN Best(there).snr ELSE Best(back).snr - ReversePenalty
      /\ l.ba = IF back # {} THEN Best(back).snr ELSE Best(there).snr - ReversePenalty
      BY DEF Measured
<1>2. there = Way(raw, p, q) /\ back = Way(raw, q, p) BY DEF Directed, Way
<1>3. there \in SUBSET DOMAIN raw /\ back \in SUBSET DOMAIN raw BY DEF Directed
<1>4. \A i \in DOMAIN raw : raw[i].snr \in Int
  <2>1. \A i \in DOMAIN raw : raw[i] \in Measurements BY DEF BaseInv
  <2> QED BY <2>1, ImportAssumption
<1>5. ASSUME NEW is \in SUBSET DOMAIN raw, is # {}
      PROVE  /\ Best(is).snr \in Int
             /\ \A i \in is : \E j \in is :
                   Best(is).snr = raw[j].snr /\ Rank[raw[j].source] >= Rank[raw[i].source]
      BY <1>4, <1>5, BestIsBest
<1>6. there # {} \/ back # {} OBVIOUS
<1>7. p = q => there = back BY <1>2
<1> HIDE DEF l, there, back
<1>8. there # {} => Best(there).snr \in Int BY <1>3, <1>5
<1>9. back # {} => Best(back).snr \in Int BY <1>3, <1>5
<1>10. l.ab \in Int /\ l.ba \in Int BY <1>1, <1>6, <1>8, <1>9, ImportAssumption
<1>11. (there = {} => l.ab < l.ba) /\ (back = {} => l.ba < l.ab)
       BY <1>1, <1>6, <1>8, <1>9, ImportAssumption
<1>12. Trusted(raw, p, q, l.ab)
  <2>1. CASE there = {} BY <1>2, <2>1 DEF Trusted
  <2>2. CASE there # {}
    <3>1. l.ab = Best(there).snr BY <1>1, <2>2
    <3> QED BY <1>2, <1>3, <1>5, <2>2, <3>1 DEF Trusted
  <2> QED BY <2>1, <2>2
<1>13. Trusted(raw, q, p, l.ba)
  <2>1. CASE back = {} BY <1>2, <2>1 DEF Trusted
  <2>2. CASE back # {}
    <3>1. l.ba = Best(back).snr BY <1>1, <2>2
    <3> QED BY <1>2, <1>3, <1>5, <2>2, <3>1 DEF Trusted
  <2> QED BY <2>1, <2>2
<1>14. p \in Nat /\ q \in Nat BY ImportAssumption DEF NameInv
<1>15. l.a = l.b => l.ab = l.ba
  <2>1. l.a = l.b => p = q BY <1>1 DEF NameInv, NamesDiffer
  <2> QED BY <1>1, <1>6, <1>7, <2>1
<1>16. RightFor(named, raw, l, p, q)
       BY <1>1, <1>2, <1>11, <1>12, <1>13 DEF RightFor, Guessed, Kept
<1>17. Right(named, raw, l) BY <1>14, <1>16 DEF Right
<1>18. WellMade(named, l) BY <1>1, <1>10, <1>15 DEF WellMade, Kept
<1>19. Ends(l) = {named[p], named[q]} BY <1>1 DEF Ends
<1> QED BY <1>1, <1>17, <1>18, <1>19 DEF l

\* From there the property follows, a pair being told by its names.
LEMMA MeasuredOf ==
    ASSUME NameInv, BaseInv, NEW i \in DOMAIN raw, NEW e, e = raw[i],
           NEW l \in links, l.kind = "measured", Ends(l) = {named[e.from], named[e.to]}
    PROVE  /\ \E j \in Directed(e.from, e.to) :
                 /\ Level(l, named[e.from]) = raw[j].snr
                 /\ Rank[raw[j].source] >= Rank[e.source]
           /\ Directed(e.to, e.from) = {} =>
                 Level(l, named[e.to]) < Level(l, named[e.from])
<1> DEFINE there == Level(l, named[e.from])
           back == Level(l, named[e.to])
<1>1. e.from \in Kept /\ e.to \in Kept BY DEF BaseInv
<1>2. Ends(l) = {named[e.from], named[e.to]} OBVIOUS
<1>3. WellMade(named, l) /\ Right(named, raw, l) BY DEF BaseInv
<1>4. PICK p, q \in Nat : RightFor(named, raw, l, p, q) BY <1>3 DEF Right
<1>5. /\ p \in Kept /\ q \in Kept /\ l.a = named[p] /\ l.b = named[q]
      BY <1>4 DEF RightFor, Kept
<1>6. {named[p], named[q]} = {named[e.from], named[e.to]} BY <1>2, <1>5 DEF Ends
<1>7. \/ p = e.from /\ q = e.to
      \/ q = e.from /\ p = e.to
      BY <1>1, <1>5, <1>6 DEF NameInv, NamesDiffer
<1>8. Directed(e.from, e.to) = Way(raw, e.from, e.to)
      /\ Directed(e.to, e.from) = Way(raw, e.to, e.from)
      BY DEF Directed, Way
<1>9. i \in Way(raw, e.from, e.to) BY DEF Way
<1>10. CASE p = e.from /\ q = e.to
  <2>1. there = l.ab BY <1>5, <1>10 DEF Level
  <2>2. back = IF l.a = l.b THEN l.ab ELSE l.ba BY <1>5, <1>10 DEF Level
  <2>3. back = l.ba BY <2>2, <1>3 DEF WellMade
  <2>4. \E j \in Directed(e.from, e.to) :
            there = raw[j].snr /\ Rank[raw[j].source] >= Rank[e.source]
        BY <1>4, <1>8, <1>9, <1>10, <2>1 DEF RightFor, Trusted
  <2>5. Directed(e.to, e.from) = {} => back < there
        BY <1>4, <1>8, <1>10, <2>1, <2>3 DEF RightFor, Guessed
  <2> QED BY <2>4, <2>5
<1>11. CASE q = e.from /\ p = e.to
  <2>1. back = l.ab BY <1>5, <1>11 DEF Level
  <2>2. there = IF l.a = l.b THEN l.ab ELSE l.ba BY <1>5, <1>11 DEF Level
  <2>3. there = l.ba BY <2>2, <1>3 DEF WellMade
  <2>4. \E j \in Directed(e.from, e.to) :
            there = raw[j].snr /\ Rank[raw[j].source] >= Rank[e.source]
        BY <1>4, <1>8, <1>9, <1>11, <2>3 DEF RightFor, Trusted
  <2>5. Directed(e.to, e.from) = {} => back < there
        BY <1>4, <1>8, <1>11, <2>1, <2>3 DEF RightFor, Guessed
  <2> QED BY <2>4, <2>5
<1> QED BY <1>7, <1>10, <1>11

LEMMA MeasuredShows == NameInv /\ BaseInv => MeasuredWins
<1> SUFFICES ASSUME NameInv, BaseInv, Merged PROVE MeasuredWins BY DEF MeasuredWins
<1> DEFINE link(i) == CHOOSE k \in links :
                k.kind = "measured" /\ Ends(k) = {named[raw[i].from], named[raw[i].to]}
<1>1. \A i \in DOMAIN raw : \E k \in links :
            k.kind = "measured" /\ Ends(k) = {named[raw[i].from], named[raw[i].to]}
      BY DEF BaseInv, HasLink
<1>2. ASSUME NEW i \in DOMAIN raw
      PROVE  /\ link(i) \in links /\ link(i).kind = "measured"
             /\ Ends(link(i)) = {named[raw[i].from], named[raw[i].to]}
      BY <1>1
<1>3. ASSUME NEW i \in DOMAIN raw
      PROVE  /\ \E j \in Directed(raw[i].from, raw[i].to) :
                   /\ Level(link(i), named[raw[i].from]) = raw[j].snr
                   /\ Rank[raw[j].source] >= Rank[raw[i].source]
             /\ Directed(raw[i].to, raw[i].from) = {} =>
                   Level(link(i), named[raw[i].to]) < Level(link(i), named[raw[i].from])
  <2> HIDE DEF link
  <2> QED BY <1>2, MeasuredOf
<1> QED BY <1>3, Zenon DEF MeasuredWins

-----------------------------------------------------------------------------
(* import_topology: the steps that make links                              *)

LEMMA MergeStep == NameInv /\ BaseInv /\ Merge => BaseInv'
<1> SUFFICES ASSUME NameInv, BaseInv, Merge PROVE BaseInv' OBVIOUS
<1> DEFINE e == raw[Min(Unmerged)]
           p == Min({e.from, e.to})
           q == Max({e.from, e.to})
           m == Measured(p, q)
<1>1. /\ iStep = "merge" /\ Unmerged # {} /\ links' = links \cup {m}
      /\ UNCHANGED <<iStep, listed, named, raw, gaps, total, good, hosts>>
      BY Zenon DEF Merge
<1>2. Min(Unmerged) \in DOMAIN raw
  <2>1. DOMAIN raw \subseteq Nat BY DEF BaseInv
  <2>2. Unmerged \in SUBSET Nat /\ Unmerged \subseteq DOMAIN raw BY <2>1 DEF Unmerged
  <2> QED BY <1>1, <2>2, Least
<1>3. /\ e.from \in Kept /\ e.to \in Kept /\ e.from \in Int /\ e.to \in Int
      BY <1>2, ImportAssumption DEF BaseInv, NameInv
<1>4. {p, q} = {e.from, e.to} BY <1>3, LeastOfTwo, GreatestOfTwo
<1>5. Directed(p, q) \cup Directed(q, p) # {}
  <2>1. Min(Unmerged) \in Directed(e.from, e.to) BY <1>2 DEF Directed
  <2>2. (p = e.from /\ q = e.to) \/ (p = e.to /\ q = e.from) BY <1>4
  <2> QED BY <2>1, <2>2
<1>6. p \in Kept /\ q \in Kept BY <1>3, <1>4
<1> HIDE DEF p, q, e
<1>7. WellMade(named, m) /\ Right(named, raw, m) /\ m.kind = "measured"
      BY <1>5, <1>6, MeasuredIsRight
<1> HIDE DEF m
<1>8. IsFiniteSet(links') BY <1>1, FS_AddElement DEF BaseInv
<1> QED BY <1>1, <1>7, <1>8 DEF BaseInv, Merged, Kept

\* Links added after the merge leave what was there.
LEMMA MoreLinks ==
    ASSUME BaseInv, Merged, NEW S, IsFiniteSet(S), links' = links \cup S,
           UNCHANGED <<iStep, named, raw>>, gaps' \subseteq gaps,
           \A l \in S : WellMade(named, l) /\ l.kind # "measured"
    PROVE  BaseInv'
<1>1. IsFiniteSet(links') BY FS_Union DEF BaseInv
<1>2. Merged' /\ iStep \notin {"nodes", "edges"} BY DEF Merged
<1>3. \A i \in DOMAIN raw : HasLink(named, links', raw[i]) BY DEF BaseInv, HasLink
<1>4. \A l \in links' : WellMade(named, l) /\ (l.kind = "measured" => Right(named, raw, l))
      BY DEF BaseInv
<1>5. Kept' = Kept BY DEF Kept
<1>6. iStep = "gaps" => \A z \in gaps' : z \in Kept \X Kept /\ z[1] < z[2] BY DEF BaseInv
<1> QED BY <1>1, <1>2, <1>3, <1>4, <1>5, <1>6 DEF BaseInv

\* There is a next candidate, as long as there are candidates.
LEMMA NextGap ==
    ASSUME NameInv, BaseInv, iStep = "gaps", gaps # {}
    PROVE  (CHOOSE y \in gaps : \A w \in gaps : Before(y, w)) \in gaps
<1>1. \A z \in gaps : z[1] \in Keys /\ z[2] \in Keys BY DEF BaseInv, NameInv
<1>2. \A p, q \in Keys : Far(p, q) \in Nat
  <2> SUFFICES ASSUME NEW p \in Keys, NEW q \in Keys PROVE Far(p, q) \in Nat OBVIOUS
  <2>1. Place[p] \in Int /\ Place[q] \in Int BY ImportAssumption
  <2> QED BY <2>1 DEF Far
<1>3. \A z \in gaps : z[1] \in Nat /\ z[2] \in Nat /\ Far(z[1], z[2]) \in Nat
      BY <1>1, <1>2, ImportAssumption
<1> DEFINE first == {z[1] : z \in gaps}
           near == {z \in gaps : z[1] = Min(first)}
           lengths == {Far(z[1], z[2]) : z \in near}
           nearest == {z \in near : Far(z[1], z[2]) = Min(lengths)}
           second == {z[2] : z \in nearest}
<1>4. Min(first) \in first /\ \A k \in first : Min(first) <= k
  <2>1. first \in SUBSET Nat /\ first # {} BY <1>3
  <2> QED BY <2>1, Least
<1>5. Min(lengths) \in lengths /\ \A k \in lengths : Min(lengths) <= k
  <2>1. lengths \in SUBSET Nat /\ lengths # {} BY <1>3, <1>4
  <2> QED BY <2>1, Least
<1>6. Min(second) \in second /\ \A k \in second : Min(second) <= k
  <2>1. second \in SUBSET Nat /\ second # {} BY <1>3, <1>5
  <2> QED BY <2>1, Least
<1>7. PICK y \in nearest : y[2] = Min(second) BY <1>6
<1>8. /\ y \in gaps
      /\ \A w \in gaps : y[1] <= w[1]
      /\ \A w \in gaps : y[1] = w[1] => Far(y[1], y[2]) <= Far(w[1], w[2])
      /\ \A w \in gaps : y[1] = w[1] /\ Far(y[1], y[2]) = Far(w[1], w[2]) => y[2] <= w[2]
  <2>1. y \in gaps /\ y[1] = Min(first) /\ Far(y[1], y[2]) = Min(lengths) BY <1>7
  <2>2. \A w \in gaps : y[1] <= w[1] BY <1>4, <2>1
  <2>3. \A w \in gaps : y[1] = w[1] => w \in near BY <2>1
  <2>4. \A w \in near : Far(y[1], y[2]) <= Far(w[1], w[2]) BY <1>5, <2>1
  <2>5. \A w \in near : Far(y[1], y[2]) = Far(w[1], w[2]) => w \in nearest BY <2>1
  <2>6. \A w \in nearest : y[2] <= w[2] BY <1>6, <1>7
  <2> HIDE DEF near, nearest, first, lengths, second
  <2> QED BY <2>1, <2>2, <2>3, <2>4, <2>5, <2>6
<1> HIDE DEF near, nearest, first, lengths, second
<1>9. \A w \in gaps : Before(y, w) BY <1>3, <1>8 DEF Before
<1> QED BY <1>8, <1>9

\* What the next candidate does: the link added, if one is.
Estimated(N, p, q, snr) ==
    [a |-> N[p], b |-> N[q], kind |-> "inferred", ab |-> snr, ba |-> snr]

LEMMA FillIs ==
    ASSUME NameInv, BaseInv, FillGap
    PROVE  \E p, q \in Kept, snr \in Estimates :
              /\ p < q /\ gaps' \subseteq gaps
              /\ UNCHANGED <<iStep, named, raw, hosts>>
              /\ IF Admits(p, q, snr)
                 THEN /\ links' = links \cup {Estimated(named, p, q, snr)}
                      /\ total' = Counted(total, p, q)
                      /\ good' = IF snr > 0 THEN Counted(good, p, q) ELSE good
                 ELSE UNCHANGED <<links, total, good>>
<1> DEFINE z == CHOOSE y \in gaps : \A w \in gaps : Before(y, w)
<1>1. iStep = "gaps" /\ gaps # {} BY DEF FillGap
<1>2. z \in gaps BY <1>1, NextGap
<1>3. z[1] \in Kept /\ z[2] \in Kept /\ z[1] < z[2] BY <1>1, <1>2 DEF BaseInv
<1>4. PICK snr \in Estimates :
              IF Admits(z[1], z[2], snr)
              THEN /\ links' = links \cup {[a |-> named[z[1]], b |-> named[z[2]],
                                            kind |-> "inferred", ab |-> snr, ba |-> snr]}
                   /\ total' = Counted(total, z[1], z[2])
                   /\ good' = IF snr > 0 THEN Counted(good, z[1], z[2]) ELSE good
              ELSE UNCHANGED <<links, total, good>>
      BY Zenon DEF FillGap
<1>5. gaps' = gaps \ {z} /\ UNCHANGED <<iStep, named, raw, hosts>> BY Zenon DEF FillGap
<1> HIDE DEF z
<1> QED BY <1>3, <1>4, <1>5 DEF Estimated

LEMMA FillStep == NameInv /\ BaseInv /\ FillGap => BaseInv'
<1> SUFFICES ASSUME NameInv, BaseInv, FillGap PROVE BaseInv' OBVIOUS
<1>1. PICK p, q \in Kept, snr \in Estimates :
              /\ gaps' \subseteq gaps
              /\ UNCHANGED <<iStep, named, raw>>
              /\ \/ links' = links \cup {Estimated(named, p, q, snr)}
                 \/ links' = links
      BY FillIs
<1>2. Merged BY DEF FillGap, Merged
<1> DEFINE l == Estimated(named, p, q, snr)
<1>3. WellMade(named, l) /\ l.kind # "measured"
      BY ImportAssumption DEF WellMade, Estimated, Kept
<1> HIDE DEF l
<1>4. CASE links' = links \cup {l}
  <2>1. IsFiniteSet({l}) BY FS_Singleton
  <2>2. \A k \in {l} : WellMade(named, k) /\ k.kind # "measured" BY <1>3
  <2> QED BY <1>1, <1>2, <1>4, <2>1, <2>2, MoreLinks
<1>5. CASE links' = links
  <2>1. IsFiniteSet({}) /\ links' = links \cup {} BY <1>5, FS_EmptySet
  <2> QED BY <1>1, <1>2, <2>1, MoreLinks
<1> QED BY <1>1, <1>4, <1>5 DEF l

-----------------------------------------------------------------------------
(* import_topology: companions                                             *)

LEMMA LeastOfThree ==
    ASSUME NEW x \in Nat, NEW y \in Nat, NEW z \in Nat
    PROVE  Min({x, y, z}) \in Nat /\ Min({x, y, z}) <= z
<1>1. {x, y, z} \in SUBSET Nat /\ {x, y, z} # {} OBVIOUS
<1>2. Min({x, y, z}) \in {x, y, z} /\ \A n \in {x, y, z} : Min({x, y, z}) <= n
      BY <1>1, Least
<1> QED BY <1>2

Companion(i) == <<CompanionNames[i]>>

Direct(c, x) ==
    [a |-> c, b |-> x, kind |-> "direct", ab |-> CompanionSnr, ba |-> CompanionSnr]

\* What a companion takes over of the links its repeater hears.
Louder(x, l, m) == Strength(Weakened(l, x)) >= Strength(Weakened(m, x))

TakesOver(x, heard) ==
    /\ heard \subseteq Audible(x)
    /\ IsFiniteSet(heard) /\ Cardinality(heard) <= MaxHeard
    /\ \A l \in heard, m \in Audible(x) \ heard : Louder(x, l, m)

LEMMA StrongestAreKept ==
    ASSUME IsFiniteSet(links), NEW x, NEW heard \in Strongest(Audible(x), x)
    PROVE  TakesOver(x, heard)
<1>1. Audible(x) \in SUBSET links BY DEF Audible, RelayLinks
<1>2. IsFiniteSet(Audible(x)) BY <1>1, FS_Subset
<1> DEFINE n == Min({MaxHeard, Cardinality(Audible(x))})
<1>3. n <= MaxHeard
  <2>1. MaxHeard \in Int /\ Cardinality(Audible(x)) \in Int
        BY <1>2, FS_CardinalityType, ImportAssumption
  <2> QED BY <2>1, LeastOfTwo
<1>4. /\ heard \in kSubset(n, Audible(x))
      /\ \A l \in heard, m \in Audible(x) \ heard : Louder(x, l, m)
      BY Zenon DEF Strongest, Louder
<1> HIDE DEF n
<1>5. heard \in SUBSET Audible(x) /\ Cardinality(heard) = n BY <1>4 DEF kSubset
<1>6. IsFiniteSet(heard) BY <1>2, <1>5, FS_Subset
<1> QED BY <1>3, <1>4, <1>5, <1>6 DEF TakesOver

\* Companions come last.
HostInv ==
    /\ hosts \in Seq(Keys)
    /\ iStep \notin {"companions", "done"} => hosts = <<>>

LEMMA AddIs ==
    ASSUME NameInv, BaseInv, HostInv, NEW p \in Keys, AddCompanion(p)
    PROVE  /\ p \in Kept /\ hosts' = Append(hosts, p)
           /\ Len(hosts) + 1 \in DOMAIN CompanionNames
           /\ iStep = "companions" /\ UNCHANGED <<iStep, named, raw, gaps, total, good>>
           /\ \E heard : /\ TakesOver(named[p], heard)
                         /\ links' = links \cup {Direct(Companion(Len(hosts) + 1), named[p])}
                              \cup {Mirrored(Companion(Len(hosts) + 1), l, named[p]) :
                                      l \in heard}
<1>1. /\ p \in Kept /\ hosts' = Append(hosts, p) /\ Len(hosts) < Room
      /\ iStep = "companions" /\ UNCHANGED <<iStep, named, raw, gaps, total, good>>
      BY DEF AddCompanion
<1>2. Len(hosts) + 1 \in DOMAIN CompanionNames
  <2>1. /\ Len(CompanionNames) \in Nat /\ Len(hosts) \in Nat
        /\ DOMAIN CompanionNames = 1 .. Len(CompanionNames)
        BY ImportAssumption DEF HostInv
  <2>2. IsFiniteSet(Kept) BY FS_Subset, ImportAssumption DEF NameInv
  <2>3. Cardinality(Kept) \in Nat BY <2>2, FS_CardinalityType
  <2>4. Room \in Nat /\ Room <= Len(CompanionNames)
        BY <2>1, <2>3, LeastOfThree, ImportAssumption DEF Room
  <2> QED BY <1>1, <2>1, <2>4
<1>3. PICK heard \in Strongest(Audible(named[p]), named[p]) :
            links' = links
                \cup {[a |-> <<CompanionNames[Len(hosts) + 1]>>, b |-> named[p],
                       kind |-> "direct", ab |-> CompanionSnr, ba |-> CompanionSnr]}
                \cup {Mirrored(<<CompanionNames[Len(hosts) + 1]>>, l, named[p]) : l \in heard}
      BY Zenon DEF AddCompanion
<1>4. TakesOver(named[p], heard) BY StrongestAreKept DEF BaseInv
<1> QED BY <1>1, <1>2, <1>3, <1>4 DEF Direct, Companion

\* The levels and ends of the links of a companion.
LEMMA MirroredIs ==
    ASSUME NEW c, NEW x, NEW l, l.ab \in Int, l.ba \in Int
    PROVE  /\ Mirrored(c, l, x).a = c /\ Mirrored(c, l, x).b = Other(l, x)
           /\ Mirrored(c, l, x).kind = "heard"
           /\ Mirrored(c, l, x).ab = Clamp(Level(l, x) - HalfPenalty)
           /\ Mirrored(c, l, x).ba = Clamp(Level(l, Other(l, x)) - HalfPenalty)
           /\ Level(l, x) \in Int /\ Level(l, Other(l, x)) \in Int
           /\ Mirrored(c, l, x).ab \in Int /\ Mirrored(c, l, x).ba \in Int
<1>1. Level(l, x) \in Int /\ Level(l, Other(l, x)) \in Int BY DEF Level
<1>2. \A n \in Int : Clamp(n - HalfPenalty) \in Int
  <2> SUFFICES ASSUME NEW n \in Int PROVE Clamp(n - HalfPenalty) \in Int OBVIOUS
  <2>1. n - HalfPenalty \in Int /\ SnrFloor \in Int BY ImportAssumption
  <2> QED BY <2>1, GreatestOfTwo DEF Clamp
<1>3. /\ Mirrored(c, l, x).ab = Clamp(Level(l, x) - HalfPenalty)
      /\ Mirrored(c, l, x).ba = Clamp(Level(l, Other(l, x)) - HalfPenalty)
      BY DEF Mirrored, Weakened
<1>4. Mirrored(c, l, x).ab \in Int /\ Mirrored(c, l, x).ba \in Int BY <1>1, <1>2, <1>3
<1> QED BY <1>1, <1>3, <1>4 DEF Mirrored

LEMMA CompanionStep ==
    ASSUME NameInv, BaseInv, HostInv, NEW p \in Keys, AddCompanion(p)
    PROVE  BaseInv'
<1> DEFINE c == Companion(Len(hosts) + 1)
           x == named[p]
<1>1. /\ p \in Kept /\ iStep = "companions" /\ UNCHANGED <<iStep, named, raw, gaps>>
      BY AddIs
<1>2. PICK heard : /\ TakesOver(x, heard)
                   /\ links' = links \cup {Direct(c, x)} \cup {Mirrored(c, l, x) : l \in heard}
      BY AddIs
<1> HIDE DEF c
<1> DEFINE mirrors == [l \in heard |-> Mirrored(c, l, x)]
           S == {Direct(c, x)} \cup {mirrors[l] : l \in heard}
<1>3. IsFiniteSet({mirrors[l] : l \in heard}) BY <1>2, Image DEF TakesOver
<1>4. IsFiniteSet(S) BY <1>3, FS_Singleton, FS_Union
<1>5. links' = links \cup S BY <1>2
<1>6. ASSUME NEW l \in heard
      PROVE  WellMade(named, mirrors[l]) /\ mirrors[l].kind # "measured"
  <2>1. l \in links BY <1>2 DEF TakesOver, Audible, RelayLinks
  <2>2. l.ab \in Int /\ l.ba \in Int BY <2>1 DEF BaseInv, WellMade
  <2>3. /\ mirrors[l].kind = "heard" /\ mirrors[l].ab \in Int /\ mirrors[l].ba \in Int
        BY <2>2, MirroredIs
  <2> HIDE DEF mirrors
  <2> QED BY <2>3 DEF WellMade
<1>7. WellMade(named, Direct(c, x)) /\ Direct(c, x).kind # "measured"
      BY ImportAssumption DEF WellMade, Direct
<1>8. \A l \in S : WellMade(named, l) /\ l.kind # "measured" BY <1>6, <1>7
<1>9. Merged BY <1>1 DEF Merged
<1> HIDE DEF S
<1> QED BY <1>1, <1>4, <1>5, <1>8, <1>9, MoreLinks

-----------------------------------------------------------------------------
(* import_topology: every step                                             *)

LEMMA HostStep == HostInv /\ [ImportNext]_ivars => HostInv'
<1> SUFFICES ASSUME HostInv, [ImportNext]_ivars PROVE HostInv' OBVIOUS
<1>1. ASSUME NEW p \in Keys, AddCompanion(p) PROVE HostInv'
      BY <1>1 DEF AddCompanion, HostInv
<1>2. \/ \E p \in Keys : AddCompanion(p)
      \/ hosts' = hosts /\ (iStep' = iStep \/ iStep' \in {"companions", "done"})
      \/ hosts' = hosts /\ iStep \notin {"companions", "done"}
      BY DEF ImportNext, ivars, ReadNode, ReadEdge, NodesRead, EdgesRead, Merge, StartGaps,
             FillGap, GapsFilled, Written
<1> QED BY <1>1, <1>2 DEF HostInv

\* The steps that leave the links alone.
LEMMA ReadingStep ==
    ASSUME NameInv, BaseInv,
           (\E p \in Keys : ReadNode(p)) \/ (\E e \in Measurements : ReadEdge(e))
    PROVE  BaseInv'
<1>1. ASSUME NEW p \in Keys, ReadNode(p) PROVE BaseInv'
  <2>1. /\ iStep = "nodes" /\ raw = <<>> /\ links = {} /\ DOMAIN raw = {}
        /\ UNCHANGED <<iStep, raw, links, gaps>>
        BY <1>1 DEF ReadNode, BaseInv
  <2> QED BY <2>1 DEF BaseInv, Merged
<1>2. ASSUME NEW e \in Measurements, ReadEdge(e) PROVE BaseInv'
  <2>1. /\ iStep = "edges" /\ links = {} /\ e.from \in Kept /\ e.to \in Kept
        /\ raw' = Append(raw, e) /\ raw \in Seq(Measurements)
        /\ UNCHANGED <<iStep, named, links, gaps>>
        BY <1>2 DEF ReadEdge, BaseInv
  <2>2. /\ raw' \in Seq(Measurements) /\ DOMAIN raw' = 1 .. Len(raw) + 1
        /\ DOMAIN raw = 1 .. Len(raw) /\ Len(raw) \in Nat
        /\ raw'[Len(raw) + 1] = e /\ \A i \in 1 .. Len(raw) : raw'[i] = raw[i]
        BY <2>1
  <2>3. \A i \in 1 .. Len(raw) + 1 : i \in 1 .. Len(raw) \/ i = Len(raw) + 1 BY <2>2
  <2>4. Kept' = Kept BY <2>1 DEF Kept
  <2>5. \A i \in DOMAIN raw' : raw'[i].from \in Kept /\ raw'[i].to \in Kept
        BY <2>1, <2>2, <2>3 DEF BaseInv
  <2> QED BY <2>1, <2>2, <2>4, <2>5 DEF BaseInv, Merged
<1> QED BY <1>1, <1>2

LEMMA StartGapsStep ==
    ASSUME NameInv, BaseInv, StartGaps
    PROVE  BaseInv'
<1>1. /\ iStep = "merge" /\ Unmerged = {} /\ UNCHANGED <<named, raw, links>>
      /\ iStep' \in {"gaps", "companions"}
      /\ iStep' = "gaps" => \A z \in gaps' : z \in Kept \X Kept /\ z[1] < z[2]
      BY DEF StartGaps
<1>2. \A i \in DOMAIN raw : HasLink(named, links, raw[i])
  <2> SUFFICES ASSUME NEW i \in DOMAIN raw PROVE HasLink(named, links, raw[i]) OBVIOUS
  <2>1. PICK l \in links : Ends(l) = {named[raw[i].from], named[raw[i].to]}
        BY <1>1 DEF Unmerged
  <2>2. l.kind = "measured" BY <1>1 DEF BaseInv, Merged
  <2> QED BY <2>1, <2>2 DEF HasLink
<1>3. Kept' = Kept BY <1>1 DEF Kept
<1> QED BY <1>1, <1>2, <1>3 DEF BaseInv, Merged

LEMMA BaseStep == NameInv /\ BaseInv /\ HostInv /\ [ImportNext]_ivars => BaseInv'
<1> SUFFICES ASSUME NameInv, BaseInv, HostInv, [ImportNext]_ivars PROVE BaseInv'
    OBVIOUS
<1>1. CASE (\E p \in Keys : ReadNode(p)) \/ (\E e \in Measurements : ReadEdge(e))
      BY <1>1, ReadingStep
<1>2. CASE \E p \in Keys : AddCompanion(p) BY <1>2, CompanionStep
<1>3. CASE NodesRead \/ EdgesRead \/ GapsFilled \/ Written \/ UNCHANGED ivars
  <2>1. Kept' = Kept BY <1>3 DEF NodesRead, EdgesRead, GapsFilled, Written, ivars, Kept
  <2> QED BY <1>3, <2>1
          DEF NodesRead, EdgesRead, GapsFilled, Written, ivars, BaseInv, Merged
<1>4. CASE Merge BY <1>4, MergeStep
<1>5. CASE StartGaps BY <1>5, StartGapsStep
<1>6. CASE FillGap BY <1>6, FillStep
<1> QED BY <1>1, <1>2, <1>3, <1>4, <1>5, <1>6 DEF ImportNext

ImportInv == NameInv /\ BaseInv /\ HostInv

LEMMA ImportStart == ImportInit => ImportInv
<1> SUFFICES ASSUME ImportInit PROVE ImportInv OBVIOUS
<1>1. DOMAIN named = {} /\ DOMAIN raw = {} /\ links = {} /\ iStep = "nodes"
      /\ named = <<>> /\ raw = <<>> /\ hosts = <<>>
      BY DEF ImportInit
<1>2. IsFiniteSet(links) BY <1>1, FS_EmptySet
<1>3. NameInv BY <1>1 DEF NameInv, NamesDiffer, Kept
<1>4. BaseInv BY <1>1, <1>2 DEF BaseInv, Merged
<1>5. HostInv BY <1>1 DEF HostInv
<1> QED BY <1>3, <1>4, <1>5 DEF ImportInv

LEMMA ImportStep == ImportInv /\ [ImportNext]_ivars => ImportInv'
BY NameStep, BaseStep, HostStep DEF ImportInv

\* The run of a tool leaves the other's variables alone.
LEMMA ToolStep == [Next]_vars => [ImportNext]_ivars
BY DEF Next, vars, ivars, fvars

(* Whatever the map holds and in whatever order its edges come, a          *)
(* measurement is never lost to a less trusted one, and a direction nobody *)
(* measured is guessed worse than the other.  (import_topology.py:357-425) *)
THEOREM MeasurementsWin == Spec => []MeasuredWins
<1>1. Init => ImportInv BY ImportStart DEF Init
<1>2. ImportInv /\ [Next]_vars => ImportInv' BY ImportStep, ToolStep
<1>3. ImportInv => MeasuredWins BY MeasuredShows DEF ImportInv
<1> QED BY <1>1, <1>2, <1>3, PTL DEF Spec

-----------------------------------------------------------------------------
(* import_topology: caps                                                   *)

HeldBy(N, L, p, kinds) == {l \in L : l.kind \in kinds /\ N[p] \in Ends(l)}

\* The relay links of a node, and those of them that are estimates.
Held(N, L, p) == HeldBy(N, L, p, {"measured", "inferred"})

Rated(N, L, p) == HeldBy(N, L, p, {"inferred"})

Capped(N, L, p) ==
    /\ Rated(N, L, p) # {} => Cardinality(Held(N, L, p)) <= MaxEdges
    /\ Loud(Rated(N, L, p)) # {} => Cardinality(Loud(Held(N, L, p))) <= MaxGood

\* The filler's counters, t and g at p, are at least what there is, and within
\* the caps where an estimate was added.
Tallied(N, L, p, t, g) ==
    /\ Cardinality(Held(N, L, p)) <= t
    /\ Cardinality(Loud(Held(N, L, p))) <= g
    /\ Rated(N, L, p) # {} => t <= MaxEdges
    /\ Loud(Rated(N, L, p)) # {} => g <= MaxGood

CapInv ==
    /\ \A p \in Kept : Capped(named, links, p)
    /\ iStep = "gaps" =>
          /\ total \in [Keys -> Nat] /\ good \in [Keys -> Nat]
          /\ \A p \in Kept : Tallied(named, links, p, total[p], good[p])

LEMMA HeldFinite ==
    ASSUME NEW L, IsFiniteSet(L), NEW N, NEW p
    PROVE  /\ IsFiniteSet(Held(N, L, p)) /\ Cardinality(Held(N, L, p)) \in Nat
           /\ IsFiniteSet(Loud(Held(N, L, p))) /\ Cardinality(Loud(Held(N, L, p))) \in Nat
<1>1. Held(N, L, p) \in SUBSET L /\ Loud(Held(N, L, p)) \in SUBSET L
      BY DEF Held, HeldBy, Loud
<1> QED BY <1>1, FS_Subset, FS_CardinalityType

LEMMA TalliedIsCapped ==
    ASSUME NEW L, IsFiniteSet(L), NEW N, NEW p, NEW t \in Nat, NEW g \in Nat,
           Tallied(N, L, p, t, g)
    PROVE  Capped(N, L, p)
<1>1. /\ Cardinality(Held(N, L, p)) \in Nat /\ Cardinality(Loud(Held(N, L, p))) \in Nat
      BY HeldFinite
<1> QED BY <1>1, ImportAssumption DEF Tallied, Capped

LEMMA OneMore ==
    ASSUME NEW S, IsFiniteSet(S), NEW x
    PROVE  /\ Cardinality(S) \in Nat /\ Cardinality(S \cup {x}) \in Nat
           /\ Cardinality(S \cup {x}) <= Cardinality(S) + 1
<1>1. Cardinality(S) \in Nat BY FS_CardinalityType
<1>2. Cardinality(S \cup {x}) = IF x \in S THEN Cardinality(S) ELSE Cardinality(S) + 1
      BY FS_AddElement
<1> QED BY <1>1, <1>2

\* An estimate added to a node whose counters admit it.
LEMMA TallyGrows ==
    ASSUME NEW L, IsFiniteSet(L), NEW N, NEW r, NEW t \in Nat, NEW g \in Nat,
           Tallied(N, L, r, t, g), NEW l, l.kind = "inferred", N[r] \in Ends(l),
           t < MaxEdges, l.ab \in Int, l.ab > 0 => g < MaxGood
    PROVE  Tallied(N, L \cup {l}, r, t + 1, IF l.ab > 0 THEN g + 1 ELSE g)
<1> DEFINE M == L \cup {l}
<1>1. /\ IsFiniteSet(Held(N, L, r)) /\ Cardinality(Held(N, L, r)) \in Nat
      /\ IsFiniteSet(Loud(Held(N, L, r))) /\ Cardinality(Loud(Held(N, L, r))) \in Nat
      BY HeldFinite
<1>2. Held(N, M, r) = Held(N, L, r) \cup {l} BY DEF Held, HeldBy
<1>3. Loud(Held(N, M, r)) =
        IF l.ab > 0 THEN Loud(Held(N, L, r)) \cup {l} ELSE Loud(Held(N, L, r))
      BY <1>2 DEF Loud
<1>4. l.ab <= 0 => Loud(Rated(N, M, r)) = Loud(Rated(N, L, r))
      BY DEF Loud, Rated, HeldBy
<1> HIDE DEF M
<1>5. Cardinality(Held(N, M, r)) <= t + 1
  <2>1. Cardinality(Held(N, M, r)) <= Cardinality(Held(N, L, r)) + 1
        BY <1>1, <1>2, OneMore
  <2>2. Cardinality(Held(N, M, r)) \in Nat BY <1>1, <1>2, OneMore
  <2> QED BY <1>1, <2>1, <2>2 DEF Tallied
<1>6. CASE l.ab > 0
  <2>1. Loud(Held(N, M, r)) = Loud(Held(N, L, r)) \cup {l} BY <1>3, <1>6
  <2>2. /\ Cardinality(Loud(Held(N, M, r))) <= Cardinality(Loud(Held(N, L, r))) + 1
        /\ Cardinality(Loud(Held(N, M, r))) \in Nat
        BY <1>1, <2>1, OneMore
  <2>3. Cardinality(Loud(Held(N, M, r))) <= g + 1 BY <1>1, <2>2 DEF Tallied
  <2>4. t + 1 <= MaxEdges /\ g + 1 <= MaxGood BY <1>6, ImportAssumption
  <2>5. Tallied(N, M, r, t + 1, g + 1) BY <1>5, <2>3, <2>4 DEF Tallied
  <2> QED BY <1>6, <2>5 DEF M
<1>7. CASE ~ (l.ab > 0)
  <2>1. Loud(Held(N, M, r)) = Loud(Held(N, L, r)) /\ Loud(Rated(N, M, r)) = Loud(Rated(N, L, r))
        BY <1>3, <1>4, <1>7
  <2>2. t + 1 <= MaxEdges BY ImportAssumption
  <2>3. Cardinality(Loud(Held(N, M, r))) <= g BY <2>1 DEF Tallied
  <2>4. Loud(Rated(N, M, r)) # {} => g <= MaxGood BY <2>1 DEF Tallied
  <2>5. Tallied(N, M, r, t + 1, g) BY <1>5, <2>2, <2>3, <2>4 DEF Tallied
  <2> QED BY <1>7, <2>5 DEF M
<1> QED BY <1>6, <1>7

\* A link elsewhere, or of another kind, does not count.
Elsewhere(S, N, r) ==
    \A l \in S : l.kind \notin {"measured", "inferred"} \/ N[r] \notin Ends(l)

LEMMA HeldSame ==
    ASSUME NEW L, NEW S, NEW N, NEW r, Elsewhere(S, N, r)
    PROVE  Held(N, L \cup S, r) = Held(N, L, r) /\ Rated(N, L \cup S, r) = Rated(N, L, r)
BY DEF Held, Rated, HeldBy, Elsewhere

LEMMA CapFill ==
    ASSUME ImportInv, CapInv, FillGap
    PROVE  CapInv'
<1>1. PICK p, q \in Kept, snr \in Estimates :
              /\ p < q
              /\ UNCHANGED <<iStep, named, raw, hosts>>
              /\ IF Admits(p, q, snr)
                 THEN /\ links' = links \cup {Estimated(named, p, q, snr)}
                      /\ total' = Counted(total, p, q)
                      /\ good' = IF snr > 0 THEN Counted(good, p, q) ELSE good
                 ELSE UNCHANGED <<links, total, good>>
      BY FillIs DEF ImportInv
<1>2. /\ iStep = "gaps" /\ total \in [Keys -> Nat] /\ good \in [Keys -> Nat]
      /\ \A r \in Kept : Tallied(named, links, r, total[r], good[r])
      BY DEF FillGap, CapInv
<1>3. Kept' = Kept BY <1>1 DEF Kept
<1>4. CASE ~ Admits(p, q, snr) BY <1>1, <1>3, <1>4 DEF CapInv
<1>5. CASE Admits(p, q, snr)
  <2> DEFINE l == Estimated(named, p, q, snr)
  <2>1. /\ l.kind = "inferred" /\ l.ab = snr /\ Ends(l) = {named[p], named[q]}
        BY DEF Estimated, Ends
  <2>2. /\ links' = links \cup {l} /\ total' = Counted(total, p, q)
        /\ good' = IF snr > 0 THEN Counted(good, p, q) ELSE good
        BY <1>1, <1>5
  <2> HIDE DEF l
  <2>3. p \in Keys /\ q \in Keys /\ Kept \subseteq Keys /\ p # q /\ snr \in Int
        BY <1>1, ImportAssumption DEF ImportInv, NameInv
  <2>4. ASSUME NEW f \in [Keys -> Nat]
        PROVE  /\ Counted(f, p, q) \in [Keys -> Nat]
               /\ Counted(f, p, q)[p] = f[p] + 1 /\ Counted(f, p, q)[q] = f[q] + 1
               /\ \A r \in Keys \ {p, q} : Counted(f, p, q)[r] = f[r]
        BY <2>3 DEF Counted
  <2>5. total' \in [Keys -> Nat] /\ good' \in [Keys -> Nat] BY <1>2, <2>2, <2>4
  <2>6. ASSUME NEW r \in Kept
        PROVE  Tallied(named, links', r, total'[r], good'[r])
    <3>1. CASE r \in {p, q}
      <4>1. /\ total'[r] = total[r] + 1
            /\ good'[r] = IF snr > 0 THEN good[r] + 1 ELSE good[r]
            BY <1>2, <2>2, <2>4, <3>1
      <4>2. total[r] < MaxEdges /\ (snr > 0 => good[r] < MaxGood)
        <5>1. total[r] \in Nat /\ good[r] \in Nat BY <1>2, <2>3, <3>1
        <5> QED BY <1>5, <3>1, <5>1, ImportAssumption DEF Admits, Full, HasGood
      <4>3. named[r] \in Ends(l) BY <2>1, <3>1
      <4>4. total[r] \in Nat /\ good[r] \in Nat BY <1>2, <2>3, <3>1
      <4>5. IsFiniteSet(links) BY DEF ImportInv, BaseInv
      <4>6. Tallied(named, links, r, total[r], good[r]) BY <1>2
      <4>7. Tallied(named, links \cup {l}, r, total[r] + 1,
                    IF l.ab > 0 THEN good[r] + 1 ELSE good[r])
            BY <2>1, <2>3, <4>2, <4>3, <4>4, <4>5, <4>6, TallyGrows
      <4> QED BY <2>1, <2>2, <4>1, <4>7
    <3>2. CASE r \notin {p, q}
      <4>1. total'[r] = total[r] /\ good'[r] = good[r] BY <1>2, <2>2, <2>3, <2>4, <3>2
      <4>2. named[r] \notin Ends(l)
            BY <1>1, <2>1, <3>2 DEF ImportInv, NameInv, NamesDiffer
      <4>3. Elsewhere({l}, named, r) BY <4>2 DEF Elsewhere
      <4>4. /\ Held(named, links', r) = Held(named, links, r)
            /\ Rated(named, links', r) = Rated(named, links, r)
            BY <2>2, <4>3, HeldSame
      <4> QED BY <1>2, <4>1, <4>4 DEF Tallied
    <3> QED BY <3>1, <3>2
  <2>7. IsFiniteSet(links') BY <2>2, FS_AddElement DEF ImportInv, BaseInv
  <2>8. ASSUME NEW r \in Kept PROVE Capped(named, links', r)
    <3>1. total'[r] \in Nat /\ good'[r] \in Nat BY <2>3, <2>5
    <3> QED BY <2>6, <2>7, <3>1, TalliedIsCapped
  <2> QED BY <1>1, <1>3, <2>5, <2>6, <2>8 DEF CapInv
<1> QED BY <1>4, <1>5

LEMMA CapStart ==
    ASSUME ImportInv, StartGaps
    PROVE  CapInv'
<1>1. /\ iStep = "merge" /\ UNCHANGED <<named, links>> BY DEF StartGaps
<1>2. \A l \in links : l.kind = "measured" BY <1>1 DEF ImportInv, BaseInv, Merged
<1>3. \A p : /\ Rated(named, links, p) = {} /\ Loud(Rated(named, links, p)) = {}
             /\ Held(named, links, p) = {l \in links : named[p] \in Ends(l)}
             /\ Loud(Held(named, links, p)) =
                    {l \in links : named[p] \in Ends(l) /\ l.ab > 0}
      BY <1>2 DEF Rated, Held, HeldBy, Loud
<1>4. \A p \in Kept : Capped(named, links, p) BY <1>3 DEF Capped
<1>5. Kept' = Kept BY <1>1 DEF Kept
<1>6. CASE iStep' = "gaps"
  <2> DEFINE T(p) == Held(named, links, p)
             G(p) == Loud(Held(named, links, p))
  <2>1. /\ total' = [p \in Keys |-> IF p \in Kept
                        THEN Cardinality({l \in links : named[p] \in Ends(l)}) ELSE 0]
        /\ good' = [p \in Keys |-> IF p \in Kept
                        THEN Cardinality({l \in links : named[p] \in Ends(l) /\ l.ab > 0})
                        ELSE 0]
        BY <1>6 DEF StartGaps
  <2>2. /\ total' = [p \in Keys |-> IF p \in Kept THEN Cardinality(T(p)) ELSE 0]
        /\ good' = [p \in Keys |-> IF p \in Kept THEN Cardinality(G(p)) ELSE 0]
        BY <1>3, <2>1
  <2>3. \A p : Cardinality(T(p)) \in Nat /\ Cardinality(G(p)) \in Nat
        BY HeldFinite DEF ImportInv, BaseInv
  <2>4. Kept \subseteq Keys BY DEF ImportInv, NameInv
  <2>5. total' \in [Keys -> Nat] /\ good' \in [Keys -> Nat]
    <3> HIDE DEF T, G
    <3> QED BY <2>2, <2>3
  <2>6. ASSUME NEW p \in Kept PROVE Tallied(named, links, p, total'[p], good'[p])
    <3>1. total'[p] = Cardinality(T(p)) /\ good'[p] = Cardinality(G(p))
      <4> HIDE DEF T, G
      <4> QED BY <2>2, <2>4
    <3> QED BY <1>3, <2>3, <3>1 DEF Tallied
  <2> QED BY <1>1, <1>4, <1>5, <2>5, <2>6 DEF CapInv
<1>7. CASE iStep' # "gaps" BY <1>1, <1>4, <1>5, <1>7 DEF CapInv
<1> QED BY <1>6, <1>7

LEMMA CapAdd ==
    ASSUME ImportInv, CapInv, NEW p \in Keys, AddCompanion(p)
    PROVE  CapInv'
<1> DEFINE c == Companion(Len(hosts) + 1)
<1>1. iStep = "companions" /\ UNCHANGED <<iStep, named>> BY AddIs DEF ImportInv
<1>2. PICK heard :
        links' = links \cup {Direct(c, named[p])} \cup {Mirrored(c, l, named[p]) : l \in heard}
      BY AddIs DEF ImportInv
<1> HIDE DEF c
<1> DEFINE S == {Direct(c, named[p])} \cup {Mirrored(c, l, named[p]) : l \in heard}
<1>3. links' = links \cup S BY <1>2
<1>4. \A r : Elsewhere(S, named, r) BY DEF Direct, Mirrored, Elsewhere
<1> HIDE DEF S
<1>5. \A r : /\ Held(named, links', r) = Held(named, links, r)
             /\ Rated(named, links', r) = Rated(named, links, r)
      BY <1>3, <1>4, HeldSame
<1>6. Kept' = Kept BY <1>1 DEF Kept
<1>7. \A r \in Kept : Capped(named, links', r) BY <1>5 DEF CapInv, Capped
<1> QED BY <1>1, <1>6, <1>7 DEF CapInv

LEMMA CapStep == ImportInv /\ CapInv /\ [ImportNext]_ivars => CapInv'
<1> SUFFICES ASSUME ImportInv, CapInv, [ImportNext]_ivars PROVE CapInv' OBVIOUS
<1>1. CASE FillGap BY <1>1, CapFill
<1>2. CASE StartGaps BY <1>2, CapStart
<1>3. CASE \E p \in Keys : AddCompanion(p) BY <1>3, CapAdd
<1>4. CASE GapsFilled \/ Written \/ UNCHANGED ivars
  <2>1. Kept' = Kept BY <1>4 DEF GapsFilled, Written, ivars, Kept
  <2> QED BY <1>4, <2>1 DEF GapsFilled, Written, ivars, CapInv
<1>5. CASE \/ \E p \in Keys : ReadNode(p)
           \/ \E e \in Measurements : ReadEdge(e)
           \/ NodesRead \/ EdgesRead \/ Merge
  <2>1. iStep' \in {"nodes", "edges", "merge"}
        BY <1>5 DEF ReadNode, ReadEdge, NodesRead, EdgesRead, Merge
  <2>2. \A l \in links' : l.kind = "measured"
        BY <2>1, ImportStep DEF ImportInv, BaseInv, Merged
  <2>3. \A p : Rated(named', links', p) = {} /\ Loud(Rated(named', links', p)) = {}
        BY <2>2 DEF Rated, HeldBy, Loud
  <2>4. \A p : Capped(named', links', p) BY <2>3 DEF Capped
  <2> QED BY <2>1, <2>4 DEF CapInv
<1> QED BY <1>1, <1>2, <1>3, <1>4, <1>5 DEF ImportNext

(* However many pairs the filler tries and whatever levels it draws, an     *)
(* estimated link never takes a repeater over a cap.                        *)
(* (import_topology.py:449-517)                                             *)
THEOREM CapsAreKept == Spec => []CapsHold
<1>1. Init => ImportInv /\ CapInv
  <2>1. ImportInit => CapInv BY DEF ImportInit, CapInv, Kept
  <2> QED BY <2>1, ImportStart DEF Init
<1>2. ImportInv /\ CapInv /\ [Next]_vars => (ImportInv /\ CapInv)'
      BY ImportStep, CapStep, ToolStep
<1>3. CapInv => CapsHold BY DEF CapInv, CapsHold, Capped, Held, Rated, HeldBy, AtNode
<1> QED BY <1>1, <1>2, <1>3, PTL DEF Spec

-----------------------------------------------------------------------------
(* import_topology: what a companion hears                                 *)

RelaysIn(L) == {l \in L : l.kind \in {"measured", "inferred"}}
Own(L, c) == {l \in L : l.kind = "heard" /\ c \in Ends(l)}
AtHost(L, x) == {l \in RelaysIn(L) : x \in Ends(l)}
Loudest(l) == Max({l.ab, l.ba})

\* h, a link of companion c, is the link l of the repeater x, weakened.
Echoes(h, c, x, l) ==
    /\ Other(l, x) = Other(h, c)
    /\ Level(h, c) = Clamp(Level(l, x) - HalfPenalty)
    /\ Level(h, Other(h, c)) = Clamp(Level(l, Other(h, c)) - HalfPenalty)

Outdoes(h, l) == Loudest(h) >= Loudest(l) - HalfPenalty

Mirrors(L, c, x) ==
    /\ Cardinality(Own(L, c)) <= MaxHeard
    /\ \A h \in Own(L, c) : \E l \in AtHost(L, x) : Echoes(h, c, x, l)
    /\ \A h \in Own(L, c), l \in AtHost(L, x) :
          (\A k \in Own(L, c) : Other(k, c) # Other(l, x)) => Outdoes(h, l)

\* Links heard lead from the companions there are to nodes of the map.
HeardBy(N, n, l) ==
    /\ \E i \in 1 .. n : l.a = Companion(i)
    /\ \E p \in DOMAIN N : l.b = N[p]

MirrorInv ==
    /\ DOMAIN hosts \subseteq DOMAIN CompanionNames
    /\ \A l \in links : l.kind = "heard" => HeardBy(named, Len(hosts), l)
    /\ \A i \in DOMAIN hosts :
          Companion(i) \notin Taken => Mirrors(links, Companion(i), named[hosts[i]])

LEMMA MirrorShows == MirrorInv => CompanionsMirror
BY DEF MirrorInv, CompanionsMirror, Mirrors, Own, AtHost, RelaysIn, RelayLinks, Loudest,
       Outdoes, Echoes, Companion

\* Half the penalty comes off the louder direction.
LEMMA StrengthIs ==
    ASSUME NEW l, l.ab \in Int, l.ba \in Int, l.a = l.b => l.ab = l.ba,
           NEW x \in Ends(l)
    PROVE  /\ Strength(Weakened(l, x)) = Loudest(l) - HalfPenalty
           /\ Strength(Weakened(l, x)) \in Int
<1>1. HalfPenalty \in Int BY ImportAssumption
<1>2. \/ Level(l, x) = l.ab /\ Level(l, Other(l, x)) = l.ba
      \/ Level(l, x) = l.ba /\ Level(l, Other(l, x)) = l.ab
      BY DEF Level, Other, Ends
<1>3. \/ Weakened(l, x) = [out |-> l.ab - HalfPenalty, in |-> l.ba - HalfPenalty]
      \/ Weakened(l, x) = [out |-> l.ba - HalfPenalty, in |-> l.ab - HalfPenalty]
      BY <1>2 DEF Weakened
<1>4. \/ Strength(Weakened(l, x)) = Max({l.ab - HalfPenalty, l.ba - HalfPenalty})
      \/ Strength(Weakened(l, x)) = Max({l.ba - HalfPenalty, l.ab - HalfPenalty})
      BY <1>3 DEF Strength
<1>5. l.ab - HalfPenalty \in Int /\ l.ba - HalfPenalty \in Int BY <1>1
<1>6. /\ Max({l.ab, l.ba}) = IF l.ab >= l.ba THEN l.ab ELSE l.ba
      /\ Max({l.ab - HalfPenalty, l.ba - HalfPenalty}) =
            IF l.ab - HalfPenalty >= l.ba - HalfPenalty
            THEN l.ab - HalfPenalty ELSE l.ba - HalfPenalty
      /\ Max({l.ba - HalfPenalty, l.ab - HalfPenalty}) =
            IF l.ba - HalfPenalty >= l.ab - HalfPenalty
            THEN l.ba - HalfPenalty ELSE l.ab - HalfPenalty
      BY <1>5, GreatestOfTwo
<1> QED BY <1>1, <1>4, <1>6 DEF Loudest

\* A link taken over is at least as loud as it was weakened.
LEMMA EchoIsLoud ==
    ASSUME NEW c, NEW x, NEW l, l.ab \in Int, l.ba \in Int
    PROVE  Loudest(Mirrored(c, l, x)) >= Strength(Weakened(l, x))
<1> DEFINE m == Mirrored(c, l, x)
           out == Level(l, x) - HalfPenalty
           in == Level(l, Other(l, x)) - HalfPenalty
<1>1. HalfPenalty \in Int /\ SnrFloor \in Int BY ImportAssumption
<1>2. m.ab = Clamp(out) /\ m.ba = Clamp(in) /\ out \in Int /\ in \in Int
      BY <1>1, MirroredIs
<1>3. Strength(Weakened(l, x)) = Max({out, in}) BY DEF Strength, Weakened
<1> HIDE DEF m, out, in
<1>4. Max({out, in}) = IF out >= in THEN out ELSE in BY <1>2, GreatestOfTwo
<1>5. /\ Clamp(out) = IF out >= SnrFloor THEN out ELSE SnrFloor
      /\ Clamp(in) = IF in >= SnrFloor THEN in ELSE SnrFloor
      BY <1>1, <1>2, GreatestOfTwo DEF Clamp
<1>6. m.ab \in Int /\ m.ba \in Int /\ m.ab >= out /\ m.ba >= in BY <1>1, <1>2, <1>5
<1>7. Loudest(m) = IF m.ab >= m.ba THEN m.ab ELSE m.ba BY <1>6, GreatestOfTwo DEF Loudest
<1>8. Loudest(m) >= Max({out, in}) BY <1>2, <1>4, <1>6, <1>7
<1> QED BY <1>3, <1>8 DEF m

\* The links of a new companion, in a topology whose other links are L.
LEMMA NewMirrors ==
    ASSUME ImportInv, NEW c, c \notin Taken, NEW x, NEW heard, TakesOver(x, heard),
           NEW L, RelaysIn(L) = RelayLinks,
           Own(L, c) = {Mirrored(c, l, x) : l \in heard}
    PROVE  Mirrors(L, c, x)
<1>1. AtHost(L, x) = {l \in RelayLinks : x \in Ends(l)} BY DEF AtHost
<1>2. ASSUME NEW l \in AtHost(L, x)
      PROVE  /\ l.ab \in Int /\ l.ba \in Int /\ (l.a = l.b => l.ab = l.ba)
             /\ x \in Ends(l) /\ Other(l, x) \in Taken
  <2>1. l \in links /\ l.kind \in {"measured", "inferred"} /\ x \in Ends(l)
        BY <1>1 DEF RelayLinks
  <2>2. WellMade(named, l) BY <2>1 DEF ImportInv, BaseInv
  <2>3. l.a \in Taken /\ l.b \in Taken BY <2>1, <2>2 DEF WellMade, Taken, Kept
  <2> QED BY <2>1, <2>2, <2>3 DEF WellMade, Other
<1>3. heard \subseteq AtHost(L, x) BY <1>1 DEF TakesOver, Audible
<1>4. Cardinality(Own(L, c)) <= MaxHeard
  <2> DEFINE f == [l \in heard |-> Mirrored(c, l, x)]
  <2>1. Own(L, c) = {f[l] : l \in heard} OBVIOUS
  <2> HIDE DEF f
  <2>2. IsFiniteSet(heard) /\ Cardinality(heard) <= MaxHeard BY DEF TakesOver
  <2>3. DOMAIN f = heard BY DEF f
  <2>4. /\ IsFiniteSet(Own(L, c)) /\ Cardinality(Own(L, c)) <= Cardinality(heard)
        BY <2>1, <2>2, <2>3, Image
  <2>5. Cardinality(Own(L, c)) \in Nat /\ Cardinality(heard) \in Nat
        BY <2>2, <2>4, FS_CardinalityType
  <2> QED BY <2>2, <2>4, <2>5, ImportAssumption
<1>5. ASSUME NEW l \in heard
      PROVE  /\ Echoes(Mirrored(c, l, x), c, x, l)
             /\ Other(Mirrored(c, l, x), c) = Other(l, x)
  <2> DEFINE h == Mirrored(c, l, x)
  <2>1. l.ab \in Int /\ l.ba \in Int /\ Other(l, x) \in Taken BY <1>2, <1>3
  <2>2. /\ h.a = c /\ h.b = Other(l, x)
        /\ h.ab = Clamp(Level(l, x) - HalfPenalty)
        /\ h.ba = Clamp(Level(l, Other(l, x)) - HalfPenalty)
        BY <2>1, MirroredIs
  <2> HIDE DEF h
  <2>3. Other(h, c) = Other(l, x) BY <2>2 DEF Other
  <2>4. c # Other(l, x) BY <2>1
  <2>5. Level(h, c) = h.ab /\ Level(h, Other(l, x)) = h.ba BY <2>2, <2>4 DEF Level
  <2>6. Echoes(h, c, x, l) BY <2>2, <2>3, <2>5 DEF Echoes
  <2> QED BY <2>3, <2>6 DEF h
<1>6. \A h \in Own(L, c) : \E l \in AtHost(L, x) : Echoes(h, c, x, l) BY <1>3, <1>5
<1>7. ASSUME NEW h \in Own(L, c), NEW l \in AtHost(L, x),
             \A k \in Own(L, c) : Other(k, c) # Other(l, x)
      PROVE  Outdoes(h, l)
  <2>1. PICK m \in heard : h = Mirrored(c, m, x) OBVIOUS
  <2>2. l \notin heard BY <1>5, <1>7
  <2>3. Strength(Weakened(l, x)) \in Int /\ Strength(Weakened(m, x)) \in Int
        BY <1>2, <1>3, StrengthIs
  <2>4. Strength(Weakened(m, x)) >= Strength(Weakened(l, x))
    <3>1. CASE l \in Audible(x) BY <2>2, <3>1 DEF TakesOver, Louder
    <3>2. CASE l \notin Audible(x)
      <4>1. ~ (Strength(Weakened(l, x)) > CompanionFloor) BY <1>1, <3>2 DEF Audible
      <4>2. Strength(Weakened(m, x)) > CompanionFloor BY DEF TakesOver, Audible
      <4>3. CompanionFloor \in Int BY ImportAssumption
      <4> QED BY <2>3, <4>1, <4>2, <4>3
    <3> QED BY <3>1, <3>2
  <2>5. Strength(Weakened(l, x)) = Loudest(l) - HalfPenalty BY <1>2, StrengthIs
  <2>6. m.ab \in Int /\ m.ba \in Int BY <1>2, <1>3
  <2>7. Loudest(h) >= Strength(Weakened(m, x)) BY <2>1, <2>6, EchoIsLoud
  <2>8. Loudest(h) \in Int
    <3>1. h.ab \in Int /\ h.ba \in Int BY <2>1, <2>6, MirroredIs
    <3>2. Loudest(h) = IF h.ab >= h.ba THEN h.ab ELSE h.ba
          BY <3>1, GreatestOfTwo DEF Loudest
    <3> QED BY <3>1, <3>2
  <2>9. Loudest(h) >= Strength(Weakened(l, x)) BY <2>3, <2>4, <2>7, <2>8
  <2> QED BY <2>5, <2>9 DEF Outdoes
<1> QED BY <1>4, <1>6, <1>7 DEF Mirrors

LEMMA MirrorAdd ==
    ASSUME ImportInv, MirrorInv, NEW p \in Keys, AddCompanion(p)
    PROVE  MirrorInv'
<1> DEFINE n == Len(hosts)
           c == Companion(n + 1)
           x == named[p]
<1>1. /\ p \in Kept /\ hosts' = Append(hosts, p) /\ n + 1 \in DOMAIN CompanionNames
      /\ named' = named
      BY AddIs DEF ImportInv
<1>2. PICK heard :
        /\ TakesOver(x, heard)
        /\ links' = links \cup {Direct(c, x)} \cup {Mirrored(c, l, x) : l \in heard}
      BY AddIs DEF ImportInv
<1>3. /\ n \in Nat /\ DOMAIN hosts = 1 .. n /\ DOMAIN hosts' = 1 .. n + 1 /\ Len(hosts') = n + 1
      /\ hosts'[n + 1] = p /\ \A i \in 1 .. n : hosts'[i] = hosts[i]
      BY <1>1 DEF ImportInv, HostInv
<1>4. \A i \in 1 .. n + 1 : i \in 1 .. n \/ i = n + 1 BY <1>3
<1>5. 1 .. n + 1 \subseteq DOMAIN CompanionNames BY <1>1, <1>3, <1>4 DEF MirrorInv
<1>6. \A i \in 1 .. n : Companion(i) # c
  <2> SUFFICES ASSUME NEW i \in 1 .. n, Companion(i) = Companion(n + 1) PROVE FALSE
      OBVIOUS
  <2>1. CompanionNames[i] = CompanionNames[n + 1] BY DEF Companion
  <2>2. i \in DOMAIN CompanionNames /\ n + 1 \in DOMAIN CompanionNames /\ i # n + 1
        BY <1>1, <1>3, <1>5
  <2> QED BY <2>1, <2>2, ImportAssumption
<1>7. Taken' = Taken BY <1>1 DEF Taken, Kept
<1> HIDE DEF n, c
<1>8. Direct(c, x).kind = "direct" BY DEF Direct
<1>9. ASSUME NEW l \in heard
      PROVE  /\ Mirrored(c, l, x).kind = "heard"
             /\ Mirrored(c, l, x).a = c /\ Mirrored(c, l, x).b \in Taken
  <2>1. l \in links /\ l.kind \in {"measured", "inferred"}
        BY <1>2 DEF TakesOver, Audible, RelayLinks
  <2>2. WellMade(named, l) BY <2>1 DEF ImportInv, BaseInv
  <2>3. l.a \in Taken /\ l.b \in Taken BY <2>1, <2>2 DEF WellMade, Taken, Kept
  <2>4. Other(l, x) \in Taken BY <2>3 DEF Other
  <2> QED BY <2>4 DEF Mirrored
<1>10. RelaysIn(links') = RelaysIn(links) /\ RelaysIn(links) = RelayLinks
       BY <1>2, <1>8, <1>9 DEF RelaysIn, RelayLinks
<1>11. \A l \in links' : l.kind = "heard" => HeardBy(named', Len(hosts'), l)
  <2> SUFFICES ASSUME NEW l \in links', l.kind = "heard"
               PROVE  HeardBy(named, n + 1, l)
      BY <1>1, <1>3
  <2>1. CASE l \in links
    <3>1. HeardBy(named, n, l) BY <2>1 DEF MirrorInv, n
    <3>2. 1 .. n \subseteq 1 .. n + 1 BY <1>3
    <3> QED BY <3>1, <3>2 DEF HeardBy
  <2>2. CASE l \in {Mirrored(c, m, x) : m \in heard}
    <3>1. l.a = c /\ l.b \in Taken BY <1>9, <2>2
    <3>2. n + 1 \in 1 .. n + 1 BY <1>3
    <3> QED BY <3>1, <3>2 DEF HeardBy, Taken, Kept, c
  <2> QED BY <1>2, <1>8, <2>1, <2>2
<1>12. ASSUME NEW i \in 1 .. n, Companion(i) \notin Taken
       PROVE  Mirrors(links', Companion(i), named[hosts[i]])
  <2>1. Mirrors(links, Companion(i), named[hosts[i]]) BY <1>3, <1>12 DEF MirrorInv
  <2>2. Own(links', Companion(i)) = Own(links, Companion(i))
    <3>1. \A l \in heard : Companion(i) \notin Ends(Mirrored(c, l, x))
          BY <1>6, <1>9, <1>12 DEF Ends
    <3> QED BY <1>2, <1>8, <3>1 DEF Own
  <2>3. AtHost(links', named[hosts[i]]) = AtHost(links, named[hosts[i]])
        BY <1>10 DEF AtHost
  <2> QED BY <2>1, <2>2, <2>3 DEF Mirrors
<1>13. ASSUME c \notin Taken
       PROVE  Mirrors(links', c, x)
  <2>1. ASSUME NEW l \in links, l.kind = "heard" PROVE c \notin Ends(l)
    <3>1. HeardBy(named, n, l) BY <2>1 DEF MirrorInv, n
    <3>2. l.b \in Taken BY <3>1 DEF HeardBy, Taken, Kept
    <3>3. l.a # c BY <1>6, <3>1 DEF HeardBy
    <3> QED BY <1>13, <3>2, <3>3 DEF Ends
  <2>2. \A l \in heard : c \in Ends(Mirrored(c, l, x)) BY <1>9 DEF Ends
  <2>3. Own(links', c) = {Mirrored(c, l, x) : l \in heard}
        BY <1>2, <1>8, <1>9, <2>1, <2>2 DEF Own
  <2> QED BY <1>2, <1>10, <1>13, <2>3, NewMirrors
<1>14. \A i \in DOMAIN hosts' :
          Companion(i) \notin Taken' => Mirrors(links', Companion(i), named'[hosts'[i]])
       BY <1>1, <1>3, <1>4, <1>7, <1>12, <1>13 DEF c
<1> QED BY <1>3, <1>5, <1>11, <1>14 DEF MirrorInv, Companion

LEMMA MirrorStep == ImportInv /\ MirrorInv /\ [ImportNext]_ivars => MirrorInv'
<1> SUFFICES ASSUME ImportInv, MirrorInv, [ImportNext]_ivars PROVE MirrorInv' OBVIOUS
<1>1. CASE \E p \in Keys : AddCompanion(p) BY <1>1, MirrorAdd
<1>2. CASE FillGap
  <2>1. iStep = "gaps" /\ hosts = <<>> /\ hosts' = hosts
        BY <1>2 DEF FillGap, ImportInv, HostInv
  <2>2. \A l \in links : l.kind # "heard" BY <2>1 DEF MirrorInv, HeardBy
  <2>3. \A l \in links' : l \in links \/ l.kind = "inferred"
        BY <1>2, FillIs DEF ImportInv, Estimated
  <2> QED BY <2>1, <2>2, <2>3 DEF MirrorInv
<1>3. CASE \/ \E p \in Keys : ReadNode(p)
           \/ \E e \in Measurements : ReadEdge(e)
           \/ NodesRead \/ EdgesRead \/ Merge
  <2>1. iStep' \in {"nodes", "edges", "merge"}
        BY <1>3 DEF ReadNode, ReadEdge, NodesRead, EdgesRead, Merge
  <2>2. ImportInv' BY ImportStep
  <2>3. \A l \in links' : l.kind = "measured" BY <2>1, <2>2 DEF ImportInv, BaseInv, Merged
  <2>4. hosts' = <<>> /\ DOMAIN hosts' = {} BY <2>1, <2>2 DEF ImportInv, HostInv
  <2> QED BY <2>3, <2>4 DEF MirrorInv
<1>4. CASE StartGaps \/ GapsFilled \/ Written \/ UNCHANGED ivars
  <2>1. UNCHANGED <<links, hosts, named>>
        BY <1>4 DEF StartGaps, GapsFilled, Written, ivars
  <2> QED BY <2>1 DEF MirrorInv, Taken, Kept
<1> QED BY <1>1, <1>2, <1>3, <1>4 DEF ImportNext

(* However many companions are placed, and beside which repeaters, each    *)
(* hears what its repeater hears, weaker by half the penalty, and no       *)
(* neighbour left out is louder than one kept.                             *)
(* (import_topology.py:583-665)                                            *)
THEOREM CompanionsEcho == Spec => []CompanionsMirror
<1>1. Init => ImportInv /\ MirrorInv
  <2>1. ImportInit => MirrorInv BY DEF ImportInit, MirrorInv
  <2> QED BY <2>1, ImportStart DEF Init
<1>2. ImportInv /\ MirrorInv /\ [Next]_vars => (ImportInv /\ MirrorInv)'
      BY ImportStep, MirrorStep, ToolStep
<1> QED BY <1>1, <1>2, MirrorShows, PTL DEF Spec
===============================================================================
