---------------------------- MODULE RouteProofs ----------------------------
(***************************************************************************)
(* Proofs about the route table, for every set of destinations and every   *)
(* value of the table's parameters.                                        *)
(*                                                                         *)
(* The first part is about RouteTable, the table as a set.  It rests on    *)
(* one relation between the age of a route and the two advert counts,      *)
(* Aging below: a route ages by one whenever a multiple of AgeEvery is     *)
(* passed, and starts at zero after the aging of the step that writes it.  *)
(*                                                                         *)
(* The second part is about RouteArray, the table as slots: one pass of    *)
(* the aging loop after another leaves the routes that survive it, and the *)
(* scan for the route to evict ends at one of the Victims.  What is proved *)
(* of the set then holds of the slots.                                     *)
(***************************************************************************)
EXTENDS RouteArray, FiniteSetTheorems, SequenceTheorems, TLAPS

-----------------------------------------------------------------------------
(* Arithmetic: counting modulo k                                           *)

\* The remainder and the quotient, as integers q and r the provers can use.
LEMMA DivMod ==
    ASSUME NEW n \in Nat, NEW k \in Nat \ {0},
           NEW q \in Int, q = n \div k, NEW r \in Int, r = n % k
    PROVE  n = k * q + r /\ r \in 0..(k - 1)
  OBVIOUS

\* A positive multiple of k is at least k.
LEMMA MulGE ==
    ASSUME NEW m \in Int, m >= 1, NEW k \in Nat
    PROVE  k * m >= k
  OBVIOUS

\* Division with remainder is unique.
LEMMA ModUnique ==
    ASSUME NEW k \in Nat \ {0}, NEW q \in Int, NEW p \in Int,
           NEW r \in 0..(k - 1), NEW s \in 0..(k - 1), k * q + r = k * p + s
    PROVE  r = s
<1>1. CASE q >= p + 1
  <2>1. k * (q - p) >= k
      BY <1>1, MulGE
  <2>2. k * (q - p) = k * q - k * p
      OBVIOUS
  <2>3. QED
      BY <2>1, <2>2
<1>2. CASE p >= q + 1
  <2>1. k * (p - q) >= k
      BY <1>2, MulGE
  <2>2. k * (p - q) = k * p - k * q
      OBVIOUS
  <2>3. QED
      BY <2>1, <2>2
<1>3. CASE p = q
    BY <1>3
<1>4. QED
    BY <1>1, <1>2, <1>3

\* Counting on by one: the remainder goes up by one, or from k - 1 to zero.
LEMMA ModStep ==
    ASSUME NEW n \in Nat, NEW k \in Nat \ {0}
    PROVE  /\ n % k \in 0..(k - 1)
           /\ n % k = k - 1 => (n + 1) % k = 0
           /\ n % k # k - 1 => (n + 1) % k = (n % k) + 1
<1> DEFINE r == n % k        q == n \div k
           s == (n + 1) % k  p == (n + 1) \div k
<1>1. n = k * q + r /\ r \in 0..(k - 1) /\ q \in Int
  <2>1. r \in Int /\ q \in Int
      OBVIOUS
  <2>2. QED
      BY <2>1, DivMod
<1>2. n + 1 = k * p + s /\ s \in 0..(k - 1) /\ p \in Int
  <2>1. s \in Int /\ p \in Int /\ n + 1 \in Nat
      OBVIOUS
  <2>2. QED
      BY <2>1, DivMod
<1> HIDE DEF r, q, s, p
<1>3. r = k - 1 => s = 0
  <2>1. SUFFICES ASSUME r = k - 1  PROVE s = 0
      OBVIOUS
  <2>2. k * (q + 1) = k * q + k
      BY <1>1
  <2>3. n + 1 = k * (q + 1) + 0
      BY <2>1, <2>2, <1>1
  <2>4. QED
      BY <2>3, <1>1, <1>2, ModUnique, 0 \in 0..(k - 1)
<1>4. r # k - 1 => s = r + 1
  <2>1. SUFFICES ASSUME r # k - 1  PROVE s = r + 1
      OBVIOUS
  <2>2. r + 1 \in 0..(k - 1) /\ n + 1 = k * q + (r + 1)
      BY <2>1, <1>1
  <2>3. QED
      BY <2>2, <1>1, <1>2, ModUnique
<1>5. QED
    BY <1>1, <1>3, <1>4 DEF r, s

-----------------------------------------------------------------------------
(* The inductive invariant                                                 *)

\* A destination has one route.
Unique(T) == \A e, f \in T : e.dest = f.dest => e = f

\* The table fits its slots.
Fits(T) == IsFiniteSet(T) /\ Cardinality(T) <= MaxRoutes

\* The age of a route counts the age cycles that ended since it was written,
\* at the t-th advert.
AgedFor(e, t) ==
    /\ e.at <= t
    /\ (t - (t % AgeEvery)) - (e.at - (e.at % AgeEvery)) = e.age * AgeEvery

Aging(T, t) == \A e \in T : AgedFor(e, t)

\* There was at most one admission for each advert of this age cycle.
Admission(n, t) == n <= (t % AgeEvery) + 1

IInv ==
    /\ TypeOK
    /\ Unique(table)
    /\ Fits(table)
    /\ Aging(table, seen)
    /\ Admission(admits, seen)

LEMMA IInvInit == Init => IInv
<1>1. SUFFICES ASSUME Init  PROVE IInv
    OBVIOUS
<1>2. TypeOK
    BY <1>1 DEF Init, TypeOK
<1>3. Unique(table) /\ Aging(table, seen)
    BY <1>1 DEF Init, Unique, Aging
<1>4. Fits(table)
    BY <1>1, FS_EmptySet, RouteAssumption DEF Init, Fits
<1>5. Admission(admits, seen)
  <2>1. 0 % AgeEvery \in 0..(AgeEvery - 1)
      BY RouteAssumption, ModStep
  <2>2. QED
      BY <1>1, <2>1, RouteAssumption DEF Init, Admission
<1>6. QED
    BY <1>2, <1>3, <1>4, <1>5 DEF IInv

-----------------------------------------------------------------------------
(* What the operators do to it                                             *)

\* An advert gives a route of the right type, written now, with age 0.
LEMMA RouteType ==
    ASSUME NEW d \in Dest, NEW n \in 0..MaxHops, NEW z \in HashSize, NEW t \in Nat
    PROVE  /\ Route(d, n, z, t) \in RouteEntry
           /\ Route(d, n, z, t).at = t
           /\ Route(d, n, z, t).age = 0
<1>1. n \in Nat /\ z \in Nat
    BY RouteAssumption
<1>2. n * z \in Nat
    BY <1>1
<1>3. QED
    BY <1>1, <1>2, RouteAssumption DEF Route, RouteEntry

\* A route that ages changes in nothing else.
LEMMA AgedFacts ==
    ASSUME NEW T, T \subseteq RouteEntry
    PROVE  \A f \in rt_age_entries(T) :
              \E e \in T : /\ f = [e EXCEPT !.age = e.age + 1]
                           /\ e.age + 1 <= MaxAge
                           /\ f \in RouteEntry
                           /\ f.dest = e.dest
                           /\ f.metric = e.metric
                           /\ f.at = e.at
                           /\ f.age = e.age + 1
    BY RouteAssumption DEF rt_age_entries, RouteEntry

\* Aging keeps a table within its slots.
LEMMA AgedFits ==
    ASSUME NEW T, Fits(T)
    PROVE  Fits(rt_age_entries(T))
<1> DEFINE S == {x \in T : x.age + 1 <= MaxAge}
           R == rt_age_entries(T)
           g == [e \in S |-> [e EXCEPT !.age = @ + 1]]
<1>1. IsFiniteSet(S) /\ Cardinality(S) <= Cardinality(T)
    BY FS_Subset DEF Fits
<1>2. g \in Surjection(S, R)
    BY DEF rt_age_entries, Surjection
<1> HIDE DEF S, R, g
<1>3. IsFiniteSet(R) /\ Cardinality(R) <= Cardinality(S)
    BY <1>1, <1>2, FS_Surjection
<1>4. Cardinality(S) \in Nat /\ Cardinality(T) \in Nat /\ Cardinality(R) \in Nat
    BY <1>1, <1>3, FS_CardinalityType DEF Fits
<1>5. QED
    BY <1>1, <1>3, <1>4, RouteAssumption DEF Fits, R

LEMMA AgedUnique ==
    ASSUME NEW T, T \subseteq RouteEntry, Unique(T)
    PROVE  Unique(rt_age_entries(T))
<1>1. SUFFICES ASSUME NEW f \in rt_age_entries(T), NEW g \in rt_age_entries(T),
                      f.dest = g.dest
               PROVE  f = g
    BY DEF Unique
<1>2. PICK e \in T : f = [e EXCEPT !.age = e.age + 1] /\ f.dest = e.dest
    BY AgedFacts
<1>3. PICK h \in T : g = [h EXCEPT !.age = h.age + 1] /\ g.dest = h.dest
    BY AgedFacts
<1>4. e = h
    BY <1>1, <1>2, <1>3 DEF Unique
<1>5. QED
    BY <1>2, <1>3, <1>4

\* What gives way is a route of the table.
LEMMA VictimsInTable ==
    ASSUME NEW T, NEW v \in Victims(T)
    PROVE  v \in T
    BY DEF Victims

\* The three outcomes of rt_upsert, as the proofs below use them.
LEMMA UpsertCases ==
    ASSUME NEW T, NEW n, NEW r, rt_upsert(T, n, r)
    PROVE  \/ table' = T /\ admits' = n
           \/ /\ admits' = n
              /\ \E e \in T : /\ e.dest = r.dest
                              /\ r.metric <= e.metric
                              /\ table' = (T \ {e}) \cup {Refreshed(e, r)}
           \/ /\ admits' = n + 1
              /\ \A e \in T : e.dest # r.dest
              /\ ~ Full(T)
              /\ table' = T \cup {r}
           \/ /\ admits' = n + 1
              /\ \A e \in T : e.dest # r.dest
              /\ Full(T)
              /\ ~ Useless(r)
              /\ \E v \in T : table' = (T \ {v}) \cup {r}
<1>1. CASE \E e \in T : /\ e.dest = r.dest
                        /\ table' = IF Improves(r, e)
                                    THEN (T \ {e}) \cup {Refreshed(e, r)}
                                    ELSE T
                        /\ admits' = n
    BY <1>1 DEF Improves
<1>2. CASE /\ \A e \in T : e.dest # r.dest
           /\ Refused(T, n, r)
           /\ table' = T
           /\ admits' = n
    BY <1>2
<1>3. CASE /\ \A e \in T : e.dest # r.dest
           /\ ~ Refused(T, n, r)
           /\ IF Full(T)
              THEN \E v \in Victims(T) : table' = (T \ {v}) \cup {r}
              ELSE table' = T \cup {r}
           /\ admits' = n + 1
  <2>1. CASE Full(T)
      BY <1>3, <2>1, VictimsInTable DEF Refused
  <2>2. CASE ~ Full(T)
      BY <1>3, <2>2
  <2>3. QED
      BY <2>1, <2>2
<1>4. QED
    BY <1>1, <1>2, <1>3 DEF rt_upsert

\* The entry of r with another use count is r's in every other field.
LEMMA RefreshedFields ==
    ASSUME NEW r \in RouteEntry, NEW e \in RouteEntry
    PROVE  /\ Refreshed(e, r) \in RouteEntry
           /\ Refreshed(e, r).dest = r.dest
           /\ Refreshed(e, r).metric = r.metric
           /\ Refreshed(e, r).at = r.at
           /\ Refreshed(e, r).age = r.age
           /\ Refreshed(e, r).use_count = e.use_count
    BY DEF RouteEntry, Refreshed

\* A route of the new table is an old one, or was written by r.
LEMMA UpsertOrigin ==
    ASSUME NEW T, T \subseteq RouteEntry, NEW n \in Nat, NEW r \in RouteEntry,
           rt_upsert(T, n, r)
    PROVE  /\ \A f \in table' : \/ f \in T
                                \/ /\ f \in RouteEntry
                                   /\ f.dest = r.dest
                                   /\ f.metric = r.metric
                                   /\ f.at = r.at
                                   /\ f.age = r.age
           /\ admits' \in {n, n + 1}
<1>1. CASE \E e \in T : table' = (T \ {e}) \cup {Refreshed(e, r)}
  <2>1. PICK e \in T : table' = (T \ {e}) \cup {Refreshed(e, r)}
      BY <1>1
  <2>2. e \in RouteEntry
      OBVIOUS
  <2>3. QED
      BY <2>1, <2>2, RefreshedFields, UpsertCases
<1>2. CASE table' = T \/ table' = T \cup {r} \/ \E v \in T : table' = (T \ {v}) \cup {r}
    BY <1>2, UpsertCases
<1>3. QED
    BY <1>1, <1>2, UpsertCases

LEMMA UpsertUnique ==
    ASSUME NEW T, T \subseteq RouteEntry, Unique(T), NEW n \in Nat,
           NEW r \in RouteEntry, rt_upsert(T, n, r)
    PROVE  Unique(table)'
<1>1. CASE table' = T
    BY <1>1 DEF Unique
<1>2. CASE \E e \in T : /\ e.dest = r.dest
                        /\ table' = (T \ {e}) \cup {Refreshed(e, r)}
  <2>1. PICK e \in T : /\ e.dest = r.dest
                       /\ table' = (T \ {e}) \cup {Refreshed(e, r)}
      BY <1>2
  <2>2. \A f \in T \ {e} : f.dest # r.dest
      BY <2>1 DEF Unique
  <2>3. Refreshed(e, r).dest = r.dest
      BY RefreshedFields, e \in RouteEntry
  <2>4. QED
      BY <2>1, <2>2, <2>3 DEF Unique
<1>3. CASE /\ \A e \in T : e.dest # r.dest
           /\ \E v : table' = (T \ {v}) \cup {r}
    BY <1>3 DEF Unique
<1>4. CASE (\A e \in T : e.dest # r.dest) /\ table' = T \cup {r}
    BY <1>4 DEF Unique
<1>5. QED
    BY <1>1, <1>2, <1>3, <1>4, UpsertCases

\* One route in the place of another takes no more slots.
LEMMA SwapFits ==
    ASSUME NEW T, Fits(T), NEW e \in T, NEW x
    PROVE  Fits((T \ {e}) \cup {x})
<1> DEFINE R == T \ {e}
<1>1. IsFiniteSet(R) /\ Cardinality(R) = Cardinality(T) - 1
    BY FS_RemoveElement DEF Fits
<1>2. Cardinality(T) \in Nat
    BY FS_CardinalityType DEF Fits
<1> HIDE DEF R
<1>3. /\ IsFiniteSet(R \cup {x})
      /\ Cardinality(R \cup {x}) = IF x \in R THEN Cardinality(R) ELSE Cardinality(R) + 1
    BY <1>1, FS_AddElement
<1>4. Fits(R \cup {x})
    BY <1>1, <1>2, <1>3, RouteAssumption DEF Fits
<1>5. QED
    BY <1>4 DEF R

LEMMA UpsertFits ==
    ASSUME NEW T, Fits(T), NEW n \in Nat, NEW r, rt_upsert(T, n, r)
    PROVE  Fits(table)'
<1>2. Cardinality(T) \in Nat
    BY FS_CardinalityType DEF Fits
<1>3. CASE table' = T
    BY <1>3 DEF Fits
<1>4. CASE \E e \in T : \E x : table' = (T \ {e}) \cup {x}
  <2>1. PICK e \in T : \E x : table' = (T \ {e}) \cup {x}
      BY <1>4
  <2>2. QED
      BY <2>1, SwapFits
<1>5. CASE ~ Full(T) /\ table' = T \cup {r}
  <2>1. /\ IsFiniteSet(table')
        /\ Cardinality(table') = IF r \in T THEN Cardinality(T) ELSE Cardinality(T) + 1
      BY <1>5, FS_AddElement DEF Fits
  <2>2. QED
      BY <1>2, <1>5, <2>1, RouteAssumption DEF Full, Fits
<1>6. \/ table' = T
      \/ \E e \in T : \E x : table' = (T \ {e}) \cup {x}
      \/ ~ Full(T) /\ table' = T \cup {r}
  <2>1. \A e \in T : table' = (T \ {e}) \cup {Refreshed(e, r)} =>
           \E x : table' = (T \ {e}) \cup {x}
      BY Zenon
  <2>2. QED
      BY <2>1, UpsertCases
<1>7. QED
    BY <1>3, <1>4, <1>5, <1>6

-----------------------------------------------------------------------------
(* The steps                                                               *)

\* The table and the count of admissions an advert meets, after any aging.
OpensCycle == (seen + 1) % AgeEvery = 0
Met        == IF OpensCycle THEN rt_age_entries(table) ELSE table
Spent      == IF OpensCycle THEN 0 ELSE admits

LEMMA AdvertMeets ==
    ASSUME NEW d, NEW n, NEW z, Advert(d, n, z)
    PROVE  seen' = seen + 1 /\ rt_upsert(Met, Spent, Route(d, n, z, seen + 1))
    BY DEF Advert, Met, Spent, OpensCycle

\* The aging of the table and of its routes go together.
LEMMA MetAging ==
    ASSUME IInv
    PROVE  Aging(Met, seen + 1)
<1> DEFINE s == seen % AgeEvery  t == (seen + 1) % AgeEvery
<1>1. seen \in Nat /\ AgeEvery \in Nat \ {0} /\ table \subseteq RouteEntry
    BY RouteAssumption DEF IInv, TypeOK
<1>2. /\ s \in 0..(AgeEvery - 1)
      /\ s = AgeEvery - 1 => t = 0
      /\ s # AgeEvery - 1 => t = s + 1
    BY <1>1, ModStep
<1>3. \A e \in table : /\ e.at \in Nat /\ e.age \in Nat
                       /\ e.at % AgeEvery \in Nat
                       /\ e.at <= seen
                       /\ (seen - s) - (e.at - (e.at % AgeEvery)) = e.age * AgeEvery
  <2>1. \A e \in table : e.at \in Nat /\ e.age \in Nat
      BY <1>1, RouteAssumption DEF RouteEntry
  <2>2. \A a \in Nat : a % AgeEvery \in Nat
      BY <1>1
  <2>3. QED
      BY <2>1, <2>2 DEF IInv, Aging, AgedFor
<1>4. CASE OpensCycle
  <2>1. s = AgeEvery - 1 /\ t = 0
      BY <1>1, <1>2, <1>4 DEF OpensCycle
  <2>2. SUFFICES ASSUME NEW f \in rt_age_entries(table)
                 PROVE  AgedFor(f, seen + 1)
      BY <1>4 DEF Aging, Met
  <2>3. PICK e \in table : f.at = e.at /\ f.age = e.age + 1
      BY <1>1, AgedFacts
  <2>4. (e.age + 1) * AgeEvery = e.age * AgeEvery + AgeEvery
      BY <1>1, <1>3
  <2>5. e.age * AgeEvery \in Nat
      BY <1>1, <1>3
  <2> HIDE DEF s, t
  <2>6. e.at <= seen + 1
        /\ ((seen + 1) - t) - (e.at - (e.at % AgeEvery)) = (e.age + 1) * AgeEvery
    <3> DEFINE a == e.at % AgeEvery  b == e.age * AgeEvery
    <3>1. /\ a \in Nat /\ b \in Nat /\ e.at \in Nat /\ e.at <= seen
          /\ (seen - s) - (e.at - a) = b
        BY <1>3, <2>5
    <3> HIDE DEF a, b
    <3>2. ((seen + 1) - t) - (e.at - a) = b + AgeEvery
        BY <1>1, <2>1, <3>1
    <3>3. QED
        BY <1>1, <2>4, <3>1, <3>2 DEF a, b
  <2>7. QED
      BY <2>3, <2>6 DEF AgedFor, t
<1>5. CASE ~ OpensCycle
  <2>1. t = s + 1
      BY <1>1, <1>2, <1>5 DEF OpensCycle
  <2>2. SUFFICES ASSUME NEW e \in table
                 PROVE  AgedFor(e, seen + 1)
      BY <1>5 DEF Aging, Met
  <2>3. e.age * AgeEvery \in Nat
      BY <1>1, <1>3
  <2> HIDE DEF s, t
  <2>4. e.at <= seen + 1
        /\ ((seen + 1) - t) - (e.at - (e.at % AgeEvery)) = e.age * AgeEvery
      BY <1>1, <1>2, <1>3, <2>1, <2>3
  <2>5. QED
      BY <2>4 DEF AgedFor, t
<1>6. QED
    BY <1>4, <1>5

\* What an advert meets satisfies the invariant for its own number.
LEMMA MetFacts ==
    ASSUME IInv
    PROVE  /\ Met \subseteq RouteEntry
           /\ Unique(Met)
           /\ Fits(Met)
           /\ Spent \in Nat
           /\ Spent <= (seen + 1) % AgeEvery
<1>1. /\ table \subseteq RouteEntry /\ Unique(table) /\ Fits(table)
      /\ seen \in Nat /\ admits \in Nat /\ AgeEvery \in Nat \ {0}
      /\ admits <= (seen % AgeEvery) + 1
    BY RouteAssumption DEF IInv, TypeOK, Admission
<1>2. Met \subseteq RouteEntry
    BY <1>1, AgedFacts DEF Met
<1>3. Unique(Met) /\ Fits(Met)
    BY <1>1, AgedUnique, AgedFits DEF Met
<1>4. Spent \in Nat /\ Spent <= (seen + 1) % AgeEvery
  <2>1. (seen + 1) % AgeEvery \in Nat
      BY <1>1
  <2>2. ~ OpensCycle => (seen + 1) % AgeEvery = (seen % AgeEvery) + 1
      BY <1>1, ModStep DEF OpensCycle
  <2>3. QED
      BY <1>1, <2>1, <2>2 DEF Spent
<1>5. QED
    BY <1>2, <1>3, <1>4

\* An advert preserves the invariant.
LEMMA AdvertStep ==
    ASSUME IInv, NEW d \in Dest, NEW n \in 0..MaxHops, NEW z \in HashSize,
           Advert(d, n, z)
    PROVE  IInv'
<1> DEFINE r == Route(d, n, z, seen + 1)
<1>1. seen \in Nat /\ seen' = seen + 1 /\ AgeEvery \in Nat \ {0}
    BY AdvertMeets, RouteAssumption DEF IInv, TypeOK
<1>2. r \in RouteEntry /\ r.at = seen + 1 /\ r.age = 0
    BY <1>1, RouteType, seen + 1 \in Nat
<1>3. rt_upsert(Met, Spent, r)
    BY AdvertMeets
<1> HIDE DEF r
<1>4. /\ Met \subseteq RouteEntry /\ Unique(Met) /\ Fits(Met)
      /\ Spent \in Nat /\ Spent <= (seen + 1) % AgeEvery
      /\ Aging(Met, seen + 1)
    BY MetFacts, MetAging
<1>5. /\ \A f \in table' : \/ f \in Met
                           \/ f \in RouteEntry /\ f.at = seen + 1 /\ f.age = 0
      /\ admits' \in {Spent, Spent + 1}
    BY <1>2, <1>3, <1>4, UpsertOrigin
<1>6. TypeOK'
    BY <1>1, <1>4, <1>5 DEF TypeOK
<1>7. Unique(table)' /\ Fits(table)'
    BY <1>2, <1>3, <1>4, UpsertUnique, UpsertFits
<1>8. Aging(table, seen)'
  <2>1. SUFFICES ASSUME NEW f \in table'
                 PROVE  AgedFor(f, seen + 1)
      BY <1>1 DEF Aging
  <2>2. CASE f \in Met
      BY <1>4, <2>2 DEF Aging
  <2>3. CASE f.at = seen + 1 /\ f.age = 0
    <3>1. (seen + 1) % AgeEvery \in Nat
        BY <1>1
    <3>2. QED
        BY <1>1, <2>3, <3>1 DEF AgedFor
  <2>4. QED
      BY <1>5, <2>2, <2>3
<1>9. Admission(admits, seen)'
  <2>1. (seen + 1) % AgeEvery \in Nat
      BY <1>1
  <2>2. QED
      BY <1>1, <1>4, <1>5, <2>1 DEF Admission
<1>10. QED
    BY <1>6, <1>7, <1>8, <1>9 DEF IInv

\* Sending over a route changes its number of uses and nothing else.
LEMMA SendFacts ==
    ASSUME IInv, NEW e \in table, Send(e)
    PROVE  \E g \in RouteEntry :
              /\ table' = (table \ {e}) \cup {g}
              /\ g.dest = e.dest
              /\ g.metric = e.metric
              /\ g.age = e.age
              /\ g.at = e.at
              /\ g.use_count >= e.use_count
              /\ UNCHANGED <<seen, admits>>
<1> DEFINE u == IF e.use_count < UseCap THEN e.use_count + 1 ELSE e.use_count
           g == [e EXCEPT !.use_count = u]
<1>1. e \in RouteEntry
    BY DEF IInv, TypeOK
<1>2. u \in 0..UseCap /\ u >= e.use_count
    BY <1>1, RouteAssumption DEF RouteEntry
<1>3. table' = (table \ {e}) \cup {g} /\ UNCHANGED <<seen, admits>>
    BY DEF Send
<1> HIDE DEF u
<1>4. /\ g \in RouteEntry /\ g.dest = e.dest /\ g.metric = e.metric
      /\ g.age = e.age /\ g.at = e.at /\ g.use_count >= e.use_count
    BY <1>1, <1>2 DEF RouteEntry
<1> HIDE DEF g
<1>5. QED
    BY <1>3, <1>4

LEMMA SendStep ==
    ASSUME IInv, NEW e \in table, Send(e)
    PROVE  IInv'
<1>1. PICK g \in RouteEntry : /\ table' = (table \ {e}) \cup {g}
                              /\ g.dest = e.dest
                              /\ g.age = e.age
                              /\ g.at = e.at
                              /\ UNCHANGED <<seen, admits>>
    BY SendFacts
<1>2. TypeOK'
    BY <1>1 DEF IInv, TypeOK
<1>3. Unique(table)'
    BY <1>1 DEF IInv, Unique
<1>4. Fits(table)'
    BY <1>1, SwapFits DEF IInv
<1>5. Aging(table, seen)'
    BY <1>1 DEF IInv, Aging, AgedFor
<1>6. Admission(admits, seen)'
    BY <1>1 DEF IInv, Admission
<1>7. QED
    BY <1>2, <1>3, <1>4, <1>5, <1>6 DEF IInv

LEMMA IInvStep == IInv /\ [Next]_vars => IInv'
<1>1. SUFFICES ASSUME IInv, [Next]_vars  PROVE IInv'
    OBVIOUS
<1>2. ASSUME NEW d \in Dest, NEW n \in 0..MaxHops, NEW z \in HashSize, Advert(d, n, z)
      PROVE  IInv'
    BY <1>1, <1>2, AdvertStep
<1>3. ASSUME NEW e \in table, Send(e)
      PROVE  IInv'
    BY <1>1, <1>3, SendStep
<1>4. CASE UNCHANGED vars
    BY <1>1, <1>4 DEF IInv, TypeOK, Unique, Fits, Aging, AgedFor, Admission, vars
<1>5. QED
    BY <1>1, <1>2, <1>3, <1>4 DEF Next

LEMMA Invariance == Spec => []IInv
    BY IInvInit, IInvStep, PTL DEF Spec

-----------------------------------------------------------------------------
(* Theorems                                                                *)

\* The table holds well-formed routes and the counters are naturals.
THEOREM TypeCorrect == Spec => []TypeOK
<1>1. IInv => TypeOK
    BY DEF IInv
<1>2. QED
    BY <1>1, Invariance, PTL

\* rt_upsert and rt_age_entries never leave a destination with two routes, nor
\* more routes than slots.
THEOREM OneRoutePerDest == Spec => [](Unique(table) /\ Fits(table))
<1>1. IInv => Unique(table) /\ Fits(table)
    BY DEF IInv
<1>2. QED
    BY <1>1, Invariance, PTL

\* rt_age_entries: a route that adverts do not renew is gone within MaxAge + 1
\* age cycles, for every table size, age limit and cycle length.
THEOREM Expiry == Spec => []StaleRoutesExpire
<1>1. IInv => StaleRoutesExpire
  <2>1. SUFFICES ASSUME IInv, NEW e \in table
                 PROVE  seen - e.at < (MaxAge + 1) * AgeEvery
      BY DEF StaleRoutesExpire
  <2> DEFINE s == seen % AgeEvery  a == e.at % AgeEvery
             b == e.age * AgeEvery  m == MaxAge * AgeEvery
  <2>2. /\ seen \in Nat /\ e.at \in Nat /\ e.age \in Nat /\ e.age <= MaxAge
        /\ AgeEvery \in Nat \ {0} /\ MaxAge \in Nat
      BY <2>1, RouteAssumption DEF IInv, TypeOK, RouteEntry
  <2>3. s \in 0..(AgeEvery - 1) /\ a \in 0..(AgeEvery - 1)
      BY <2>2, ModStep
  <2>4. (seen - s) - (e.at - a) = b
      BY <2>1 DEF IInv, Aging, AgedFor
  <2>5. b <= m /\ b \in Nat /\ m \in Nat
    <3>1. b \in Nat /\ m \in Nat /\ (MaxAge - e.age) * AgeEvery \in Nat
        BY <2>2
    <3>2. (MaxAge - e.age) * AgeEvery = m - b
        BY <2>2
    <3>3. QED
        BY <3>1, <3>2
  <2>6. (MaxAge + 1) * AgeEvery = m + AgeEvery
      BY <2>2
  <2> HIDE DEF s, a, b, m
  <2>7. QED
      BY <2>2, <2>3, <2>4, <2>5, <2>6
<1>2. QED
    BY <1>1, Invariance, PTL

\* rt_admits_this_cycle: a limit of one admission per advert of the age cycle,
\* as the sources set it, refuses no advert.
THEOREM LimitHarmless == Spec => []LimitNeverBites
<1>1. IInv => LimitNeverBites
  <2>1. SUFFICES ASSUME IInv, AdmitPerCycle >= AgeEvery, admits >= AdmitPerCycle
                 PROVE  (seen + 1) % AgeEvery = 0
      BY DEF LimitNeverBites
  <2>2. seen \in Nat /\ admits \in Nat /\ AgeEvery \in Nat \ {0} /\ AdmitPerCycle \in Nat
      BY <2>1, RouteAssumption DEF IInv, TypeOK
  <2>3. seen % AgeEvery \in 0..(AgeEvery - 1) /\ admits <= (seen % AgeEvery) + 1
      BY <2>1, <2>2, ModStep DEF IInv, Admission
  <2>4. seen % AgeEvery = AgeEvery - 1
      BY <2>1, <2>2, <2>3
  <2>5. QED
      BY <2>2, <2>4, ModStep
<1>2. QED
    BY <1>1, Invariance, PTL

\* What an advert finds of a route of the table: the route, one age older if
\* the advert opens a cycle, or nothing when the route was as old as it may be.
LEMMA MetOrExpired ==
    ASSUME IInv, NEW e \in table
    PROVE  \/ \E f \in Met : /\ f.dest = e.dest /\ f.metric = e.metric
                             /\ f.use_count = e.use_count
           \/ e.age = MaxAge /\ OpensCycle
<1>1. e \in RouteEntry /\ e.age \in Nat /\ e.age <= MaxAge /\ MaxAge \in Nat
    BY RouteAssumption DEF IInv, TypeOK, RouteEntry
<1>2. CASE ~ OpensCycle
    BY <1>2 DEF Met
<1>3. CASE OpensCycle /\ e.age # MaxAge
  <2>1. e.age + 1 <= MaxAge
      BY <1>1, <1>3
  <2>2. [e EXCEPT !.age = e.age + 1] \in rt_age_entries(table)
      BY <2>1 DEF rt_age_entries
  <2>3. /\ [e EXCEPT !.age = e.age + 1].dest = e.dest
        /\ [e EXCEPT !.age = e.age + 1].metric = e.metric
        /\ [e EXCEPT !.age = e.age + 1].use_count = e.use_count
      BY <1>1 DEF RouteEntry
  <2>4. QED
      BY <1>3, <2>2, <2>3 DEF Met
<1>4. QED
    BY <1>2, <1>3

\* Of two routes to a destination before and after rt_upsert, the later is not
\* the longer one, and has as many uses.
LEMMA UpsertImproves ==
    ASSUME NEW T, T \subseteq RouteEntry, Unique(T), NEW n \in Nat,
           NEW r \in RouteEntry, rt_upsert(T, n, r),
           NEW e \in T, NEW f \in table', f.dest = e.dest
    PROVE  f.metric <= e.metric /\ f.use_count = e.use_count
<1>1. e.metric \in Nat /\ f.metric \in Nat
    BY UpsertOrigin DEF RouteEntry
<1>2. CASE f \in T
    BY <1>1, <1>2 DEF Unique
<1>3. CASE f \notin T
  <2>1. CASE \E g \in T : /\ g.dest = r.dest
                          /\ r.metric <= g.metric
                          /\ table' = (T \ {g}) \cup {Refreshed(g, r)}
    <3>1. PICK g \in T : /\ g.dest = r.dest
                         /\ r.metric <= g.metric
                         /\ table' = (T \ {g}) \cup {Refreshed(g, r)}
        BY <2>1
    <3>2. f = Refreshed(g, r) /\ g \in RouteEntry
        BY <1>3, <3>1
    <3>3. f.dest = r.dest /\ f.metric = r.metric /\ f.use_count = g.use_count
        BY <3>2, RefreshedFields
    <3>4. g = e
        BY <3>1, <3>3 DEF Unique
    <3>5. QED
        BY <3>1, <3>3, <3>4
  <2>2. CASE \A g \in T : g.dest # r.dest
    <3>1. f.dest = r.dest
        BY <1>3, UpsertOrigin
    <3>2. QED
        BY <2>2, <3>1
  <2>3. QED
      BY <1>3, <2>1, <2>2, UpsertCases
<1>4. QED
    BY <1>2, <1>3

\* A step makes a route longer or takes uses from it only in expiring it.
LEMMA WorseStep ==
    IInv /\ [Next]_vars =>
        \A e \in table, f \in table' :
            e.dest = f.dest /\ (f.metric > e.metric \/ f.use_count < e.use_count) =>
                e.age = MaxAge /\ seen' % AgeEvery = 0
<1>1. SUFFICES ASSUME IInv, [Next]_vars, NEW e \in table, NEW f \in table',
                      e.dest = f.dest,
                      f.metric > e.metric \/ f.use_count < e.use_count
               PROVE  e.age = MaxAge /\ seen' % AgeEvery = 0
    OBVIOUS
<1>2. /\ table \subseteq RouteEntry /\ Unique(table) /\ seen \in Nat
      /\ e.metric \in Nat /\ e.use_count \in Nat
    BY <1>1 DEF IInv, TypeOK, RouteEntry
<1>3. ASSUME NEW d \in Dest, NEW n \in 0..MaxHops, NEW z \in HashSize, Advert(d, n, z)
      PROVE  e.age = MaxAge /\ seen' % AgeEvery = 0
  <2> DEFINE r == Route(d, n, z, seen + 1)
  <2>1. /\ Met \subseteq RouteEntry /\ Unique(Met) /\ Spent \in Nat
        /\ r \in RouteEntry /\ rt_upsert(Met, Spent, r) /\ seen' = seen + 1
      BY <1>1, <1>2, <1>3, MetFacts, RouteType, AdvertMeets, seen + 1 \in Nat
  <2> HIDE DEF r
  <2>2. \A g \in Met : ~ (/\ g.dest = e.dest /\ g.metric = e.metric
                          /\ g.use_count = e.use_count)
    <3>1. SUFFICES ASSUME NEW g \in Met, g.dest = e.dest, g.metric = e.metric,
                          g.use_count = e.use_count
                   PROVE  FALSE
        OBVIOUS
    <3>2. f.metric <= g.metric /\ f.use_count = g.use_count
        BY <1>1, <2>1, <3>1, UpsertImproves
    <3>3. f.metric \in Nat
        BY <2>1, UpsertOrigin DEF RouteEntry
    <3>4. QED
        BY <1>1, <1>2, <3>1, <3>2, <3>3
  <2>3. QED
      BY <1>1, <2>1, <2>2, MetOrExpired DEF OpensCycle
<1>4. ASSUME NEW h \in table, Send(h)
      PROVE  FALSE
  <2>1. PICK g \in RouteEntry : /\ table' = (table \ {h}) \cup {g}
                                /\ g.dest = h.dest
                                /\ g.metric = h.metric
                                /\ g.use_count >= h.use_count
      BY <1>1, <1>4, SendFacts
  <2>2. /\ f.use_count \in Nat
        /\ \E k \in table : /\ k.dest = f.dest /\ k.metric = f.metric
                            /\ f.use_count >= k.use_count
    <3>1. f \in table \/ f = g BY <1>1, <2>1
    <3>2. CASE f = g
      <4>1. f.use_count \in Nat BY <2>1, <3>2, RouteAssumption DEF RouteEntry
      <4> QED BY <1>4, <2>1, <3>2, <4>1
    <3>3. CASE f \in table
      <4>1. f.use_count \in Nat BY <1>2, <3>3, RouteAssumption DEF RouteEntry
      <4> QED BY <3>3, <4>1
    <3> QED BY <3>1, <3>2, <3>3
  <2>3. f.metric = e.metric /\ f.use_count >= e.use_count
      BY <1>1, <1>2, <2>2 DEF Unique
  <2>4. QED
      BY <1>1, <1>2, <2>2, <2>3
<1>5. CASE UNCHANGED vars
  <2>1. f = e
      BY <1>1, <1>2, <1>5 DEF Unique, vars
  <2>2. QED
      BY <1>1, <1>2, <2>1
<1>6. QED
    BY <1>1, <1>3, <1>4, <1>5 DEF Next

\* onAdvertRecv ages the table before it updates it, and rt_upsert compares
\* metrics and keeps the number of uses, which sendTextTo counts up to a cap: a
\* live route never gets longer or loses uses.
THEOREM RoutesKeepWorth == Spec => RoutesWorsenOnlyByExpiry
<1>1. IInv /\ [Next]_vars =>
        [\A e \in table, f \in table' :
            e.dest = f.dest /\ (f.metric > e.metric \/ f.use_count < e.use_count) =>
                e.age = MaxAge /\ seen' % AgeEvery = 0]_vars
    BY WorseStep
<1>2. QED
    BY <1>1, Invariance, PTL DEF Spec, RoutesWorsenOnlyByExpiry

\* A destination in T stays in the table, or the table is full and r has a path.
LEMMA UpsertKeeps ==
    ASSUME NEW T, T \subseteq RouteEntry, Fits(T), NEW n \in Nat,
           NEW r \in RouteEntry, rt_upsert(T, n, r), NEW g \in T
    PROVE  \/ \E f \in table' : f.dest = g.dest
           \/ r \in table' /\ ~ Useless(r) /\ Cardinality(table') = MaxRoutes
<1>1. CASE table' = T \/ table' = T \cup {r}
    BY <1>1
<1>2. CASE \E e \in T : e.dest = r.dest /\ table' = (T \ {e}) \cup {Refreshed(e, r)}
  <2>1. PICK e \in T : e.dest = r.dest /\ table' = (T \ {e}) \cup {Refreshed(e, r)}
      BY <1>2
  <2>2. Refreshed(e, r).dest = e.dest
      BY <2>1, RefreshedFields, e \in RouteEntry
  <2>3. QED
      BY <2>1, <2>2
<1>3. CASE /\ \A e \in T : e.dest # r.dest
           /\ Full(T)
           /\ ~ Useless(r)
           /\ \E v \in T : table' = (T \ {v}) \cup {r}
  <2>1. PICK v \in T : table' = (T \ {v}) \cup {r}
      BY <1>3
  <2>2. r \notin T
      BY <1>3
  <2> DEFINE R == T \ {v}
  <2>3. IsFiniteSet(R) /\ Cardinality(R) = Cardinality(T) - 1
      BY FS_RemoveElement DEF Fits
  <2>4. Cardinality(T) \in Nat /\ Cardinality(T) = MaxRoutes
      BY <1>3, FS_CardinalityType, RouteAssumption DEF Fits, Full
  <2>5. r \notin R /\ table' = R \cup {r}
      BY <2>1, <2>2
  <2> HIDE DEF R
  <2>6. Cardinality(R \cup {r}) = Cardinality(R) + 1
      BY <2>3, <2>5, FS_AddElement
  <2>7. Cardinality(table') = MaxRoutes
      BY <2>3, <2>4, <2>5, <2>6
  <2>8. r \in table'
      BY <2>5
  <2>9. QED
      BY <1>3, <2>7, <2>8
<1>4. QED
    BY <1>1, <1>2, <1>3, UpsertCases

\* What FreshRoutesStay says of route e in one step.
Kept(e) ==
    \/ \E f \in table' : f.dest = e.dest
    \/ seen' - e.at > MaxAge * AgeEvery
    \/ \E f \in table' : ~ Useless(f) /\ f.at = seen'
                         /\ Cardinality(table') = MaxRoutes

\* A step keeps a route that is not too old, or evicts it.
LEMMA FreshStep == IInv /\ [Next]_vars => \A e \in table : Kept(e)
<1>1. SUFFICES ASSUME IInv, [Next]_vars, NEW e \in table
               PROVE  Kept(e)
    OBVIOUS
<1>2. table \subseteq RouteEntry /\ seen \in Nat /\ AgeEvery \in Nat \ {0}
      /\ e \in RouteEntry /\ e.at \in Nat /\ e.age \in Nat
    BY <1>1, RouteAssumption DEF IInv, TypeOK, RouteEntry
<1> USE DEF Kept
<1>3. ASSUME NEW d \in Dest, NEW n \in 0..MaxHops, NEW z \in HashSize, Advert(d, n, z)
      PROVE  Kept(e)
  <2> DEFINE r == Route(d, n, z, seen + 1)
  <2>1. /\ Met \subseteq RouteEntry /\ Fits(Met) /\ Spent \in Nat
        /\ r \in RouteEntry /\ r.at = seen + 1
        /\ rt_upsert(Met, Spent, r) /\ seen' = seen + 1
      BY <1>1, <1>2, <1>3, MetFacts, RouteType, AdvertMeets, seen + 1 \in Nat
  <2> HIDE DEF r
  <2>2. CASE \E g \in Met : g.dest = e.dest
    <3>1. PICK g \in Met : g.dest = e.dest
        BY <2>2
    <3>2. CASE \E f \in table' : f.dest = g.dest
        BY <3>1, <3>2
    <3>3. CASE r \in table' /\ ~ Useless(r) /\ Cardinality(table') = MaxRoutes
        BY <2>1, <3>3
    <3>4. QED
        BY <2>1, <3>2, <3>3, UpsertKeeps
  <2>3. CASE e.age = MaxAge /\ OpensCycle
    <3> DEFINE s == seen % AgeEvery  a == e.at % AgeEvery  m == MaxAge * AgeEvery
    <3>1. s \in 0..(AgeEvery - 1) /\ a \in 0..(AgeEvery - 1)
        BY <1>2, ModStep
    <3>2. s = AgeEvery - 1
      <4>1. (seen + 1) % AgeEvery = 0
          BY <2>3 DEF OpensCycle
      <4>2. s # AgeEvery - 1 => (seen + 1) % AgeEvery = s + 1
          BY <1>2, ModStep
      <4> HIDE DEF s
      <4>3. QED
          BY <3>1, <4>1, <4>2
    <3>3. (seen - s) - (e.at - a) = m
        BY <1>1, <2>3 DEF IInv, Aging, AgedFor
    <3>4. m \in Int
        BY <1>2, <2>3
    <3> HIDE DEF s, a, m
    <3>5. (seen + 1) - e.at > m
        BY <1>2, <3>1, <3>2, <3>3, <3>4
    <3>6. QED
        BY <2>1, <3>5 DEF m
  <2>4. QED
      BY <1>1, <2>2, <2>3, MetOrExpired
<1>4. ASSUME NEW h \in table, Send(h)
      PROVE  Kept(e)
  <2>1. PICK g \in RouteEntry : /\ table' = (table \ {h}) \cup {g}
                                /\ g.dest = h.dest
      BY <1>1, <1>4, SendFacts
  <2>2. QED
      BY <2>1
<1>5. CASE UNCHANGED vars
    BY <1>5 DEF vars
<1>6. QED
    BY <1>1, <1>3, <1>4, <1>5 DEF Next

\* rt_age_entries does not drop a route early: between its advert and MaxAge
\* whole age cycles later only an eviction, by a route with a path and from a
\* full table, takes a destination out.
THEOREM FreshStay == Spec => FreshRoutesStay
<1>1. IInv /\ [Next]_vars => [\A e \in table : Kept(e)]_vars
    BY FreshStep
<1>2. QED
    BY <1>1, Invariance, PTL DEF Spec, FreshRoutesStay, Kept

-----------------------------------------------------------------------------
(* What gives way                                                          *)

\* The priorities of rt_upsert (SimNode.cpp:158-163): e gives way before f, or
\* as well as f.
Before(e, f) ==
    /\ Useless(f) => Useless(e) /\ f.age <= e.age
    /\ ~ Useless(e) /\ f.use_count = 0 => e.use_count = 0
    /\ ~ Useless(e) /\ f.use_count = e.use_count => f.age <= e.age

\* "Evict metric-only / useless entries first.  Among useless: stalest wins.
\* Among useful: evict use_count=0 before used entries": a destination that
\* leaves the table, otherwise than by expiring in that step, leaves before all
\* that stay.  Of the last priority, "among used: evict stalest", this keeps
\* what the code does of it: the stalest of those with as many uses.
EvictsByPriority ==
    [][\A e \in table :
          (\A x \in table' : x.dest # e.dest) =>
              \/ e.age = MaxAge /\ seen' % AgeEvery = 0
              \/ \A f \in table : \/ f.age = MaxAge /\ seen' % AgeEvery = 0
                                  \/ Before(e, f)]_vars

LEMMA VictimFirst ==
    ASSUME NEW T, T \subseteq RouteEntry, NEW v \in Victims(T), NEW f \in T
    PROVE  Before(v, f)
<1> DEFINE useless == {e \in T : Useless(e)}
           unused  == {e \in T : e.use_count = 0}
<1>1. CASE useless # {}
  <2>1. v \in useless /\ \A e \in useless : e.age <= v.age
      BY <1>1 DEF Victims
  <2>2. QED
      BY <2>1 DEF Before
<1>2. CASE useless = {} /\ unused # {}
  <2>1. v \in unused /\ \A e \in unused : e.age <= v.age
      BY <1>2 DEF Victims
  <2>2. QED
      BY <1>2, <2>1 DEF Before
<1>3. CASE useless = {} /\ unused = {}
  <2>1. PICK g \in T : /\ v \in T
                       /\ v.use_count = g.use_count
                       /\ \A e \in T : e.use_count = g.use_count => e.age <= v.age
      BY <1>3 DEF Victims
  <2>2. QED
      BY <1>3, <2>1 DEF Before
<1>4. QED
    BY <1>1, <1>2, <1>3

\* A destination that rt_upsert takes out of T was first to give way.
LEMMA UpsertEvicts ==
    ASSUME NEW T, T \subseteq RouteEntry, NEW n, NEW r \in RouteEntry,
           rt_upsert(T, n, r),
           NEW g \in T, \A x \in table' : x.dest # g.dest, NEW f \in T
    PROVE  Before(g, f)
<1>1. g \notin table'
    OBVIOUS
<1>2. ASSUME NEW e \in T, e.dest = r.dest, table' = (T \ {e}) \cup {Refreshed(e, r)}
      PROVE  FALSE
  <2>1. g = e /\ e \in RouteEntry
      BY <1>1, <1>2
  <2>2. Refreshed(e, r).dest = g.dest
      BY <1>2, <2>1, RefreshedFields
  <2>3. QED
      BY <1>2, <2>2
<1>3. ASSUME NEW v \in Victims(T), table' = (T \ {v}) \cup {r}
      PROVE  Before(g, f)
  <2>1. g = v
      BY <1>1, <1>3
  <2>2. QED
      BY <2>1, VictimFirst
<1>4. table' # T /\ table' # T \cup {r}
    BY <1>1
<1>5. QED
    BY <1>2, <1>3, <1>4 DEF rt_upsert

\* g is e, as the advert finds it.
Grown(e, g) ==
    /\ g.dest = e.dest
    /\ g.bytes = e.bytes
    /\ g.use_count = e.use_count
    /\ g.age = IF OpensCycle THEN e.age + 1 ELSE e.age

LEMMA MetGrown ==
    ASSUME IInv, NEW e \in table
    PROVE  \/ \E g \in Met : Grown(e, g)
           \/ e.age = MaxAge /\ OpensCycle
<1>1. e \in RouteEntry /\ e.age \in Nat /\ e.age <= MaxAge /\ MaxAge \in Nat
    BY RouteAssumption DEF IInv, TypeOK, RouteEntry
<1>2. CASE ~ OpensCycle
    BY <1>2 DEF Met, Grown
<1>3. CASE OpensCycle /\ e.age # MaxAge
  <2> DEFINE g == [e EXCEPT !.age = e.age + 1]
  <2>1. e.age + 1 <= MaxAge
      BY <1>1, <1>3
  <2>2. g \in rt_age_entries(table)
      BY <2>1 DEF rt_age_entries
  <2>3. Grown(e, g)
      BY <1>1, <1>3 DEF RouteEntry, Grown
  <2>4. QED
      BY <1>3, <2>2, <2>3 DEF Met
<1>4. QED
    BY <1>2, <1>3

\* Aging leaves the order as it is.
LEMMA GrownBefore ==
    ASSUME NEW e \in RouteEntry, NEW f \in RouteEntry, NEW g, NEW h,
           Grown(e, g), Grown(f, h), Before(g, h)
    PROVE  Before(e, f)
<1>1. e.age \in Nat /\ f.age \in Nat
    BY RouteAssumption DEF RouteEntry
<1>2. h.age <= g.age => f.age <= e.age
    BY <1>1 DEF Grown
<1>3. QED
    BY <1>2 DEF Grown, Before, Useless

LEMMA EvictStep ==
    IInv /\ [Next]_vars =>
        \A e \in table :
            (\A x \in table' : x.dest # e.dest) =>
                \/ e.age = MaxAge /\ seen' % AgeEvery = 0
                \/ \A f \in table : \/ f.age = MaxAge /\ seen' % AgeEvery = 0
                                    \/ Before(e, f)
<1>1. SUFFICES ASSUME IInv, [Next]_vars, NEW e \in table,
                      \A x \in table' : x.dest # e.dest, NEW f \in table
               PROVE  \/ e.age = MaxAge /\ seen' % AgeEvery = 0
                      \/ f.age = MaxAge /\ seen' % AgeEvery = 0
                      \/ Before(e, f)
    OBVIOUS
<1>2. table \subseteq RouteEntry /\ seen \in Nat /\ e \in RouteEntry /\ f \in RouteEntry
    BY <1>1 DEF IInv, TypeOK
<1>3. ASSUME NEW d \in Dest, NEW n \in 0..MaxHops, NEW z \in HashSize, Advert(d, n, z)
      PROVE  \/ e.age = MaxAge /\ seen' % AgeEvery = 0
             \/ f.age = MaxAge /\ seen' % AgeEvery = 0
             \/ Before(e, f)
  <2> DEFINE r == Route(d, n, z, seen + 1)
  <2>1. /\ Met \subseteq RouteEntry /\ r \in RouteEntry
        /\ rt_upsert(Met, Spent, r) /\ seen' = seen + 1
      BY <1>1, <1>2, <1>3, MetFacts, RouteType, AdvertMeets, seen + 1 \in Nat
  <2> HIDE DEF r
  <2>2. OpensCycle => seen' % AgeEvery = 0
      BY <2>1 DEF OpensCycle
  <2>3. ASSUME NEW g \in Met, Grown(e, g), NEW h \in Met, Grown(f, h)
        PROVE  Before(e, f)
    <3>1. \A x \in table' : x.dest # g.dest
        BY <1>1, <2>3 DEF Grown
    <3>2. Before(g, h)
        BY <2>1, <3>1, UpsertEvicts
    <3>3. QED
        BY <1>2, <2>3, <3>2, GrownBefore
  <2>4. QED
      BY <1>1, <2>2, <2>3, MetGrown
<1>4. ASSUME NEW k \in table, Send(k)
      PROVE  FALSE
  <2>1. PICK g \in RouteEntry : table' = (table \ {k}) \cup {g} /\ g.dest = k.dest
      BY <1>1, <1>4, SendFacts
  <2>2. QED
      BY <1>1, <2>1
<1>5. ~ UNCHANGED vars
    BY <1>1 DEF vars
<1>6. QED
    BY <1>1, <1>3, <1>4, <1>5 DEF Next

\* rt_upsert evicts a useless route before a useful one, an unused before a
\* used one, and the stalest of its kind, whatever the table holds.
THEOREM EvictionOrder == Spec => EvictsByPriority
BY Invariance, EvictStep, PTL DEF Spec, EvictsByPriority

-----------------------------------------------------------------------------
(* Loops                                                                   *)

\* A non-empty set of naturals has a least member.
LEMMA Least ==
    ASSUME NEW S \in SUBSET Nat, S # {}
    PROVE  \E m \in S : \A n \in S : m <= n
<1>1. PICK m \in S : \A n \in S : ~ (<<n, m>> \in OpToRel(<, Nat))
      BY NatLessThanWellFounded, WFMin, Zenon
<1>2. \A n \in S : ~ (n < m) BY <1>1, Zenon DEF OpToRel
<1> QED BY <1>2

\* So what holds of 0 and passes from k to k + 1 holds up to n: the members of
\* S are the naturals of which it does not hold.
LEMMA NoneFails ==
    ASSUME NEW n \in Nat, NEW S \in SUBSET (0 .. n), 0 \notin S,
           \A k \in 0 .. n : k + 1 \in S => k \in S
    PROVE  S = {}
<1>1. SUFFICES ASSUME S # {} PROVE FALSE OBVIOUS
<1>2. PICK m \in S : \A k \in S : m <= k BY <1>1, Least
<1>3. m \in Nat /\ m # 0 /\ m - 1 \in 0 .. n /\ (m - 1) + 1 = m BY <1>2
<1>4. m - 1 \in S BY <1>2, <1>3
<1> QED BY <1>2, <1>3, <1>4

\* The loop that starts at a, its k-th pass being F[k], has a run of n passes.
Runs(n, A, a, F) ==
    {g \in [0 .. n -> A] : g[0] = a /\ \A k \in 1 .. n : g[k] = F[k][g[k - 1]]}

LEMMA LoopRuns ==
    ASSUME NEW n \in Nat, NEW A, NEW a \in A, NEW F \in [1 .. n -> [A -> A]]
    PROVE  Runs(n, A, a, F) # {}
<1> DEFINE Run(m, g) == g[0] = a /\ \A k \in 1 .. m : g[k] = F[k][g[k - 1]]
           S == {m \in 0 .. n : ~ \E g \in [0 .. m -> A] : Run(m, g)}
<1>1. 0 \notin S
  <2>1. [k \in 0 .. 0 |-> a] \in [0 .. 0 -> A] /\ Run(0, [k \in 0 .. 0 |-> a]) OBVIOUS
  <2> QED BY <2>1
<1>2. ASSUME NEW m \in 0 .. n, m + 1 \in S, m \notin S PROVE FALSE
  <2>1. PICK g \in [0 .. m -> A] : Run(m, g) BY <1>2
  <2>2. m + 1 \in 1 .. n BY <1>2
  <2> DEFINE h == [k \in 0 .. m + 1 |-> IF k <= m THEN g[k] ELSE F[m + 1][g[m]]]
  <2>3. F[m + 1][g[m]] \in A BY <2>2
  <2>4. h \in [0 .. m + 1 -> A] BY <2>3
  <2>5. h[0] = a BY <2>1
  <2>6. ASSUME NEW k \in 1 .. m + 1 PROVE h[k] = F[k][h[k - 1]]
    <3>1. k - 1 \in 0 .. m /\ h[k - 1] = g[k - 1] OBVIOUS
    <3>2. CASE k <= m BY <2>1, <3>1, <3>2
    <3>3. CASE k = m + 1 BY <3>1, <3>3
    <3> QED BY <3>2, <3>3
  <2>7. \E f \in [0 .. m + 1 -> A] : Run(m + 1, f) BY <2>4, <2>5, <2>6
  <2> QED BY <1>2, <2>7
<1>3. S \in SUBSET (0 .. n) OBVIOUS
<1>4. \A m \in 0 .. n : m + 1 \in S => m \in S BY <1>2
<1> HIDE DEF S
<1>5. S = {} BY <1>1, <1>3, <1>4, NoneFails
<1>6. n \in 0 .. n OBVIOUS
<1>7. \E g \in [0 .. n -> A] : Run(n, g)
  <2> HIDE DEF Run
  <2> QED BY <1>5, <1>6 DEF S
<1> QED BY <1>7 DEF Runs

-----------------------------------------------------------------------------
(* Slots                                                                   *)

Distinct(T) == \A i, j \in DOMAIN T : T[i].dest = T[j].dest => i = j

Slots(T) == T \in Seq(RouteEntry) /\ Distinct(T) /\ Len(T) <= MaxRoutes

\* Slots of distinct destinations hold as many routes as there are slots.
LEMMA SlotsCount ==
    ASSUME NEW T, Slots(T)
    PROVE  IsFiniteSet(ToSet(T)) /\ Cardinality(ToSet(T)) = Len(T)
<1> DEFINE f == [i \in 1 .. Len(T) |-> T[i]]
<1>1. Len(T) \in Nat /\ DOMAIN T = 1 .. Len(T) BY DEF Slots
<1>2. f \in Bijection(1 .. Len(T), ToSet(T))
  <2>1. ToSet(T) = {T[i] : i \in 1 .. Len(T)} BY <1>1 DEF ToSet
  <2>2. f \in [1 .. Len(T) -> ToSet(T)] BY <2>1
  <2>3. \A i, j \in 1 .. Len(T) : f[i] = f[j] => i = j BY <1>1 DEF Slots, Distinct
  <2>4. \A e \in ToSet(T) : \E i \in 1 .. Len(T) : f[i] = e BY <2>1
  <2> QED BY <2>2, <2>3, <2>4, Zenon DEF Bijection, Injection, Surjection, IsInjective
<1>3. ExistsBijection(1 .. Len(T), ToSet(T)) BY <1>2 DEF ExistsBijection
<1> QED BY <1>1, <1>3, FS_NatBijection, FS_CountingElements

\* Overwriting a slot replaces its route by the new one.
Put(T, i, e) == [T EXCEPT ![i] = e]

OnlyAt(T, i, e) == \A j \in DOMAIN T \ {i} : T[j].dest # e.dest

LEMMA SlotWritten ==
    ASSUME NEW T, Slots(T), NEW i \in DOMAIN T, NEW e \in RouteEntry, OnlyAt(T, i, e)
    PROVE  /\ Slots(Put(T, i, e))
           /\ ToSet(Put(T, i, e)) = (ToSet(T) \ {T[i]}) \cup {e}
<1> USE DEF Put, OnlyAt
<1> DEFINE U == [T EXCEPT ![i] = e]
<1>1. /\ U \in Seq(RouteEntry) /\ Len(U) = Len(T) /\ DOMAIN U = DOMAIN T
      /\ \A j \in DOMAIN T : U[j] = IF j = i THEN e ELSE T[j]
      BY ExceptSeq DEF Slots
<1> HIDE DEF U
<1>2. Distinct(U) BY <1>1 DEF Slots, Distinct
<1>3. \A j \in DOMAIN T : T[j] = T[i] => j = i BY DEF Slots, Distinct
<1>4. ToSet(U) = (ToSet(T) \ {T[i]}) \cup {e} BY <1>1, <1>3 DEF ToSet
<1> QED BY <1>1, <1>2, <1>4 DEF Slots, U

-----------------------------------------------------------------------------
(* The aging loop                                                          *)

\* The slots the loop has passed, and those it has not.
Part(T, m, n) == {T[j] : j \in m .. n}

Done(s) == Part(s.rt, 1, s.i - 1)
Left(s) == Part(s.rt, s.i, Len(s.rt))

LoopState == [rt : Seq(RouteEntry), i : Nat \ {0}]

\* After k passes over T there are Len(T) - k slots to go, and what is done and
\* what is left will be the survivors of T.
LoopInv(T, k, s) ==
    /\ s \in LoopState
    /\ Distinct(s.rt)
    /\ Len(s.rt) <= Len(T)
    /\ Len(s.rt) - s.i + 1 = Len(T) - k
    /\ Done(s) \cup rt_age_entries(Left(s)) = rt_age_entries(ToSet(T))

Older(e) == [e EXCEPT !.age = @ + 1]

LEMMA AgedIn ==
    ASSUME NEW S, NEW e, e.age + 1 <= MaxAge
    PROVE  rt_age_entries(S \cup {e}) = rt_age_entries(S) \cup {Older(e)}
BY DEF rt_age_entries, Older

LEMMA AgedOut ==
    ASSUME NEW S, NEW e, ~ (e.age + 1 <= MaxAge)
    PROVE  rt_age_entries(S \cup {e}) = rt_age_entries(S)
BY DEF rt_age_entries

LEMMA OlderType ==
    ASSUME NEW e \in RouteEntry, e.age + 1 <= MaxAge
    PROVE  Older(e) \in RouteEntry /\ Older(e).dest = e.dest
BY RouteAssumption DEF RouteEntry, Older

\* The last slot moves into the place of slot i.
LEMMA Swapped ==
    ASSUME NEW T \in Seq(RouteEntry), Distinct(T), NEW i \in DOMAIN T
    PROVE  LET U == Front([T EXCEPT ![i] = Last(T)])
           IN  /\ U \in Seq(RouteEntry) /\ Len(U) = Len(T) - 1
               /\ \A j \in 1 .. Len(T) - 1 : U[j] = IF j = i THEN T[Len(T)] ELSE T[j]
<1> DEFINE n == Len(T)
           V == [T EXCEPT ![i] = Last(T)]
           U == Front(V)
<1>1. n \in Nat /\ i \in 1 .. n /\ n >= 1 /\ DOMAIN T = 1 .. n OBVIOUS
<1>2. Last(T) = T[n] /\ T[n] \in RouteEntry BY <1>1 DEF Last
<1>3. /\ V \in Seq(RouteEntry) /\ Len(V) = n
      /\ \A j \in 1 .. n : V[j] = IF j = i THEN T[n] ELSE T[j]
      BY <1>1, <1>2, ExceptSeq
<1>4. U = SubSeq(V, 1, n - 1) BY <1>3 DEF Front
<1> HIDE DEF U, V, n
<1>5. \A j \in 1 .. n - 1 : V[j] \in RouteEntry BY <1>1, <1>3
<1>6. /\ U \in Seq(RouteEntry) /\ Len(U) = n - 1
      /\ \A j \in 1 .. n - 1 : U[j] = V[j]
      BY <1>1, <1>4, <1>5, SubSeqProperties
<1>7. \A j \in 1 .. n - 1 : U[j] = IF j = i THEN T[n] ELSE T[j] BY <1>1, <1>3, <1>6
<1> QED BY <1>6, <1>7 DEF U, V, n

Drops(n, i, S, U) == \A j \in 1 .. n - 1 : U[j] = IF j = i THEN S[n] ELSE S[j]

Writes(n, i, S, U, f) == \A j \in 1 .. n : U[j] = IF j = i THEN f ELSE S[j]

LEMMA SlotDropped ==
    ASSUME NEW n \in Nat, NEW i \in 1 .. n, NEW S, NEW U,
           Drops(n, i, S, U)
    PROVE  /\ Part(U, 1, i - 1) = Part(S, 1, i - 1)
           /\ Part(U, i, n - 1) = Part(S, i + 1, n)
<1> USE DEF Drops, Part
<1>1. \A j \in 1 .. i - 1 : U[j] = S[j]
  <2>1. \A j \in 1 .. i - 1 : j \in 1 .. n - 1 /\ j # i OBVIOUS
  <2> QED BY <2>1
<1>2. ASSUME NEW j \in i .. n - 1 PROVE U[j] \in Part(S, i + 1, n)
  <2>1. j \in 1 .. n - 1 /\ n \in i + 1 .. n OBVIOUS
  <2>2. CASE j = i BY <2>1, <2>2
  <2>3. CASE j # i
    <3>1. j \in i + 1 .. n BY <2>3
    <3> QED BY <2>1, <2>3, <3>1
  <2> QED BY <2>2, <2>3
<1>3. ASSUME NEW m \in i + 1 .. n PROVE S[m] \in Part(U, i, n - 1)
  <2>1. CASE m = n
    <3>1. i \in i .. n - 1 /\ i \in 1 .. n - 1 BY <1>3
    <3> QED BY <2>1, <3>1
  <2>2. CASE m # n
    <3>1. m \in i .. n - 1 /\ m \in 1 .. n - 1 /\ m # i BY <1>3, <2>2
    <3> QED BY <3>1
  <2> QED BY <2>1, <2>2
<1> QED BY <1>1, <1>2, <1>3

LEMMA SlotAged ==
    ASSUME NEW n \in Nat, NEW i \in 1 .. n, NEW S, NEW U, NEW f,
           Writes(n, i, S, U, f)
    PROVE  /\ Part(U, 1, (i + 1) - 1) = Part(S, 1, i - 1) \cup {f}
           /\ Part(U, i + 1, n) = Part(S, i + 1, n)
<1> USE DEF Writes, Part
<1>1. \A j \in 1 .. i - 1 : j \in 1 .. n /\ j # i /\ j \in 1 .. (i + 1) - 1 OBVIOUS
<1>2. \A j \in 1 .. (i + 1) - 1 : j = i \/ j \in 1 .. i - 1 OBVIOUS
<1>3. i \in 1 .. n /\ i \in 1 .. (i + 1) - 1 OBVIOUS
<1>4. \A j \in i + 1 .. n : j \in 1 .. n /\ j # i OBVIOUS
<1>5. U[i] = f BY <1>3
<1>6. \A j \in 1 .. i - 1 : U[j] = S[j] BY <1>1
<1>7. Part(U, 1, (i + 1) - 1) = Part(S, 1, i - 1) \cup {f}
      BY <1>1, <1>2, <1>3, <1>5, <1>6
<1>8. \A j \in i + 1 .. n : U[j] = S[j] BY <1>4
<1> QED BY <1>7, <1>8

LEMMA SlotNext ==
    ASSUME NEW n \in Nat, NEW i \in 1 .. n, NEW S
    PROVE  Part(S, i, n) = Part(S, i + 1, n) \cup {S[i]}
<1>1. \A j \in i .. n : j = i \/ j \in i + 1 .. n OBVIOUS
<1>2. \A j \in i + 1 .. n : j \in i .. n OBVIOUS
<1>3. i \in i .. n OBVIOUS
<1> QED BY <1>1, <1>2, <1>3 DEF Part

LEMMA PassKeeps ==
    ASSUME NEW T \in Seq(RouteEntry), NEW k \in 0 .. Len(T) - 1, NEW s, LoopInv(T, k, s)
    PROVE  LoopInv(T, k + 1, AgePass(s))
<1> DEFINE S == s.rt
           i == s.i
           n == Len(S)
           e == S[i]
           t == AgePass(s)
           L == Part(S, i + 1, n)
<1>1. S \in Seq(RouteEntry) /\ i \in Nat /\ i >= 1 /\ Distinct(S)
      BY DEF LoopInv, LoopState
<1>2. n \in Nat /\ DOMAIN S = 1 .. n BY <1>1
<1>3. Len(T) \in Nat /\ n <= Len(T) /\ n - i + 1 = Len(T) - k BY DEF LoopInv
<1>4. i \in 1 .. n /\ Len(T) - (k + 1) = n - i
  <2> HIDE DEF i, n
  <2> QED BY <1>1, <1>2, <1>3
<1>5. e \in RouteEntry BY <1>1, <1>2, <1>4
<1>6. Left(s) = L \cup {e}
  <2>1. Left(s) = Part(S, i, n) BY DEF Left
  <2> HIDE DEF S, i, n
  <2> QED BY <1>2, <1>4, <2>1, SlotNext
<1>7. Done(s) \cup rt_age_entries(Left(s)) = rt_age_entries(ToSet(T)) BY DEF LoopInv
<1>8. Done(s) = Part(S, 1, i - 1) BY DEF Done
<1>9. t = IF e.age + 1 > MaxAge
          THEN [rt |-> Front([S EXCEPT ![i] = Last(S)]), i |-> i]
          ELSE [rt |-> [S EXCEPT ![i] = Older(e)], i |-> i + 1]
  <2>1. ~ (i > n)
    <3> HIDE DEF i, n
    <3> QED BY <1>2, <1>4
  <2> QED BY <1>2, <1>4, <2>1 DEF AgePass, Older
<1> HIDE DEF S, i, n, e, t, L
<1>10. e.age \in Nat /\ MaxAge \in Nat BY <1>5, RouteAssumption DEF RouteEntry
<1>11. CASE e.age + 1 > MaxAge
  <2> DEFINE U == Front([S EXCEPT ![i] = Last(S)])
  <2>1. t = [rt |-> U, i |-> i] BY <1>9, <1>11
  <2>2. /\ U \in Seq(RouteEntry) /\ Len(U) = n - 1
        /\ \A j \in 1 .. n - 1 : U[j] = IF j = i THEN S[n] ELSE S[j]
        BY <1>1, <1>2, <1>4, Swapped DEF n
  <2> HIDE DEF U
  <2>3. t.rt = U /\ t.i = i /\ t \in LoopState BY <1>1, <2>1, <2>2 DEF LoopState
  <2>4. DOMAIN U = 1 .. n - 1 BY <2>2
  <2>5. Distinct(U)
    <3>1. SUFFICES ASSUME NEW a \in 1 .. n - 1, NEW b \in 1 .. n - 1, U[a].dest = U[b].dest
                   PROVE  a = b
          BY <2>4 DEF Distinct
    <3> DEFINE p == IF a = i THEN n ELSE a
               q == IF b = i THEN n ELSE b
    <3>2. p \in 1 .. n /\ q \in 1 .. n /\ (p = q => a = b) BY <1>2, <1>4
    <3>3. U[a] = S[p] /\ U[b] = S[q] BY <2>2
    <3> HIDE DEF p, q
    <3> QED BY <1>1, <1>2, <3>1, <3>2, <3>3 DEF Distinct
  <2>6. Part(U, 1, i - 1) = Part(S, 1, i - 1) /\ Part(U, i, n - 1) = L
    <3>1. Drops(n, i, S, U) BY <2>2 DEF Drops
    <3>2. /\ Part(U, 1, i - 1) = Part(S, 1, i - 1)
          /\ Part(U, i, n - 1) = Part(S, i + 1, n)
          BY <1>2, <1>4, <3>1, SlotDropped
    <3> QED BY <3>2 DEF L
  <2>7. Done(t) = Done(s) BY <1>8, <2>3, <2>6 DEF Done
  <2>8. Left(t) = L BY <2>2, <2>3, <2>6 DEF Left
  <2>9. rt_age_entries(L \cup {e}) = rt_age_entries(L)
    <3>1. ~ (e.age + 1 <= MaxAge) BY <1>10, <1>11
    <3> QED BY <3>1, AgedOut
  <2>10. Len(t.rt) <= Len(T) /\ Len(t.rt) - t.i + 1 = Len(T) - (k + 1)
         BY <1>1, <1>2, <1>3, <1>4, <2>2, <2>3
  <2>11. Done(t) \cup rt_age_entries(Left(t)) = rt_age_entries(ToSet(T))
         BY <1>6, <1>7, <2>7, <2>8, <2>9
  <2>12. LoopInv(T, k + 1, t) BY <2>3, <2>5, <2>10, <2>11 DEF LoopInv
  <2> QED BY <2>12 DEF t
<1>12. CASE ~ (e.age + 1 > MaxAge)
  <2> DEFINE f == Older(e)
             U == [S EXCEPT ![i] = f]
  <2>0. e.age + 1 <= MaxAge BY <1>10, <1>12
  <2>1. t = [rt |-> U, i |-> i + 1] BY <1>9, <1>12
  <2>2. f \in RouteEntry /\ f.dest = e.dest BY <1>5, <2>0, OlderType
  <2>3. rt_age_entries(L \cup {e}) = rt_age_entries(L) \cup {f}
        BY <2>0, AgedIn
  <2> HIDE DEF f
  <2>4. /\ U \in Seq(RouteEntry) /\ Len(U) = n /\ DOMAIN U = 1 .. n
        /\ \A j \in 1 .. n : U[j] = IF j = i THEN f ELSE S[j]
        BY <1>1, <1>4, <2>2, ExceptSeq DEF n
  <2> HIDE DEF U
  <2>5. t.rt = U /\ t.i = i + 1 /\ t \in LoopState BY <1>1, <2>1, <2>4 DEF LoopState
  <2>6. Distinct(U) BY <1>1, <1>2, <1>4, <2>2, <2>4 DEF Distinct, e
  <2>7. /\ Part(U, 1, (i + 1) - 1) = Part(S, 1, i - 1) \cup {f}
        /\ Part(U, i + 1, n) = L
    <3>1. Writes(n, i, S, U, f) BY <2>4 DEF Writes
    <3> QED BY <1>2, <1>4, <3>1, SlotAged DEF L
  <2>8. Done(t) = Done(s) \cup {f} BY <1>8, <2>5, <2>7 DEF Done
  <2>9. Left(t) = L BY <2>4, <2>5, <2>7 DEF Left
  <2>10. Len(t.rt) <= Len(T) /\ Len(t.rt) - t.i + 1 = Len(T) - (k + 1)
         BY <1>1, <1>2, <1>3, <1>4, <2>4, <2>5
  <2>11. Done(t) \cup rt_age_entries(Left(t)) = rt_age_entries(ToSet(T))
         BY <1>6, <1>7, <2>3, <2>8, <2>9
  <2>12. LoopInv(T, k + 1, t) BY <2>5, <2>6, <2>10, <2>11 DEF LoopInv
  <2> QED BY <2>12 DEF t
<1> QED BY <1>11, <1>12

\* The run of the loop: pass is a function that AgeSlots may choose.
IsAgeRun(T, pass) ==
    pass = [k \in 0 .. Len(T) |-> IF k = 0 THEN [rt |-> T, i |-> 1] ELSE AgePass(pass[k - 1])]

LEMMA PassType ==
    ASSUME NEW s \in LoopState
    PROVE  AgePass(s) \in LoopState
<1> DEFINE S == s.rt
           i == s.i
           e == S[i]
<1>1. S \in Seq(RouteEntry) /\ i \in Nat \ {0} BY DEF LoopState
<1>2. CASE i > Len(S) BY <1>2 DEF AgePass
<1>3. CASE ~ (i > Len(S))
  <2>1. i \in DOMAIN S BY <1>1, <1>3
  <2>2. e \in RouteEntry BY <1>1, <2>1
  <2>3. e.age \in Nat /\ MaxAge \in Nat BY <2>2, RouteAssumption DEF RouteEntry
  <2>4. AgePass(s) = IF e.age + 1 > MaxAge
                     THEN [rt |-> Front([S EXCEPT ![i] = Last(S)]), i |-> i]
                     ELSE [rt |-> [S EXCEPT ![i] = Older(e)], i |-> i + 1]
        BY <1>1, <1>3, <2>1 DEF AgePass, Older
  <2> HIDE DEF S, i, e
  <2>7. CASE e.age + 1 > MaxAge
    <3> DEFINE U == Front([S EXCEPT ![i] = Last(S)])
    <3>1. Len(S) \in Nat /\ i \in 1 .. Len(S) BY <1>1, <2>1
    <3>2. [S EXCEPT ![i] = Last(S)] \in Seq(RouteEntry) BY <1>1, <2>1, <3>1, ExceptSeq DEF Last
    <3>3. U \in Seq(RouteEntry) BY <3>2 DEF Front
    <3> HIDE DEF U
    <3>4. AgePass(s) = [rt |-> U, i |-> i] BY <2>4, <2>7 DEF U
    <3> QED BY <1>1, <3>3, <3>4 DEF LoopState
  <2>8. CASE ~ (e.age + 1 > MaxAge)
    <3> DEFINE U == [S EXCEPT ![i] = Older(e)]
    <3>1. Older(e) \in RouteEntry BY <2>2, <2>3, <2>8, OlderType
    <3>2. U \in Seq(RouteEntry) BY <1>1, <2>1, <3>1, ExceptSeq
    <3> HIDE DEF U
    <3>3. AgePass(s) = [rt |-> U, i |-> i + 1] BY <2>4, <2>8 DEF U
    <3> QED BY <1>1, <3>2, <3>3 DEF LoopState
  <2> QED BY <2>7, <2>8
<1> QED BY <1>2, <1>3

LEMMA AgeRunExists ==
    ASSUME NEW T \in Seq(RouteEntry)
    PROVE  \E pass : IsAgeRun(T, pass)
<1> DEFINE n == Len(T)
           a == [rt |-> T, i |-> 1]
           F == [k \in 1 .. n |-> [s \in LoopState |-> AgePass(s)]]
<1>1. n \in Nat /\ a \in LoopState BY DEF LoopState
<1>2. F \in [1 .. n -> [LoopState -> LoopState]] BY PassType
<1>r. Runs(n, LoopState, a, F) # {}
  <2> HIDE DEF n, a, F
  <2> QED BY <1>1, <1>2, LoopRuns
<1>3. PICK g \in [0 .. n -> LoopState] :
          g[0] = a /\ \A k \in 1 .. n : g[k] = F[k][g[k - 1]]
      BY <1>r DEF Runs
<1>4. ASSUME NEW k \in 1 .. n PROVE g[k] = AgePass(g[k - 1])
  <2>1. k - 1 \in 0 .. n BY <1>1
  <2>2. g[k - 1] \in LoopState BY <2>1
  <2> QED BY <1>3, <2>2
<1>5. \A k \in 0 .. n : k = 0 \/ k \in 1 .. n BY <1>1
<1>6. g = [k \in 0 .. n |-> g[k]] OBVIOUS
<1>7. g = [k \in 0 .. n |-> IF k = 0 THEN a ELSE AgePass(g[k - 1])]
      BY <1>3, <1>4, <1>5, <1>6
<1> QED BY <1>7 DEF IsAgeRun

LEMMA AgeRunEnds ==
    ASSUME NEW T \in Seq(RouteEntry), Distinct(T), NEW pass, IsAgeRun(T, pass)
    PROVE  LoopInv(T, Len(T), pass[Len(T)])
<1> DEFINE n == Len(T)
           S == {k \in 0 .. n : ~ LoopInv(T, k, pass[k])}
<1>1. n \in Nat OBVIOUS
<1>2. pass[0] = [rt |-> T, i |-> 1] BY <1>1 DEF IsAgeRun
<1>3. \A k \in 1 .. n : pass[k] = AgePass(pass[k - 1]) BY <1>1 DEF IsAgeRun
<1>4. LoopInv(T, 0, pass[0])
  <2>1. pass[0].rt = T /\ pass[0].i = 1 /\ pass[0] \in LoopState
        BY <1>2 DEF LoopState
  <2>2. Done(pass[0]) = {} BY <2>1 DEF Done, Part
  <2>3. Left(pass[0]) = ToSet(T) BY <2>1 DEF Left, Part, ToSet
  <2> QED BY <1>1, <2>1, <2>2, <2>3 DEF LoopInv
<1>5. ASSUME NEW k \in 0 .. n, k + 1 \in S, k \notin S PROVE FALSE
  <2>1. k + 1 \in 1 .. n /\ (k + 1) - 1 = k /\ k \in 0 .. Len(T) - 1 BY <1>5
  <2>2. LoopInv(T, k, pass[k]) BY <1>5
  <2>3. LoopInv(T, k + 1, AgePass(pass[k])) BY <2>1, <2>2, PassKeeps
  <2>4. pass[k + 1] = AgePass(pass[k]) BY <1>3, <2>1
  <2> QED BY <1>5, <2>3, <2>4
<1>6. 0 \notin S /\ S \in SUBSET (0 .. n) BY <1>4
<1>7. \A k \in 0 .. n : k + 1 \in S => k \in S BY <1>5
<1>8. n \in 0 .. n BY <1>1
<1>9. S = {}
  <2> HIDE DEF S, n
  <2> QED BY <1>1, <1>6, <1>7, NoneFails
<1> QED BY <1>8, <1>9

\* The loop of rt_age_entries, swaps and all, leaves the slots of the routes
\* that rt_age_entries of RouteTable leaves.
LEMMA AgeSlotsAges ==
    ASSUME NEW T, Slots(T)
    PROVE  /\ Slots(AgeSlots(T))
           /\ ToSet(AgeSlots(T)) = rt_age_entries(ToSet(T))
<1> DEFINE pass == CHOOSE g : IsAgeRun(T, g)
           s == pass[Len(T)]
<1>1. T \in Seq(RouteEntry) /\ Distinct(T) /\ Len(T) <= MaxRoutes BY DEF Slots
<1>2. IsAgeRun(T, pass) BY <1>1, AgeRunExists
<1>3. AgeSlots(T) = s.rt BY DEF AgeSlots, IsAgeRun
<1> HIDE DEF pass
<1>4. LoopInv(T, Len(T), s) BY <1>1, <1>2, AgeRunEnds
<1> HIDE DEF s
<1>5. /\ s.rt \in Seq(RouteEntry) /\ Distinct(s.rt) /\ s.i \in Nat
      /\ Len(s.rt) \in Nat /\ Len(s.rt) <= Len(T)
      /\ Len(s.rt) - s.i + 1 = Len(T) - Len(T)
      BY <1>4 DEF LoopInv, LoopState
<1>6. Len(T) \in Nat /\ MaxRoutes \in Nat BY <1>1, RouteAssumption
<1>7. s.i = Len(s.rt) + 1 BY <1>5, <1>6
<1>8. Left(s) = {} BY <1>5, <1>7 DEF Left, Part
<1>9. Done(s) = ToSet(s.rt) BY <1>5, <1>7 DEF Done, Part, ToSet
<1>10. rt_age_entries({}) = {} BY DEF rt_age_entries
<1>11. ToSet(s.rt) = rt_age_entries(ToSet(T)) BY <1>4, <1>8, <1>9, <1>10 DEF LoopInv
<1>12. Len(s.rt) <= MaxRoutes BY <1>1, <1>5, <1>6
<1> QED BY <1>3, <1>5, <1>11, <1>12 DEF Slots

-----------------------------------------------------------------------------
(* The scan for the route to evict                                         *)

IsScan(T, worst) ==
    worst = [i \in DOMAIN T |->
                IF i = 1 THEN 1
                ELSE IF Worse(T[i], T[worst[i - 1]]) THEN i ELSE worst[i - 1]]

\* w is what the priorities pick among the first k slots.
WorstOf(T, k, w) ==
    /\ w \in 1 .. k
    /\ \/ /\ Useless(T[w])
          /\ \A j \in 1 .. k : Useless(T[j]) => T[j].age <= T[w].age
       \/ /\ \A j \in 1 .. k : ~ Useless(T[j])
          /\ T[w].use_count = 0
          /\ \A j \in 1 .. k : T[j].use_count = 0 => T[j].age <= T[w].age
       \/ /\ \A j \in 1 .. k : ~ Useless(T[j]) /\ T[j].use_count > 0
          /\ \A j \in 1 .. k :
                T[j].use_count = T[w].use_count => T[j].age <= T[w].age

LEMMA ScanExists ==
    ASSUME NEW T \in Seq(RouteEntry), Len(T) > 0
    PROVE  \E worst : IsScan(T, worst)
<1> DEFINE n == Len(T) - 1
           A == 1 .. Len(T)
           F == [k \in 1 .. n |->
                    [w \in A |-> IF Worse(T[k + 1], T[w]) THEN k + 1 ELSE w]]
<1>1. n \in Nat /\ Len(T) = n + 1 /\ DOMAIN T = A /\ 1 \in A OBVIOUS
<1>2. F \in [1 .. n -> [A -> A]]
  <2>1. \A k \in 1 .. n : k + 1 \in A BY <1>1
  <2> QED BY <2>1
<1>3. Runs(n, A, 1, F) # {}
  <2> HIDE DEF n, A, F
  <2> QED BY <1>1, <1>2, LoopRuns
<1>4. PICK g \in [0 .. n -> A] : g[0] = 1 /\ \A k \in 1 .. n : g[k] = F[k][g[k - 1]]
      BY <1>3 DEF Runs
<1> DEFINE worst == [i \in A |-> g[i - 1]]
<1>5. worst[1] = 1 BY <1>1, <1>4
<1>6. ASSUME NEW i \in A, i # 1
      PROVE  worst[i] = IF Worse(T[i], T[worst[i - 1]]) THEN i ELSE worst[i - 1]
  <2>1. i - 1 \in 1 .. n /\ i - 1 \in A /\ (i - 1) - 1 \in 0 .. n /\ (i - 1) + 1 = i
        BY <1>1, <1>6
  <2>2. g[(i - 1) - 1] \in A BY <2>1
  <2>3. worst[i] = g[i - 1] /\ worst[i - 1] = g[(i - 1) - 1] BY <2>1
  <2>4. g[i - 1] = F[i - 1][g[(i - 1) - 1]] BY <1>4, <2>1
  <2>5. F[i - 1][g[(i - 1) - 1]] =
           IF Worse(T[i], T[g[(i - 1) - 1]]) THEN i ELSE g[(i - 1) - 1]
        BY <2>1, <2>2
  <2> QED BY <2>3, <2>4, <2>5
<1>7. worst = [i \in DOMAIN T |->
                  IF i = 1 THEN 1
                  ELSE IF Worse(T[i], T[worst[i - 1]]) THEN i ELSE worst[i - 1]]
  <2>1. worst = [i \in A |-> worst[i]] OBVIOUS
  <2> HIDE DEF worst, A
  <2> QED BY <1>1, <1>5, <1>6, <2>1
<1> QED BY <1>7 DEF IsScan

LEMMA RouteNumbers ==
    ASSUME NEW e \in RouteEntry
    PROVE  e.age \in Nat /\ e.use_count \in Nat
BY RouteAssumption DEF RouteEntry

\* One comparison of the scan.
LEMMA ScanKeeps ==
    ASSUME NEW T \in Seq(RouteEntry), NEW k \in 1 .. Len(T) - 1, NEW w, WorstOf(T, k, w)
    PROVE  WorstOf(T, k + 1, IF Worse(T[k + 1], T[w]) THEN k + 1 ELSE w)
<1> DEFINE v == T[w]
           e == T[k + 1]
<1>1. w \in 1 .. k /\ k + 1 \in DOMAIN T /\ w \in DOMAIN T BY DEF WorstOf
<1>2. \A j \in 1 .. k + 1 : T[j].age \in Nat /\ T[j].use_count \in Nat
  <2>1. \A j \in 1 .. k + 1 : T[j] \in RouteEntry OBVIOUS
  <2> QED BY <2>1, RouteNumbers
<1>3. /\ v.age \in Nat /\ v.use_count \in Nat /\ e.age \in Nat /\ e.use_count \in Nat
      BY <1>1, <1>2
<1>4. \A j \in 1 .. k + 1 : j \in 1 .. k \/ j = k + 1 OBVIOUS
<1>5. w \in 1 .. k + 1 /\ k + 1 \in 1 .. k + 1 BY <1>1
<1>6. \A j \in 1 .. k : T[j].age \in Nat /\ T[j].use_count \in Nat BY <1>2
<1>7. CASE Worse(e, v)
  <2> DEFINE oldest(j) == T[j].age <= e.age
  <2>1. ASSUME Useless(v) PROVE WorstOf(T, k + 1, k + 1)
    <3>1. Useless(e) /\ e.age > v.age BY <1>7, <2>1 DEF Worse
    <3>2. \A j \in 1 .. k : Useless(T[j]) => T[j].age <= v.age
          BY <1>1, <2>1 DEF WorstOf
    <3>3. \A j \in 1 .. k + 1 : Useless(T[j]) => oldest(j)
          BY <1>3, <1>4, <1>6, <3>1, <3>2
    <3> QED BY <1>5, <3>1, <3>3 DEF WorstOf
  <2>2. ASSUME ~ Useless(v) PROVE WorstOf(T, k + 1, k + 1)
    <3>1. \A j \in 1 .. k : ~ Useless(T[j]) BY <2>2 DEF WorstOf
    <3>2. CASE Useless(e)
      <4>1. \A j \in 1 .. k + 1 : Useless(T[j]) => oldest(j) BY <1>3, <1>4, <3>1
      <4> QED BY <1>5, <3>2, <4>1 DEF WorstOf
    <3>3. CASE ~ Useless(e)
      <4>1. \A j \in 1 .. k + 1 : ~ Useless(T[j]) BY <1>4, <3>1, <3>3
      <4>2. \/ v.use_count > 0 /\ e.use_count = 0
            \/ e.use_count = v.use_count /\ e.age > v.age
            BY <1>7, <3>3 DEF Worse
      <4>3. CASE /\ v.use_count = 0
                 /\ \A j \in 1 .. k : T[j].use_count = 0 => T[j].age <= v.age
        <5>1. \A j \in 1 .. k + 1 : T[j].use_count = 0 => oldest(j)
              BY <1>3, <1>4, <1>6, <4>2, <4>3
        <5>2. e.use_count = 0 BY <1>3, <4>2, <4>3
        <5> QED BY <1>5, <4>1, <5>1, <5>2 DEF WorstOf
      <4>4. CASE /\ \A j \in 1 .. k : T[j].use_count > 0
                 /\ \A j \in 1 .. k :
                       T[j].use_count = v.use_count => T[j].age <= v.age
        <5>1. CASE e.use_count = 0
          <6>1. \A j \in 1 .. k + 1 : T[j].use_count = 0 => oldest(j)
                BY <1>3, <1>4, <1>6, <4>4
          <6> QED BY <1>5, <4>1, <5>1, <6>1 DEF WorstOf
        <5>2. CASE e.use_count # 0
          <6>1. e.use_count = v.use_count /\ e.age > v.age /\ e.use_count > 0
                BY <1>3, <4>2, <5>2
          <6>2. \A j \in 1 .. k + 1 : ~ Useless(T[j]) /\ T[j].use_count > 0
                BY <1>4, <4>1, <4>4, <6>1
          <6>3. \A j \in 1 .. k + 1 : T[j].use_count = e.use_count => oldest(j)
                BY <1>3, <1>4, <1>6, <4>4, <6>1
          <6> QED BY <1>5, <6>2, <6>3 DEF WorstOf
        <5> QED BY <5>1, <5>2
      <4> QED BY <2>2, <4>3, <4>4 DEF WorstOf
    <3> QED BY <3>2, <3>3
  <2>3. WorstOf(T, k + 1, k + 1) BY <2>1, <2>2
  <2> QED BY <1>7, <2>3
<1>8. CASE ~ Worse(e, v)
  <2> DEFINE older(j) == T[j].age <= v.age
  <2>1. CASE Useless(v) /\ \A j \in 1 .. k : Useless(T[j]) => older(j)
    <3>1. Useless(e) => e.age <= v.age BY <1>3, <1>8, <2>1 DEF Worse
    <3>2. \A j \in 1 .. k + 1 : Useless(T[j]) => older(j) BY <1>4, <2>1, <3>1
    <3>3. WorstOf(T, k + 1, w) BY <1>5, <2>1, <3>2 DEF WorstOf
    <3> QED BY <1>8, <3>3
  <2>2. CASE ~ Useless(v) /\ \A j \in 1 .. k : ~ Useless(T[j])
    <3>1. ~ Useless(e) BY <1>8, <2>2 DEF Worse
    <3>2. \A j \in 1 .. k + 1 : ~ Useless(T[j]) BY <1>4, <2>2, <3>1
    <3>3. /\ ~ (v.use_count > 0 /\ e.use_count = 0)
          /\ e.use_count = v.use_count => e.age <= v.age
          BY <1>3, <1>8, <2>2, <3>1 DEF Worse
    <3>4. CASE v.use_count = 0 /\ \A j \in 1 .. k : T[j].use_count = 0 => older(j)
      <4>1. \A j \in 1 .. k + 1 : T[j].use_count = 0 => older(j) BY <1>4, <3>3, <3>4
      <4>2. WorstOf(T, k + 1, w) BY <1>5, <3>2, <3>4, <4>1 DEF WorstOf
      <4> QED BY <1>8, <4>2
    <3>5. CASE /\ \A j \in 1 .. k : T[j].use_count > 0
               /\ \A j \in 1 .. k : T[j].use_count = v.use_count => older(j)
      <4>1. v.use_count > 0 BY <1>1, <3>5
      <4>2. e.use_count > 0 BY <1>3, <3>3, <4>1
      <4>3. \A j \in 1 .. k + 1 : ~ Useless(T[j]) /\ T[j].use_count > 0
            BY <1>4, <3>2, <3>5, <4>2
      <4>4. \A j \in 1 .. k + 1 : T[j].use_count = v.use_count => older(j)
            BY <1>4, <3>3, <3>5
      <4>5. WorstOf(T, k + 1, w) BY <1>5, <4>3, <4>4 DEF WorstOf
      <4> QED BY <1>8, <4>5
    <3> QED BY <2>2, <3>4, <3>5 DEF WorstOf
  <2> QED BY <1>1, <2>1, <2>2 DEF WorstOf
<1> QED BY <1>7, <1>8

\* The route the scan of rt_upsert ends at is one the priorities let go.
LEMMA WorstIsVictim ==
    ASSUME NEW T \in Seq(RouteEntry), Len(T) > 0
    PROVE  Worst(T) \in DOMAIN T /\ T[Worst(T)] \in Victims(ToSet(T))
<1> DEFINE worst == CHOOSE g : IsScan(T, g)
           n == Len(T)
           S == {k \in 0 .. n : k > 0 /\ ~ WorstOf(T, k, worst[k])}
<1>1. IsScan(T, worst) BY ScanExists
<1>2. Worst(T) = worst[n] BY DEF Worst, IsScan
<1>3. n \in Nat /\ n > 0 /\ DOMAIN T = 1 .. n OBVIOUS
<1> HIDE DEF worst, n
<1>4. worst[1] = 1 BY <1>1, <1>3 DEF IsScan
<1>5. ASSUME NEW k \in 1 .. n - 1
      PROVE  worst[k + 1] = IF Worse(T[k + 1], T[worst[k]]) THEN k + 1 ELSE worst[k]
  <2>1. k + 1 \in DOMAIN T /\ k + 1 # 1 /\ (k + 1) - 1 = k BY <1>3
  <2> QED BY <1>1, <2>1 DEF IsScan
<1>6. WorstOf(T, 1, worst[1])
  <2>1. T[1] \in RouteEntry BY <1>3
  <2>2. T[1].age \in Nat /\ T[1].use_count \in Nat BY <2>1, RouteAssumption DEF RouteEntry
  <2>3. \A j \in 1 .. 1 : j = 1 OBVIOUS
  <2> QED BY <1>4, <2>2, <2>3 DEF WorstOf
<1>7. ASSUME NEW k \in 0 .. n, k + 1 \in S, k \notin S PROVE FALSE
  <2>1. CASE k = 0 BY <1>6, <1>7, <2>1
  <2>2. CASE k # 0
    <3>1. k \in 1 .. n - 1 /\ k \in 1 .. Len(T) - 1 BY <1>3, <1>7, <2>2 DEF n
    <3>2. WorstOf(T, k, worst[k]) BY <1>7, <2>2
    <3>3. WorstOf(T, k + 1, worst[k + 1]) BY <1>5, <3>1, <3>2, ScanKeeps
    <3> QED BY <1>7, <3>3
  <2> QED BY <2>1, <2>2
<1>8. 0 \notin S /\ S \in SUBSET (0 .. n) OBVIOUS
<1>9. \A k \in 0 .. n : k + 1 \in S => k \in S BY <1>7
<1>10. S = {}
  <2> HIDE DEF S
  <2> QED BY <1>3, <1>8, <1>9, NoneFails
<1>11. WorstOf(T, n, worst[n]) BY <1>3, <1>10
<1> DEFINE w == worst[n]
<1>12. w \in 1 .. n /\ T[w] \in ToSet(T) BY <1>3, <1>11 DEF WorstOf, ToSet
<1>13. \A e \in ToSet(T) : \E j \in 1 .. n : e = T[j] BY <1>3 DEF ToSet
<1>14. \A j \in 1 .. n : T[j] \in ToSet(T) /\ T[j].use_count \in Nat
  <2>1. \A j \in 1 .. n : T[j] \in ToSet(T) /\ T[j] \in RouteEntry BY <1>3 DEF ToSet
  <2> QED BY <2>1, RouteAssumption DEF RouteEntry
<1> HIDE DEF w
<1>15. T[w] \in Victims(ToSet(T))
  <2>1. WorstOf(T, n, w) BY <1>11 DEF w
  <2>2. CASE /\ Useless(T[w])
             /\ \A j \in 1 .. n : Useless(T[j]) => T[j].age <= T[w].age
        BY <1>12, <1>13, <2>2 DEF Victims
  <2>3. CASE /\ \A j \in 1 .. n : ~ Useless(T[j])
             /\ T[w].use_count = 0
             /\ \A j \in 1 .. n : T[j].use_count = 0 => T[j].age <= T[w].age
        BY <1>12, <1>13, <2>3 DEF Victims
  <2>4. CASE /\ \A j \in 1 .. n : ~ Useless(T[j]) /\ T[j].use_count > 0
             /\ \A j \in 1 .. n :
                   T[j].use_count = T[w].use_count => T[j].age <= T[w].age
    <3>1. {e \in ToSet(T) : Useless(e)} = {} BY <1>13, <2>4
    <3>2. {e \in ToSet(T) : e.use_count = 0} = {} BY <1>13, <1>14, <2>4
    <3> DEFINE O(f) == {v \in {e \in ToSet(T) : e.use_count = f.use_count} :
                           \A e \in {c \in ToSet(T) : c.use_count = f.use_count} :
                              e.age <= v.age}
    <3>3. T[w] \in O(T[w]) BY <1>12, <1>13, <2>4
    <3>4. Victims(ToSet(T)) = UNION {O(f) : f \in ToSet(T)} BY <3>1, <3>2 DEF Victims
    <3> QED BY <1>12, <3>3, <3>4
  <2> QED BY <2>1, <2>2, <2>3, <2>4 DEF WorstOf
<1> QED BY <1>2, <1>3, <1>12, <1>15 DEF w

-----------------------------------------------------------------------------
(* The refinement                                                          *)

ArrayInv ==
    /\ Slots(slots)
    /\ table = ToSet(slots)
    /\ seen \in Nat
    /\ admits \in Nat

\* rt_find returns the slot of the destination, or 0.
LEMMA FindFacts ==
    ASSUME NEW T \in Seq(RouteEntry), NEW d
    PROVE  \/ rt_find(T, d) = 0 /\ \A i \in DOMAIN T : T[i].dest # d
           \/ rt_find(T, d) \in DOMAIN T /\ rt_find(T, d) # 0 /\ T[rt_find(T, d)].dest = d
<1> DEFINE I == {i \in 1 .. Len(T) : T[i].dest = d}
<1>1. rt_find(T, d) = IF I # {} THEN Min(I) ELSE 0 BY DEF rt_find, SelectInSeq
<1>2. DOMAIN T = 1 .. Len(T) OBVIOUS
<1>3. CASE I = {} BY <1>1, <1>2, <1>3
<1>4. CASE I # {}
  <2>1. I \in SUBSET Nat OBVIOUS
  <2>2. \E m \in I : \A n \in I : m <= n
    <3> HIDE DEF I
    <3> QED BY <1>4, <2>1, Least
  <2>3. Min(I) \in I BY <2>2, Zenon DEF Min
  <2> QED BY <1>1, <1>2, <1>4, <2>3
<1> QED BY <1>3, <1>4

LEMMA UpsertMaps ==
    ASSUME NEW T, Slots(T), NEW n, NEW r \in RouteEntry, ArrayUpsert(T, n, r),
           table' = ToSet(slots')
    PROVE  Slots(slots)' /\ rt_upsert(ToSet(T), n, r)
<1> DEFINE i == rt_find(T, r.dest)
           S == ToSet(T)
<1>1. T \in Seq(RouteEntry) /\ Distinct(T) /\ Len(T) \in Nat /\ DOMAIN T = 1 .. Len(T)
      /\ Len(T) <= MaxRoutes
      BY DEF Slots
<1>2. \/ i = 0 /\ \A j \in DOMAIN T : T[j].dest # r.dest
      \/ i \in DOMAIN T /\ i # 0 /\ T[i].dest = r.dest
      BY <1>1, FindFacts
<1>3. Full(S) <=> Len(T) >= MaxRoutes BY SlotsCount DEF Full
<1>4. /\ \A j \in DOMAIN T : T[j] \in S
      /\ \A e \in S : \E j \in DOMAIN T : e = T[j]
      BY DEF ToSet
<1> HIDE DEF S
<1>5. CASE /\ i # 0
           /\ slots' = IF Improves(r, T[i]) THEN [T EXCEPT ![i] = Refreshed(@, r)] ELSE T
           /\ admits' = n
  <2>1. i \in DOMAIN T /\ T[i].dest = r.dest BY <1>2, <1>5
  <2> DEFINE e == T[i]
             f == Refreshed(e, r)
  <2>2. e \in S /\ e \in RouteEntry BY <1>1, <1>4, <2>1
  <2>3. f \in RouteEntry /\ f.dest = e.dest BY <2>1, <2>2, RefreshedFields
  <2>4. OnlyAt(T, i, f) BY <1>1, <2>1, <2>3 DEF Distinct, OnlyAt
  <2>5. CASE Improves(r, e)
    <3>1. slots' = Put(T, i, f) BY <1>1, <1>5, <2>1, <2>5 DEF Put
    <3> HIDE DEF f, i
    <3>2. Slots(Put(T, i, f)) /\ ToSet(Put(T, i, f)) = (ToSet(T) \ {T[i]}) \cup {f}
          BY <2>1, <2>3, <2>4, SlotWritten
    <3>3. table' = (S \ {e}) \cup {f} BY <3>1, <3>2 DEF S
    <3>4. Slots(slots)' BY <3>1, <3>2 DEF Slots, Distinct
    <3>5. rt_upsert(S, n, r) BY <1>5, <2>1, <2>2, <2>5, <3>3 DEF rt_upsert, f
    <3> QED BY <3>4, <3>5 DEF S
  <2>6. CASE ~ Improves(r, e)
    <3>1. slots' = T BY <1>5, <2>6
    <3>2. Slots(slots)' BY <3>1 DEF Slots, Distinct
    <3>3. table' = S BY <3>1 DEF S
    <3>4. rt_upsert(S, n, r) BY <1>5, <2>1, <2>2, <2>6, <3>3 DEF rt_upsert
    <3> QED BY <3>2, <3>4 DEF S
  <2> QED BY <2>5, <2>6
<1>6. CASE i = 0 /\ Refused(S, n, r) /\ slots' = T /\ admits' = n
  <2>1. Slots(slots)' BY <1>6 DEF Slots, Distinct
  <2>2. table' = S BY <1>6 DEF S
  <2>3. \A e \in S : e.dest # r.dest BY <1>2, <1>4, <1>6
  <2>4. rt_upsert(S, n, r) BY <1>6, <2>2, <2>3 DEF rt_upsert
  <2> QED BY <2>1, <2>4 DEF S
<1>7. CASE /\ i = 0
           /\ ~ Refused(S, n, r)
           /\ slots' = IF Len(T) < MaxRoutes THEN Append(T, r)
                       ELSE [T EXCEPT ![Worst(T)] = r]
           /\ admits' = n + 1
  <2>1. \A j \in DOMAIN T : T[j].dest # r.dest BY <1>2, <1>7
  <2>2. \A e \in S : e.dest # r.dest BY <1>4, <2>1
  <2>3. CASE Len(T) < MaxRoutes
    <3> DEFINE U == Append(T, r)
    <3>1. U \in Seq(RouteEntry) /\ Len(U) = Len(T) + 1 /\ DOMAIN U = 1 .. Len(T) + 1
          /\ U[Len(T) + 1] = r /\ \A j \in DOMAIN T : U[j] = T[j]
          BY <1>1
    <3>2. slots' = U BY <1>7, <2>3
    <3> HIDE DEF U
    <3>3. \A j \in DOMAIN U : j \in DOMAIN T \/ j = Len(T) + 1 BY <1>1, <3>1
    <3>4. \A j \in DOMAIN T : j \in DOMAIN U BY <1>1, <3>1
    <3>5. Len(T) + 1 \in DOMAIN U BY <1>1, <3>1
    <3>6. Distinct(U) BY <1>1, <2>1, <3>1, <3>3 DEF Distinct
    <3>7. ToSet(U) = S \cup {r} BY <3>1, <3>3, <3>4, <3>5 DEF ToSet, S
    <3>8. Len(U) <= MaxRoutes BY <1>1, <2>3, <3>1, RouteAssumption
    <3>9. Slots(slots)' BY <3>1, <3>2, <3>6, <3>8 DEF Slots, Distinct
    <3>10. ~ Full(S) BY <1>1, <1>3, <2>3, RouteAssumption
    <3>11. table' = S \cup {r} BY <3>2, <3>7
    <3>12. rt_upsert(S, n, r) BY <1>7, <2>2, <3>10, <3>11 DEF rt_upsert
    <3> QED BY <3>9, <3>12 DEF S
  <2>4. CASE ~ (Len(T) < MaxRoutes)
    <3> DEFINE w == Worst(T)
    <3>1. Len(T) > 0 /\ Full(S) BY <1>1, <1>3, <2>4, RouteAssumption
    <3>2. w \in DOMAIN T /\ T[w] \in Victims(S) BY <1>1, <3>1, WorstIsVictim DEF S
    <3>3. slots' = Put(T, w, r) /\ OnlyAt(T, w, r) BY <1>7, <2>1, <2>4 DEF Put, OnlyAt
    <3> HIDE DEF w
    <3>4. Slots(Put(T, w, r)) /\ ToSet(Put(T, w, r)) = (ToSet(T) \ {T[w]}) \cup {r}
          BY <3>2, <3>3, SlotWritten
    <3>5. table' = (S \ {T[w]}) \cup {r} BY <3>3, <3>4 DEF S
    <3>6. Slots(slots)' BY <3>3, <3>4 DEF Slots, Distinct
    <3>7. rt_upsert(S, n, r) BY <1>7, <2>2, <3>1, <3>2, <3>5 DEF rt_upsert
    <3> QED BY <3>6, <3>7 DEF S
  <2> QED BY <2>3, <2>4
<1> QED BY <1>5, <1>6, <1>7 DEF ArrayUpsert, S

\* Every step of the slots is a step of the set of their routes.
LEMMA ArrayStep ==
    ArrayInv /\ [ArrayNext]_<<slots, table, seen, admits>> => ArrayInv' /\ [Next]_vars
<1> SUFFICES ASSUME ArrayInv, [ArrayNext]_<<slots, table, seen, admits>>
             PROVE  ArrayInv' /\ [Next]_vars
    OBVIOUS
<1>1. ASSUME NEW d \in Dest, NEW n \in 0 .. MaxHops, NEW z \in HashSize, ArrayAdvert(d, n, z)
      PROVE  ArrayInv' /\ Next
  <2> DEFINE aging == (seen + 1) % AgeEvery = 0
             T == IF aging THEN AgeSlots(slots) ELSE slots
             m == IF aging THEN 0 ELSE admits
             r == Route(d, n, z, seen + 1)
  <2>1. /\ seen < MaxAdverts /\ seen' = seen + 1
        /\ ArrayUpsert(T, m, r) /\ table' = ToSet(slots')
        BY <1>1 DEF ArrayAdvert
  <2>2. seen \in Nat /\ m \in Nat /\ Slots(slots) /\ table = ToSet(slots) BY DEF ArrayInv
  <2>3. Slots(T) /\ ToSet(T) = IF aging THEN rt_age_entries(table) ELSE table
        BY <2>2, AgeSlotsAges
  <2>4. r \in RouteEntry BY <2>2, RouteType
  <2>5. Slots(slots)' /\ rt_upsert(ToSet(T), m, r)
    <3> HIDE DEF T, m, r
    <3> QED BY <2>1, <2>3, <2>4, UpsertMaps
  <2>6. Advert(d, n, z) BY <2>1, <2>3, <2>5 DEF Advert
  <2>7. admits' \in Nat
    <3>1. admits' = m \/ admits' = m + 1 BY <2>1 DEF ArrayUpsert
    <3> HIDE DEF m
    <3> QED BY <2>2, <3>1
  <2>8. seen' \in Nat BY <2>1, <2>2
  <2>9. ArrayInv' BY <2>1, <2>5, <2>7, <2>8 DEF ArrayInv
  <2> QED BY <2>6, <2>9 DEF Next
<1>2. ASSUME NEW i \in DOMAIN slots, ArraySend(i) PROVE ArrayInv' /\ Next
  <2> DEFINE e == slots[i]
             f == [e EXCEPT !.use_count = IF @ < UseCap THEN @ + 1 ELSE @]
  <2>1. Slots(slots) /\ table = ToSet(slots) BY DEF ArrayInv
  <2>2. e \in RouteEntry /\ e \in table BY <2>1 DEF Slots, ToSet
  <2>3. f \in RouteEntry /\ f.dest = e.dest
    <3> HIDE DEF e
    <3> QED BY <2>2, RouteAssumption DEF RouteEntry
  <2>4. slots' = [slots EXCEPT ![i] = f] /\ table' = ToSet(slots')
        /\ e.metric > 1 /\ ~ Useless(e) /\ UNCHANGED <<seen, admits>>
        BY <1>2, <2>1 DEF ArraySend, Slots
  <2>5. OnlyAt(slots, i, f) BY <2>1, <2>3 DEF Slots, Distinct, OnlyAt
  <2>6. f = [e EXCEPT !.use_count = IF @ < UseCap THEN @ + 1 ELSE @] OBVIOUS
  <2> HIDE DEF f
  <2>7. /\ Slots(Put(slots, i, f))
        /\ ToSet(Put(slots, i, f)) = (ToSet(slots) \ {slots[i]}) \cup {f}
        BY <2>1, <2>3, <2>5, SlotWritten
  <2>8. Slots(slots)' BY <2>4, <2>7 DEF Slots, Distinct, Put
  <2>9. table' = (table \ {e}) \cup {f} BY <2>1, <2>4, <2>7 DEF Put
  <2>10. Send(e) BY <2>2, <2>4, <2>6, <2>9 DEF Send
  <2>11. ArrayInv' BY <2>4, <2>8 DEF ArrayInv
  <2> QED BY <2>2, <2>10, <2>11 DEF Next
<1>3. CASE UNCHANGED <<slots, table, seen, admits>>
      BY <1>3 DEF ArrayInv, Slots, Distinct, vars
<1> QED BY <1>1, <1>2, <1>3 DEF ArrayNext

LEMMA ArrayInitial == ArrayInit => ArrayInv /\ Init
<1> SUFFICES ASSUME ArrayInit PROVE ArrayInv BY DEF ArrayInit
<1>1. slots = << >> /\ table = {} /\ seen = 0 /\ admits = 0 BY DEF ArrayInit, Init
<1>2. Slots(slots) BY <1>1, RouteAssumption DEF Slots, Distinct
<1>3. ToSet(slots) = {} BY <1>1 DEF ToSet
<1> QED BY <1>1, <1>2, <1>3 DEF ArrayInv

\* The slots of rt_table, its swaps when a route expires and its scan for the
\* route to evict implement the set of routes of RouteTable.
THEOREM SlotsImplementTable == ArraySpec => ImplementsRouteTable
BY ArrayInitial, ArrayStep, PTL DEF ArraySpec, ImplementsRouteTable, Spec

\* No destination ever has two slots, and there are never more than
\* RT_MAX_ROUTES (SimNode.cpp, rt_upsert, rt_age_entries).
THEOREM OneSlot == ArraySpec => []OneSlotPerDest
<1>1. ArrayInv => OneSlotPerDest BY DEF ArrayInv, Slots, Distinct, OneSlotPerDest
<1> QED BY <1>1, ArrayInitial, ArrayStep, PTL DEF ArraySpec

\* What is proved of the set of routes holds of the routes in the slots: they
\* expire, they get worse by expiry only, fresh ones stay, and the code's
\* scan of the slots evicts in the order of its priorities.
THEOREM SlotsInherit ==
    ArraySpec => /\ []StaleRoutesExpire
                 /\ RoutesWorsenOnlyByExpiry
                 /\ FreshRoutesStay
                 /\ EvictsByPriority
BY SlotsImplementTable, Expiry, RoutesKeepWorth, FreshStay, EvictionOrder DEF ImplementsRouteTable
=============================================================================
