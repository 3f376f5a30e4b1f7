----------------------------- MODULE RouteArray -----------------------------
(***************************************************************************)
(* rt_table of the nexthop agent slot by slot: the swap with the last slot *)
(* when a route expires, and the scan for the route to evict, as loops.    *)
(* table, of RouteTable, is the set of the routes in the slots: the slots  *)
(* implement RouteTable, and what is stated and proved of it holds here.   *)
(***************************************************************************)
EXTENDS RouteTable, Sequences, SequencesExt

VARIABLE slots    \* rt_table[0 .. rt_count - 1]

ArrayInit == slots = << >> /\ Init

-----------------------------------------------------------------------------

\* Mutant: a route without a path is not found.
rt_find_useful(T, d) == SelectInSeq(T, LAMBDA e : e.dest = d /\ ~ Useless(e))

\* The index of d's route, or 0.
rt_find(T, d) == SelectInSeq(T, LAMBDA e : e.dest = d)

\* Mutants: i moves on past the route swapped into its slot; a route goes when
\* it reaches the maximal age.
AgePass_skip(s) ==
    IF s.i > Len(s.rt) THEN s
    ELSE IF s.rt[s.i].age + 1 > MaxAge
         THEN [rt |-> Front([s.rt EXCEPT ![s.i] = Last(s.rt)]), i |-> s.i + 1]
         ELSE [rt |-> [s.rt EXCEPT ![s.i].age = @ + 1], i |-> s.i + 1]

AgePass_early(s) ==
    IF s.i > Len(s.rt) THEN s
    ELSE IF s.rt[s.i].age + 1 >= MaxAge
         THEN [rt |-> Front([s.rt EXCEPT ![s.i] = Last(s.rt)]), i |-> s.i]
         ELSE [rt |-> [s.rt EXCEPT ![s.i].age = @ + 1], i |-> s.i + 1]

\* One pass of the loop of rt_age_entries over the slots rt, at slot i.
AgePass(s) ==
    IF s.i > Len(s.rt) THEN s
    ELSE IF s.rt[s.i].age + 1 > MaxAge
         THEN [rt |-> Front([s.rt EXCEPT ![s.i] = Last(s.rt)]), i |-> s.i]
         ELSE [rt |-> [s.rt EXCEPT ![s.i].age = @ + 1], i |-> s.i + 1]

\* A pass drops a slot or goes on to the next: Len(T) passes are the loop.
AgeSlots(T) ==
    LET pass[k \in 0 .. Len(T)] ==
            IF k = 0 THEN [rt |-> T, i |-> 1] ELSE AgePass(pass[k - 1])
    IN  pass[Len(T)].rt

\* Mutant: the number of uses is compared, but not whether there is a path.
Worse_useful(e, w) ==
    \/ w.use_count > 0 /\ e.use_count = 0
    \/ e.use_count = w.use_count /\ e.age > w.age

\* Whether the scan of rt_upsert prefers to evict e over w.
Worse(e, w) ==
    \/ Useless(e) /\ ~ Useless(w)
    \/ /\ ~ Useless(e) /\ ~ Useless(w)
       /\ \/ w.use_count > 0 /\ e.use_count = 0
          \/ e.use_count = w.use_count /\ e.age > w.age
    \/ Useless(e) /\ Useless(w) /\ e.age > w.age

\* Where that scan ends.
Worst(T) ==
    LET worst[i \in DOMAIN T] ==
            IF i = 1 THEN 1
            ELSE IF Worse(T[i], T[worst[i - 1]]) THEN i ELSE worst[i - 1]
    IN  worst[Len(T)]

ArrayUpsert(T, n, r) ==
    LET i == rt_find(T, r.dest)
    IN
    \/ /\ i # 0
       /\ slots' = IF Improves(r, T[i]) THEN [T EXCEPT ![i] = Refreshed(@, r)] ELSE T
       /\ admits' = n
    \/ /\ i = 0
       /\ Refused(ToSet(T), n, r)
       /\ slots' = T
       /\ admits' = n
    \/ /\ i = 0
       /\ ~ Refused(ToSet(T), n, r)
       /\ slots' = IF Len(T) < MaxRoutes THEN Append(T, r)
                   ELSE [T EXCEPT ![Worst(T)] = r]
       /\ admits' = n + 1

\* Mutant: the counter of admissions is not reset.
ArrayAdvert_noreset(d, n, z) ==
    /\ seen < MaxAdverts
    /\ seen' = seen + 1
    /\ ArrayUpsert(IF (seen + 1) % AgeEvery = 0 THEN AgeSlots(slots) ELSE slots,
                   admits, Route(d, n, z, seen + 1))
    /\ table' = ToSet(slots')

ArrayAdvert(d, n, z) ==
    LET aging == (seen + 1) % AgeEvery = 0
    IN
    /\ seen < MaxAdverts
    /\ seen' = seen + 1
    /\ ArrayUpsert(IF aging THEN AgeSlots(slots) ELSE slots,
                   IF aging THEN 0 ELSE admits,
                   Route(d, n, z, seen + 1))
    /\ table' = ToSet(slots')

\* Mutants: the count of uses wraps; it does not saturate.
ArraySend_wraps(i) ==
    /\ slots[i].metric > 1
    /\ ~ Useless(slots[i])
    /\ slots' = [slots EXCEPT ![i].use_count = (@ + 1) % (UseCap + 1)]
    /\ table' = ToSet(slots')
    /\ UNCHANGED <<seen, admits>>

ArraySend_unbounded(i) ==
    /\ slots[i].metric > 1
    /\ ~ Useless(slots[i])
    /\ slots' = [slots EXCEPT ![i].use_count = @ + 1]
    /\ table' = ToSet(slots')
    /\ UNCHANGED <<seen, admits>>

ArraySend(i) ==
    /\ slots[i].metric > 1
    /\ ~ Useless(slots[i])
    /\ slots' = [slots EXCEPT ![i].use_count = IF @ < UseCap THEN @ + 1 ELSE @]
    /\ table' = ToSet(slots')
    /\ UNCHANGED <<seen, admits>>

ArrayNext ==
    \/ \E d \in Dest, n \in 0..MaxHops, z \in HashSize : ArrayAdvert(d, n, z)
    \/ \E i \in DOMAIN slots : ArraySend(i)

ArraySpec == ArrayInit /\ [][ArrayNext]_<<slots, table, seen, admits>>

-----------------------------------------------------------------------------

\* The slots implement the set of routes: the route the scan evicts is one the
\* priorities allow, and aging misses no slot although it swaps slots.
ImplementsRouteTable == Spec

\* No destination has two slots and there are no more than MaxRoutes of them:
\* rt_find, which stops at the first match, precedes every insertion.
OneSlotPerDest ==
    /\ \A i, j \in DOMAIN slots : slots[i].dest = slots[j].dest => i = j
    /\ Len(slots) <= MaxRoutes

\* SimNode.cpp, the priorities of the eviction: "5. Among used: evict stalest".
\* A full table of used routes that takes in a new one outside the aging step
\* loses one of its oldest routes.
UsedStalestEvicted ==
    [][ /\ Len(slots) = MaxRoutes
        /\ \A i \in DOMAIN slots : ~ Useless(slots[i]) /\ slots[i].use_count > 0
        /\ seen' = seen + 1
        /\ seen' % AgeEvery # 0
        => \A i \in DOMAIN slots :
              (\A f \in table' : f.dest # slots[i].dest) =>
                  \A j \in DOMAIN slots : slots[j].age <= slots[i].age ]_vars
=============================================================================
