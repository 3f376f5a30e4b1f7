----------------------------- MODULE RouteTable -----------------------------
(***************************************************************************)
(* The routing table of the nexthop agent (privatemesh/nexthop/SimNode.cpp)*)
(* as a set of routes: what adverts put into it, how it ages, what gives   *)
(* way when it is full.  The order of the slots is left out, so where the  *)
(* code's choice depends on that order any choice is allowed here;         *)
(* RouteArray has the slots and is shown to implement this module.         *)
(*                                                                         *)
(*   Advert  onAdvertRecv, from the aging of the table on                  *)
(*   Send    sendTextTo, when it takes the route of the table              *)
(*                                                                         *)
(* Nothing in the sources sets the pinned bit of the age field, so no      *)
(* route is pinned.  A destination is the 4-byte prefix of a public key.   *)
(***************************************************************************)
EXTENDS Integers, FiniteSets

CONSTANTS
    Dest,            \* destinations
    HashSize,        \* sizes of a relay's hash in a path, in bytes
    MaxHops,         \* longest relay path an advert carries (63)
    MaxRoutes,       \* RT_MAX_ROUTES
    MaxAge,          \* RT_MAX_AGE
    PathCap,         \* RT_PATH_CAP
    AgeEvery,        \* RT_AGE_EVERY
    AdmitPerCycle,   \* RT_ADMIT_PER_CYCLE
    UseCap,          \* where use_count saturates (255)
    MaxAdverts       \* bound: adverts received

ASSUME RouteAssumption ==
    /\ HashSize \subseteq Nat \ {0}
    /\ MaxHops \in Nat
    /\ MaxRoutes \in Nat \ {0}
    /\ MaxAge \in Nat
    /\ PathCap \in Nat
    /\ AgeEvery \in Nat \ {0}
    /\ AdmitPerCycle \in Nat
    /\ UseCap \in Nat
    /\ MaxAdverts \in Nat

VARIABLES
    table,    \* rt_table: the live routes
    seen,     \* rt_advert_seen
    admits    \* rt_admits_this_cycle

vars == <<table, seen, admits>>

\* metric: hops to dest, 1 for a neighbour.  bytes: path_bytes, 0 for a route
\* that holds no path.  at: seen when an advert last wrote the route; it is
\* history, the code has no such field.
RouteEntry == [dest : Dest, metric : Nat \ {0}, bytes : Nat, hash_sz : HashSize,
               age : 0..MaxAge, use_count : 0..UseCap, at : Nat]

TypeOK ==
    /\ table \subseteq RouteEntry
    /\ seen \in Nat
    /\ admits \in Nat

Init ==
    /\ table = {}
    /\ seen = 0
    /\ admits = 0

-----------------------------------------------------------------------------
(* onAdvertRecv                                                            *)

\* The route an advert of d gives that came over n relays and is the t-th.  A
\* path longer than the entry holds is not kept at all.
Route(d, n, z, t) ==
    [dest |-> d, metric |-> n + 1, bytes |-> IF n * z > PathCap THEN 0 ELSE n * z,
     hash_sz |-> z, age |-> 0, use_count |-> 0, at |-> t]

Useless(e) == e.bytes = 0

rt_age_entries(T) ==
    {[e EXCEPT !.age = @ + 1] : e \in {x \in T : x.age + 1 <= MaxAge}}

\* The routes of T, which is full, that may give way: the oldest of the useless
\* ones; failing these, of those never used; and when all are in use the oldest
\* of those with some number of uses, which one depending on the slots.
Victims(T) ==
    LET Oldest(S) == {v \in S : \A e \in S : e.age <= v.age}
        useless   == {e \in T : Useless(e)}
        unused    == {e \in T : e.use_count = 0}
    IN  IF useless # {} THEN Oldest(useless)
        ELSE IF unused # {} THEN Oldest(unused)
        ELSE UNION {Oldest({e \in T : e.use_count = f.use_count}) : f \in T}

\* Mutant: the comparison of the metrics is turned round.
Improves_worse(r, e) == r.metric >= e.metric

Improves(r, e) == r.metric <= e.metric

Full(T) == Cardinality(T) >= MaxRoutes

\* e as r overwrites it: all of it but the number of uses.
Refreshed(e, r) == [r EXCEPT !.use_count = e.use_count]

\* What is not admitted to T after n admissions in this age cycle: anything at
\* the limit, a useless route when there is no free slot.
Refused(T, n, r) == n >= AdmitPerCycle \/ (Full(T) /\ Useless(r))

\* r meets the table T, with n admissions so far in this age cycle.
rt_upsert(T, n, r) ==
    \/ \E e \in T :
          /\ e.dest = r.dest
          /\ table' = IF Improves(r, e)
                      THEN (T \ {e}) \cup {Refreshed(e, r)}
                      ELSE T
          /\ admits' = n
    \/ /\ \A e \in T : e.dest # r.dest
       /\ Refused(T, n, r)
       /\ table' = T
       /\ admits' = n
    \/ /\ \A e \in T : e.dest # r.dest
       /\ ~ Refused(T, n, r)
       /\ IF Full(T)
          THEN \E v \in Victims(T) : table' = (T \ {v}) \cup {r}
          ELSE table' = T \cup {r}
       /\ admits' = n + 1

Advert(d, n, z) ==
    LET aging == (seen + 1) % AgeEvery = 0
    IN
    /\ seen < MaxAdverts
    /\ seen' = seen + 1
    /\ rt_upsert(IF aging THEN rt_age_entries(table) ELSE table,
                 IF aging THEN 0 ELSE admits,
                 Route(d, n, z, seen + 1))

-----------------------------------------------------------------------------
(* sendTextTo                                                              *)

\* The message goes out with the path of e.
Send(e) ==
    /\ e \in table
    /\ e.metric > 1
    /\ ~ Useless(e)
    /\ table' = (table \ {e}) \cup
                   {[e EXCEPT !.use_count = IF @ < UseCap THEN @ + 1 ELSE @]}
    /\ UNCHANGED <<seen, admits>>

-----------------------------------------------------------------------------

Next ==
    \/ \E d \in Dest, n \in 0..MaxHops, z \in HashSize : Advert(d, n, z)
    \/ \E e \in table : Send(e)

Spec == Init /\ [][Next]_vars

-----------------------------------------------------------------------------
(* Safety                                                                  *)

\* A route no advert has written for MaxAge + 1 age cycles is gone, whatever
\* was sent and evicted meanwhile.
StaleRoutesExpire ==
    \A e \in table : seen - e.at < (MaxAge + 1) * AgeEvery

\* nexthop/README.md: with an admission limit as large as the age cycle is long
\* "a full warmup broadcast can populate the table", so when the limit is
\* reached the next advert opens a new cycle and no advert is ever refused.
LimitNeverBites ==
    AdmitPerCycle >= AgeEvery =>
        (admits >= AdmitPerCycle => (seen + 1) % AgeEvery = 0)

\* While a destination stays in the table its route gets worse - longer, or of
\* fewer uses - only when it had reached its maximal age and expires in that
\* very step: aging comes before the update, a longer path replaces no live
\* route, a shorter one takes over the number of uses, and that number stops at
\* its cap, where a wrap would make the most used route the first to give way
\* (SimNode.cpp: rt_upsert, rt_age_entries, sendTextTo).
RoutesWorsenOnlyByExpiry ==
    [][\A e \in table, f \in table' :
          e.dest = f.dest /\ (f.metric > e.metric \/ f.use_count < e.use_count) =>
              e.age = MaxAge /\ seen' % AgeEvery = 0]_vars

\* A route leaves before MaxAge age cycles have passed since its last advert
\* only by giving way in a full table to a route that has a path.
FreshRoutesStay ==
    [][\A e \in table :
          \/ \E f \in table' : f.dest = e.dest
          \/ seen' - e.at > MaxAge * AgeEvery
          \/ \E f \in table' : ~ Useless(f) /\ f.at = seen'
                               /\ Cardinality(table') = MaxRoutes]_vars
=============================================================================
