-------------------------------- MODULE LRU --------------------------------
(***************************************************************************)
(* The LRU cache under the partition registry: a map from key to list      *)
(* element and a list of the elements, the most recently used first. Every *)
(* call holds the cache's mutex from beginning to end, so it is one        *)
(* action. The hit, miss and eviction counters, which nothing reads back,  *)
(* are left out.                                                           *)
(***************************************************************************)
EXTENDS Integers, Sequences, FiniteSets, SequencesExt

CONSTANTS
    Keys,        \* cache keys: a table name and a snapshot id
    Values,      \* cached results
    Capacities   \* the capacities NewLRU is called with

ASSUME LRUAssumption == Capacities \subseteq Int

VARIABLES
    capacity,   \* set once, by NewLRU
    items,      \* keys of the map
    list,       \* entries of the list, front first
    touched     \* history: the keys used so far, the most recently used or stored first

vars == <<capacity, items, list, touched>>

Entry == [key : Keys, value : Values]

\* The entry that the map's element for key k holds.
Elem(k) == CHOOSE e \in ToSet(list) : e.key = k

\* What is left of s when all but the elements at the indices in I have been
\* removed from it, one by one; Nth(I, j) is the j-th index.
Nth(I, j) == CHOOSE i \in I : Cardinality({ h \in I : h < i }) = j - 1

Keep(s, I) == [j \in 1 .. Cardinality(I) |-> s[Nth(I, j)]]

RemoveKeys(keys) == Keep(list, { i \in DOMAIN list : list[i].key \notin keys })

PushFront(e, l) == <<e>> \o l

\* k is the most recently used key now.
Touch(k) == touched' = PushFront(k, Keep(touched, { i \in DOMAIN touched : touched[i] # k }))

-----------------------------------------------------------------------------
\* Mutant: a capacity below 1 is taken as it is.
AnyCapacity(c) == c

NewCapacity(c) == IF c <= 0 THEN 1 ELSE c

\* Mutant: a hit leaves the list as it is.
GetInPlace(k) ==
    /\ k \in items
    /\ Touch(k)
    /\ UNCHANGED <<capacity, items, list>>

\* Get, with a hit; a miss changes nothing but a counter.
Get(k) ==
    /\ k \in items
    /\ list' = PushFront(Elem(k), RemoveKeys({k}))
    /\ Touch(k)
    /\ UNCHANGED <<capacity, items>>

\* Mutant: the victim stays in the map.
EvictFromList ==
    IF Len(list) >= capacity
    THEN [items |-> items, list |-> Front(list)]
    ELSE [items |-> items, list |-> list]

\* Mutant: the limit is noticed one entry too late.
EvictLate ==
    IF Len(list) > capacity
    THEN [items |-> items \ {Last(list).key}, list |-> Front(list)]
    ELSE [items |-> items, list |-> list]

\* A list that is full loses its last entry, before the new one is pushed.
Evict ==
    IF Len(list) >= capacity
    THEN [items |-> items \ {Last(list).key}, list |-> Front(list)]
    ELSE [items |-> items, list |-> list]

Put(k, v) ==
    LET new == [key |-> k, value |-> v]
    IN  /\ IF k \in items
           THEN /\ list' = PushFront(new, RemoveKeys({k}))
                /\ UNCHANGED items
           ELSE /\ list' = PushFront(new, Evict.list)
                /\ items' = Evict.items \cup {k}
        /\ Touch(k)
        /\ UNCHANGED capacity

\* The keys that satisfy the predicate are in keys.
InvalidateIf(keys) ==
    /\ items' = items \ keys
    /\ list' = RemoveKeys(keys \cap items)
    /\ UNCHANGED <<capacity, touched>>

Invalidate(k) == InvalidateIf({k})

Clear == items' = {} /\ list' = <<>> /\ UNCHANGED <<capacity, touched>>

Init ==
    /\ \E c \in Capacities : capacity = NewCapacity(c)
    /\ items = {}
    /\ list = <<>>
    /\ touched = <<>>

Next ==
    \/ \E k \in Keys :
          \/ Get(k)
          \/ \E v \in Values : Put(k, v)
          \/ Invalidate(k)
    \/ \E keys \in SUBSET Keys : InvalidateIf(keys)
    \/ Clear

Spec == Init /\ [][Next]_vars

-----------------------------------------------------------------------------
(* Properties *)

\* Every variable holds a value of its shape.
TypeOK ==
    /\ capacity \in Nat \ {0}
    /\ items \subseteq Keys
    /\ list \in Seq(Entry)
    /\ touched \in Seq(Keys)

(***************************************************************************)
(* Map and list never come apart: after any sequence of hits, stores,      *)
(* evictions and invalidations the map holds exactly the keys of the list, *)
(* the list has no key twice, and it is no longer than the capacity. (A    *)
(* key left in the map would be served for ever; one left in the list      *)
(* would take up room that no invalidation can free.)                      *)
(***************************************************************************)
MapMatchesList ==
    /\ items = { e.key : e \in ToSet(list) }
    /\ Cardinality(items) = Len(list)
    /\ Len(list) <= capacity

UsedBefore(j, k) ==
    \E a, b \in DOMAIN touched : a < b /\ touched[a] = k /\ touched[b] = j

(***************************************************************************)
(* The victim is the least recently used entry: a key that a Put of        *)
(* another key pushes out was stored and hit before every key that stays.  *)
(***************************************************************************)
EvictsOldest ==
    [][\A k \in Keys, v \in Values :
          Put(k, v) => \A out \in items \ items', in \in (items' \cap items) :
                          UsedBefore(out, in)]_vars

(***************************************************************************)
(* The LRU list implements the bounded cache that Catalog assumes: seen as *)
(* a set of entries, a Put replaces the entry of its key or costs one      *)
(* other entry, and only at capacity; hits and recency are invisible.      *)
(***************************************************************************)
Abstract == INSTANCE BoundedCache WITH entries <- ToSet(list)

ImplementsBoundedCache == Abstract!Spec

=============================================================================
