---------------------------- MODULE BoundedCache ----------------------------
(***************************************************************************)
(* What the partition registry may rely on of its cache, and what Catalog  *)
(* assumes of it in CachePut: a set of entries, one per key and at most    *)
(* capacity of them, where storing a new key into a full cache costs one   *)
(* other entry, whichever it is, and nothing else does.                    *)
(***************************************************************************)
EXTENDS Integers, FiniteSets

CONSTANTS Keys, Values

VARIABLES entries, capacity

vars == <<entries, capacity>>

Entry == [key : Keys, value : Values]

Without(keys) == { e \in entries : e.key \notin keys }

Put(k, v) ==
    LET new == [key |-> k, value |-> v]
    IN  IF Without({k}) # entries \/ Cardinality(entries) < capacity
        THEN entries' = Without({k}) \cup {new}
        ELSE \E victim \in entries : entries' = (entries \ {victim}) \cup {new}

Invalidate(keys) == entries' = Without(keys)

Init == entries = {} /\ capacity \in Nat \ {0}

Next ==
    /\ \/ \E k \in Keys, v \in Values : Put(k, v)
       \/ \E keys \in SUBSET Keys : Invalidate(keys)
    /\ UNCHANGED capacity

Spec == Init /\ [][Next]_vars

=============================================================================
