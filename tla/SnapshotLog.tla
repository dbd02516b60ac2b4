---------------------------- MODULE SnapshotLog ----------------------------
(***************************************************************************)
(* What IceCore promises of its tables, without locks, caches or rows that *)
(* are marked deleted: a table is a name and a log of snapshots, each with *)
(* the complete set of its files. A commit appends a snapshot made from    *)
(* the newest one, in one step, and no other operation touches a snapshot  *)
(* until the table is purged.                                              *)
(***************************************************************************)
EXTENDS Integers

CONSTANTS Names, Keys, None, MaxTables, MaxSnaps

VARIABLES
    name,    \* table -> its name, None before it is created and once purged
    live,    \* tables that have not been dropped
    spent,   \* tables that have been purged
    head,    \* table -> id of its newest snapshot, 0 if there is none
    log      \* table -> its snapshots

vars == <<name, live, spent, head, log>>

TableIds == 1 .. MaxTables
SnapIds  == 0 .. MaxSnaps

\* The files of the newest snapshot.
HeadFiles(t) == UNION { s.files : s \in { r \in log[t] : r.id = head[t] } }

Taken(n) == \E t \in TableIds : name[t] = n

Create(t, n) ==
    /\ name[t] = None /\ t \notin spent
    /\ ~Taken(n)
    /\ name' = [name EXCEPT ![t] = n]
    /\ live' = live \cup {t}
    /\ UNCHANGED <<spent, head, log>>

Rename(t, n) ==
    /\ t \in live
    /\ ~Taken(n)
    /\ name' = [name EXCEPT ![t] = n]
    /\ UNCHANGED <<live, spent, head, log>>

Drop(t) ==
    /\ t \in live
    /\ live' = live \ {t}
    /\ UNCHANGED <<name, spent, head, log>>

Purge(t) ==
    /\ t \in live
    /\ name' = [name EXCEPT ![t] = None]
    /\ live' = live \ {t}
    /\ spent' = spent \cup {t}
    /\ head' = [head EXCEPT ![t] = 0]
    /\ log' = [log EXCEPT ![t] = {}]

\* A key that is added and deleted by one commit is deleted.
Commit(t, id, add, del) ==
    LET new   == { [table |-> t, snap |-> id, key |-> k] : k \in add }
        files == { f \in HeadFiles(t) \cup new : f.key \notin del }
    IN  /\ t \in live
        /\ id > head[t]
        /\ head' = [head EXCEPT ![t] = id]
        /\ log' = [log EXCEPT ![t] =
                      @ \cup {[id |-> id, parent |-> head[t], files |-> files]}]
        /\ UNCHANGED <<name, live, spent>>

Init ==
    /\ name = [t \in TableIds |-> None]
    /\ live = {}
    /\ spent = {}
    /\ head = [t \in TableIds |-> 0]
    /\ log = [t \in TableIds |-> {}]

Next ==
    \E t \in TableIds :
        \/ \E n \in Names : Create(t, n) \/ Rename(t, n)
        \/ Drop(t)
        \/ Purge(t)
        \/ \E id \in SnapIds, add, del \in SUBSET Keys : Commit(t, id, add, del)

Spec == Init /\ [][Next]_vars

=============================================================================
