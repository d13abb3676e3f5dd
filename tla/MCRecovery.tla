----------------------------- MODULE MCRecovery -----------------------------
(* Instances of Recovery for TLC. *)
EXTENDS Recovery, TLC

CONSTANTS f1, f2

\* Two versions of one schema, and one of the next.
ThreeVersions == <<1, 1, 2>>

Sound(s, objects) ==
    [schema |-> s, objects |-> objects, records |-> {0}, imported |-> TRUE, state |-> "ok"]

\* None, one of the first schema, one whose number ran ahead of its objects, one
\* that cannot be migrated and one that is damaged.
Found ==
    {None, Sound(1, {1}), Sound(2, {1}),
     [Sound(1, {1}) EXCEPT !.state = "odd"], [Sound(1, {1}) EXCEPT !.state = "damaged"]}

\* Backups of the first and of the second schema.
Brought ==
    {[db |-> [d EXCEPT !.records = {}], files |-> [f \in Files |-> 0]] :
        d \in {Sound(1, {1}), Sound(2, {1, 2})}}

FileSymmetry == Permutations(Files)
=============================================================================
