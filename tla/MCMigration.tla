----------------------------- MODULE MCMigration -----------------------------
(* Versions of one replaceable event, two of them created at once, and an event of its own. *)
EXTENDS Migration

CONSTANTS old, new, twin, note, profile

MCAddress == [e \in Event |-> IF e = note THEN NoAddress ELSE profile]
MCCreatedAt == [e \in Event |-> IF e \in {new, twin} THEN 2 ELSE 1]
MCRowOrder == [e \in Event |-> IF e = twin THEN 2 ELSE 1]

=============================================================================
