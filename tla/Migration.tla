------------------------------ MODULE Migration ------------------------------
(***************************************************************************)
(* Bringing a database to the schema this release works with: the scripts  *)
(* of sqlite_migration.rs and postgres_migration.rs, run at every start    *)
(* from the version the database claims to have.                           *)
(*                                                                         *)
(* A script is a sequence of statements.  SQLite commits every statement   *)
(* of a batch on its own, unless a transaction is open: its effects stay   *)
(* with the connection until it is committed.  The process may die between *)
(* any two statements, and any statement may fail.                         *)
(*                                                                         *)
(* A failure is a panic or an error.  With SQLite both end only the task   *)
(* that runs the upgrade; build_sqlite_pool ignores its result and the     *)
(* relay serves the database as it is.  With PostgreSQL the relay stops.   *)
(*                                                                         *)
(* Tables, columns and indexes are names in one set.  Of the data, the     *)
(* rows of the event table, which of them are hidden and which have their  *)
(* rows in the tag table are kept.                                         *)
(***************************************************************************)
EXTENDS Integers, Sequences

CONSTANTS
    Event,       \* events that may be stored
    Address,     \* Event -> author and kind of a replaceable event, or NoAddress
    NoAddress,
    CreatedAt,   \* Event -> Nat
    RowOrder,    \* Event -> Nat: of events created at once, a query finds the lower first
    MaxFaults    \* bound on crashes and failing statements

ASSUME MigrationAssumption ==
    /\ CreatedAt \in [Event -> Nat] /\ RowOrder \in [Event -> Nat]
    /\ DOMAIN Address = Event
    /\ \A e, f \in Event :
          e # f /\ Address[e] = Address[f] /\ CreatedAt[e] = CreatedAt[f] => RowOrder[e] # RowOrder[f]
    /\ MaxFaults \in Nat

VARIABLES
    engine,      \* "sqlite" or "postgres"
    db,          \* version, schema and data as the connection sees them
    disk,        \* what of it is committed
    open,        \* a transaction is open
    phase,       \* "down", "upgrading" or "serving"
    from,        \* version whose script is under way
    next,        \* place of its next statement, 0 between scripts
    before,      \* the database as it was when first opened (history)
    cut,         \* versions at which a fault cut a script short (history)
    faults

vars == <<engine, db, disk, open, phase, from, next, before, cut, faults>>

-----------------------------------------------------------------------------
(* Statements. *)

Create(objects) == [op |-> "create", arg |-> objects]     \* IF NOT EXISTS
CreateNew(objects) == [op |-> "create_new", arg |-> objects]
Drop(objects) == [op |-> "drop", arg |-> objects]
SetVersion(n) == [op |-> "version", arg |-> n]
Data(op) == [op |-> op, arg |-> {}]

Begin == [op |-> "begin", arg |-> {}]
Commit == [op |-> "commit", arg |-> {}]

SameAddress(e, f) == Address[e] = Address[f] /\ Address[e] # NoAddress

Older(e, f) == SameAddress(e, f) /\ CreatedAt[e] < CreatedAt[f]
Tied(e, f) == SameAddress(e, f) /\ CreatedAt[e] = CreatedAt[f]

Outdated(rows) == {e \in rows : \E f \in rows : Older(e, f)}

\* ORDER BY created_at DESC: f comes before e.
Yields(e, f) == Older(e, f) \/ (Tied(e, f) /\ RowOrder[f] < RowOrder[e])

\* Mutant: without DESC the oldest event of an address is the one that stays.
HideOutdatedAscending(d) ==
    [d EXCEPT !.hidden = @ \cup {e \in d.rows : \E f \in d.rows : Yields(f, e)}]

\* LIMIT 1: every event of an address but one, which may itself be hidden.
Displaced(rows) == {e \in rows : \E f \in rows : Yields(e, f)}

HideOutdated(d) == [d EXCEPT !.hidden = @ \cup Displaced(d.rows)]

\* Mutant: without foreign keys the rows of the tag table stay.
DeleteHiddenOnly(d) == [d EXCEPT !.rows = @ \ d.hidden, !.hidden = {}]

\* The rows of the tag table go with their event: ON DELETE CASCADE.
DeleteHidden(d) ==
    [d EXCEPT !.rows = @ \ d.hidden, !.hidden = {}, !.tagged = @ \ d.hidden]

Possible(s, d) ==
    CASE s.op = "create_new" -> s.arg \cap d.has = {}
      [] s.op = "copy_references" -> {"event_ref", "pubkey_ref", "tag"} \subseteq d.has
      [] s.op = "rebuild_tags" -> "tag" \in d.has
      [] OTHER -> TRUE

Result(d, s) ==
    CASE s.op \in {"create", "create_new"} -> [d EXCEPT !.has = @ \cup s.arg]
      [] s.op = "drop" -> [d EXCEPT !.has = @ \ s.arg,
                                    !.tagged = IF "tag" \in s.arg THEN {} ELSE @]
      [] s.op = "version" -> [d EXCEPT !.version = s.arg]
      [] s.op = "show_all" -> [d EXCEPT !.hidden = {}]
      [] s.op \in {"copy_references", "rebuild_tags"} -> [d EXCEPT !.tagged = d.rows]
      [] s.op = "split_values" -> [d EXCEPT !.tagged = {}]
      [] s.op = "hide_outdated" -> HideOutdated(d)
      [] s.op = "delete_hidden" -> DeleteHidden(d)
      [] OTHER -> d

-----------------------------------------------------------------------------
(* SQLite. *)

SqliteVersion == 18

TagIndexes ==
    {"tag_val_index", "tag_composite_index", "tag_name_eid_index", "tag_covering_index"}
TagOfHex == {"tag", "tag.value", "tag.value_hex"}
TagOfText == {"tag", "tag.value", "tag.created_at", "tag.kind"}
EventTable == {"event", "event.hidden", "event.delegated_by", "event.expires_at"}

\* The tables and indexes of INIT_SQL, in the order in which it creates them.
Initial ==
    << EventTable, {"event_hash_index"}, {"author_index"}, {"kind_index"}, {"created_at_index"},
       {"delegated_by_index"}, {"event_composite_index"}, {"kind_author_index"},
       {"kind_created_at_index"}, {"author_created_at_index"}, {"author_kind_index"},
       {"event_expiration"},
       TagOfText, {"tag_val_index"}, {"tag_composite_index"}, {"tag_name_eid_index"},
       {"tag_covering_index"},
       {"user_verification"}, {"user_verification_name_index"},
       {"user_verification_event_index"},
       {"account"}, {"user_pubkey_index"}, {"invoice"}, {"invoice_pubkey_index"} >>

\* The version is set before anything exists.
INIT_SQL == << SetVersion(SqliteVersion) >> \o [i \in 1..Len(Initial) |-> Create(Initial[i])]

mig_1_to_2 == << CreateNew({"event.hidden"}), Data("show_all"), SetVersion(2) >>

\* The version is set before the references are copied, in a transaction.
mig_2_to_3 == << Create(TagOfHex), SetVersion(3), Data("copy_references") >>

mig_3_to_4 == << Create({"user_verification"}), Create({"user_verification_name_index"}),
                 Create({"user_verification_event_index"}), SetVersion(4) >>

mig_4_to_5 == << Drop({"event_ref"}), Drop({"pubkey_ref"}), SetVersion(5) >>

mig_5_to_6 == << Begin, Data("rebuild_tags"), SetVersion(6), Commit, Data("vacuum") >>

mig_6_to_7 == << CreateNew({"event.delegated_by"}), Create({"delegated_by_index"}),
                 SetVersion(7) >>

mig_7_to_8 == << Drop({"created_at_index"}), Drop({"kind_index"}),
                 Create({"event_composite_index"}), SetVersion(8) >>

mig_8_to_9 == << Create({"created_at_index"}), Create({"event_composite_index"}),
                 SetVersion(9) >>

mig_9_to_10 == << Create({"tag_composite_index"}), SetVersion(10) >>

mig_10_to_11 == << Create({"tag_name_eid_index"}), SetVersion(11) >>

mig_11_to_12 == << Begin, Data("hide_outdated"), SetVersion(12), Commit, Data("vacuum") >>

mig_12_to_13 == << Create({"kind_author_index"}), SetVersion(13) >>

mig_13_to_14 == << Create({"kind_index"}), Create({"kind_created_at_index"}), SetVersion(14) >>

\* The version is set before hidden rows are deleted.
mig_14_to_15 == << Create({"author_created_at_index"}), Create({"author_kind_index"}),
                   SetVersion(15), Data("delete_hidden") >>

\* Mutant: the statements of the transaction, each on its own.
mig_15_to_16_in_pieces ==
    << Drop(TagOfHex \cup TagIndexes), Create(TagOfText), Create(TagIndexes),
       Data("rebuild_tags"), SetVersion(16) >>

\* DROP TABLE and CREATE TABLE are plain ones here, without IF (NOT) EXISTS.  They are
\* modelled as always possible: each database of version 3 to 15 has the tag table, as only
\* this script drops it, and a transaction that does not end leaves it there.
mig_15_to_16 ==
    << Begin, Drop(TagOfHex \cup TagIndexes), Create(TagOfText), Create(TagIndexes),
       Data("rebuild_tags"), SetVersion(16), Commit >>

\* Mutant: the version is set first, as in INIT_SQL.
mig_16_to_17_version_first ==
    << SetVersion(17), CreateNew({"event.expires_at"}), Create({"event_expiration"}) >>

mig_16_to_17 == << CreateNew({"event.expires_at"}), Create({"event_expiration"}),
                   SetVersion(17) >>

\* Mutant: CREATE TABLE without IF NOT EXISTS.
mig_17_to_18_once ==
    << CreateNew({"invoice"}), Create({"invoice_pubkey_index"}), CreateNew({"account"}),
       Create({"account_pubkey_index"}), SetVersion(18) >>

mig_17_to_18 == << Create({"invoice"}), Create({"invoice_pubkey_index"}), Create({"account"}),
                   Create({"account_pubkey_index"}), SetVersion(18) >>

SqliteScripts ==
    << mig_1_to_2, mig_2_to_3, mig_3_to_4, mig_4_to_5, mig_5_to_6, mig_6_to_7, mig_7_to_8,
       mig_8_to_9, mig_9_to_10, mig_10_to_11, mig_11_to_12, mig_12_to_13, mig_13_to_14,
       mig_14_to_15, mig_15_to_16, mig_16_to_17, mig_17_to_18 >>

\* The schema of version 1, which no script creates: what the scripts alter and drop,
\* and the indexes the queries name that no script adds.
SqliteFirst ==
    {"event", "event_ref", "pubkey_ref", "event_hash_index", "author_index", "kind_index",
     "created_at_index"}

-----------------------------------------------------------------------------
(* PostgreSQL: every migration is a transaction that records its number. *)

m001 == << Begin,
           CreateNew({"event", "event.hidden", "event.delegated_by", "tag", "tag.value",
                      "user_verification"}),
           SetVersion(1), Commit >>

\* The values that are hexadecimal move to a column of their own in a second transaction.
m002 == << Begin, CreateNew({"tag.value_hex"}), Data("split_values"), SetVersion(2), Commit,
           Data("rebuild_tags") >>

m003 == << Begin, CreateNew({"unique_constraint_name"}), SetVersion(3), Commit >>

m004 == << Begin, CreateNew({"event.expires_at"}), SetVersion(4), Commit >>

m005 == << Begin, CreateNew({"account", "invoice"}), SetVersion(5), Commit >>

PostgresScripts == << m001, m002, m003, m004, m005 >>

-----------------------------------------------------------------------------
(* Starting the relay. *)

Target(e) == IF e = "sqlite" THEN SqliteVersion ELSE Len(PostgresScripts)

Script(e, version) ==
    CASE e = "postgres" -> PostgresScripts[version + 1]
      [] e = "sqlite" /\ version = 0 -> INIT_SQL
      [] e = "sqlite" /\ version > 0 -> SqliteScripts[version]

Statement == Script(engine, from)[next]

\* upgrade_db reads the version, and panics when it is too new.
Start ==
    /\ phase = "down"
    /\ phase' = IF engine = "sqlite" /\ db.version > Target(engine) THEN "serving" ELSE "upgrading"
    /\ UNCHANGED <<engine, db, disk, open, from, next, before, cut, faults>>

NextScript ==
    /\ phase = "upgrading" /\ next = 0
    /\ IF db.version < Target(engine)
       THEN from' = db.version /\ next' = 1 /\ UNCHANGED phase
       ELSE phase' = "serving" /\ UNCHANGED <<from, next>>
    /\ UNCHANGED <<engine, db, disk, open, before, cut, faults>>

\* What a statement outside a transaction does is committed at once.
Execute ==
    /\ phase = "upgrading" /\ next # 0
    /\ Possible(Statement, db)
    /\ db' = Result(db, Statement)
    /\ open' = ((open \/ Statement.op = "begin") /\ Statement.op # "commit")
    /\ disk' = IF open' THEN disk ELSE db'
    /\ IF next = Len(Script(engine, from)) THEN from' = 0 /\ next' = 0
       ELSE next' = next + 1 /\ UNCHANGED from
    /\ UNCHANGED <<engine, phase, before, cut, faults>>

\* The connection is closed, which rolls an open transaction back.
Disconnect ==
    /\ db' = disk
    /\ open' = FALSE
    /\ from' = 0
    /\ next' = 0

\* What follows a failure.
Abandon ==
    /\ phase' = IF engine = "sqlite" THEN "serving" ELSE "down"
    /\ Disconnect

\* A statement that cannot be executed on this schema.
Refused ==
    /\ phase = "upgrading" /\ next # 0
    /\ ~Possible(Statement, db)
    /\ Abandon
    /\ UNCHANGED <<engine, disk, before, cut, faults>>

\* Full disk, lost connection: the statement has no effect.
Fails ==
    /\ phase = "upgrading" /\ next # 0 /\ faults < MaxFaults
    /\ Abandon
    /\ faults' = faults + 1
    /\ cut' = cut \cup {disk.version}
    /\ UNCHANGED <<engine, disk, before>>

\* The process ends, in the midst of a script or not.
Crash ==
    /\ phase # "down" /\ faults < MaxFaults
    /\ phase' = "down"
    /\ Disconnect
    /\ faults' = faults + 1
    /\ cut' = IF next = 0 THEN cut ELSE cut \cup {disk.version}
    /\ UNCHANGED <<engine, disk, before>>

\* What write_event names; on a schema that lacks some of it, it is an error.
Written ==
    EventTable \cup {"tag", "tag.value"}
    \cup IF engine = "sqlite"
         THEN {"tag.created_at", "tag.kind", "author_index", "author_kind_index"}
         ELSE {"tag.value_hex", "unique_constraint_name"}

\* A new event that is newer than all of its address, hidden ones too, and replaces them.
Write(e) ==
    /\ phase = "serving" /\ Written \subseteq db.has
    /\ e \notin db.rows /\ \A f \in db.rows : ~(Older(e, f) \/ Tied(e, f))
    /\ LET kept == {f \in db.rows : ~Older(f, e)} IN
       db' = [db EXCEPT !.rows = kept \cup {e}, !.hidden = @ \cap kept,
                        !.tagged = (@ \cap kept) \cup {e}]
    /\ disk' = db'
    /\ UNCHANGED <<engine, open, phase, from, next, before, cut, faults>>

-----------------------------------------------------------------------------
(* The database found at the first start. *)

\* The objects that a script names in some of its statements.
Named(script, ops) ==
    UNION {script[k].arg : k \in {j \in 1..Len(script) : script[j].op \in ops}}

\* What the first n scripts leave of a schema, none of them cut short; a script that
\* drops an object and creates it again does so in this order.
SchemaAfter(first, scripts, n) ==
    LET Lasting(objects, i) == objects \ UNION {Named(scripts[j], {"drop"}) : j \in (i + 1)..n}
    IN  Lasting(first, 0)
        \cup UNION {Lasting(Named(scripts[i], {"create", "create_new"}), i) : i \in 1..n}

SchemaOf(e, version) ==
    IF e = "postgres" THEN SchemaAfter({}, PostgresScripts, version)
    ELSE SchemaAfter(SqliteFirst, SqliteScripts,
                     IF version > SqliteVersion THEN SqliteVersion - 1 ELSE version - 1)

\* A new database, or one of any release, the next one included.  Before version 12 an
\* address may have several events, created at once too; from then on all but one are
\* hidden or gone.  The tag table exists from version 3 on, and before version 6 it may
\* lack what the queries look for.
Found ==
    \/ db = [version |-> 0, has |-> {}, rows |-> {}, hidden |-> {}, tagged |-> {}]
    \/ \E v \in 1..(IF engine = "sqlite" THEN SqliteVersion + 1 ELSE Target(engine)),
          rows \in SUBSET Event :
       \E hidden \in SUBSET rows, tagged \in {{}, rows} :
          /\ engine = "sqlite" /\ v = 1 => hidden = {}
          /\ engine = "sqlite" /\ v > 11 => Displaced(rows) \subseteq hidden
          /\ engine = "sqlite" /\ v < 3 => tagged = {}
          /\ engine = "sqlite" /\ v > 5 => tagged = rows
          /\ engine = "postgres" => Displaced(rows) = {} /\ tagged = rows
          /\ db = [version |-> v, has |-> SchemaOf(engine, v), rows |-> rows,
                   hidden |-> hidden, tagged |-> tagged]

Init ==
    /\ engine \in {"sqlite", "postgres"}
    /\ Found
    /\ disk = db
    /\ open = FALSE
    /\ phase = "down"
    /\ from = 0
    /\ next = 0
    /\ before = db
    /\ cut = {}
    /\ faults = 0

Next ==
    \/ Start \/ NextScript \/ Execute \/ Refused \/ Fails \/ Crash
    \/ \E e \in Event : Write(e)

Spec == Init /\ [][Next]_vars

-----------------------------------------------------------------------------
(* Properties. *)

\* The database is well-formed: only stored events are hidden or have tags.  A script is
\* under way only while the relay upgrades, and a transaction only within a script.
TypeOK ==
    /\ engine \in {"sqlite", "postgres"}
    /\ \A d \in {db, disk} : /\ d.version \in 0..(SqliteVersion + 1)
                             /\ d.rows \subseteq Event
                             /\ d.hidden \cup d.tagged \subseteq d.rows
    /\ open \in BOOLEAN
    /\ ~open => disk = db
    /\ phase \in {"down", "upgrading", "serving"}
    /\ from \in 0..(Target(engine) - 1)
    /\ next \in 0..Len(Script(engine, from))
    /\ phase # "upgrading" => next = 0
    /\ next = 0 => from = 0 /\ ~open
    /\ before.hidden \subseteq before.rows /\ before.rows \subseteq Event
    /\ cut \subseteq 0..SqliteVersion
    /\ faults \in 0..MaxFaults

\* Everything the queries, the writer, verification and payment name.
Required ==
    Written \cup {"user_verification", "account", "invoice"}
    \cup IF engine = "sqlite"
         THEN {"event_hash_index", "kind_created_at_index", "author_created_at_index"}
         ELSE {}

\* A new SQLite database whose initialization was cut short after its first statement.
InitCut == engine = "sqlite" /\ SqliteVersion \in cut

\* However often earlier starts were cut short, and wherever, a database that claims to be
\* current has all that this release uses.  The exception is INIT_SQL, which sets the
\* version first: a database whose initialization was cut is never completed.
CurrentIsComplete ==
    phase = "serving" /\ db.version = Target(engine) => Required \subseteq db.has \/ InitCut

\* From the version that rebuilds the tag table on, a relay that serves has the tags of
\* every event it shows, as its queries look for them.  The exception is a PostgreSQL
\* database cut between m002 and rebuild_tags, which no later start calls again.
TagsSurvive ==
    phase = "serving" /\ db.version >= (IF engine = "sqlite" THEN 6 ELSE 2)
        => db.rows \ db.hidden \subseteq db.tagged \/ (engine = "postgres" /\ 2 \in cut)

\* The events the database showed when it was first opened, but for those that had a
\* newer one at their address, a hidden one included.
Current == (before.rows \ before.hidden) \ Outdated(before.rows)

\* mig_11_to_12 keeps one event of an address, hidden or not: if it is a hidden one, those
\* that are shown and were created at once with it are hidden too, and nothing is left.
Eclipsed ==
    {e \in before.rows : /\ engine = "sqlite" /\ before.version < 12
                         /\ \E f \in before.hidden : Tied(e, f)}

\* Whatever is interrupted and repeated, the address of a current event still shows that
\* event or one that is at least as new.  The exception are the eclipsed ones.
NothingShownLost ==
    \A e \in Current \ Eclipsed :
        \E f \in db.rows \ db.hidden : f = e \/ Older(e, f) \/ Tied(e, f)

\* Whatever an interrupted script left, the script can be executed again from its start;
\* not so the three SQLite scripts that begin with an ADD COLUMN of their own.
ScriptsCanBeRepeated ==
    phase = "upgrading" /\ next # 0 /\ ~Possible(Statement, db)
        => engine = "sqlite" /\ db.version \in cut \cap {1, 6, 16}

=============================================================================
