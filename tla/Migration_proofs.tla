-------------------------- MODULE Migration_proofs --------------------------
(***************************************************************************)
(* Proofs about the schema migrations, for every set of events, every     *)
(* database that is found and any number of crashes and failing statements *)
(* at any place of a script.                                               *)
(*                                                                         *)
(* The scripts are the data of the argument: WellOrdered says of a script  *)
(* what makes it safe to be cut short, and each of the 22 scripts and      *)
(* INIT_SQL is shown to have it.  From there on the proofs speak of one    *)
(* statement of one well-ordered script.                                   *)
(***************************************************************************)
EXTENDS Migration, SequenceTheorems, WellFoundedInduction, TLAPS

-----------------------------------------------------------------------------
(* What a script has done before its n-th statement. *)

Done(s, n, op) == \E j \in 1..(n - 1) : s[j].op = op

Lasts(s, n, o) ==
    \E j \in 1..(n - 1) :
        /\ s[j].op \in {"create", "create_new"} /\ o \in s[j].arg
        /\ \A k \in (j + 1)..(n - 1) : ~(s[k].op = "drop" /\ o \in s[k].arg)

InTransaction(s, n) ==
    \E j \in 1..(n - 1) :
        /\ s[j].op = "begin"
        /\ \A k \in (j + 1)..(n - 1) : s[k].op # "commit"

-----------------------------------------------------------------------------
(* What a database of some version has. *)

Due(e, v) ==
    IF e = "postgres"
    THEN (IF v >= 1 THEN {"event", "event.hidden", "event.delegated_by", "tag", "tag.value",
                          "user_verification"} ELSE {})
         \cup (IF v >= 2 THEN {"tag.value_hex"} ELSE {})
         \cup (IF v >= 3 THEN {"unique_constraint_name"} ELSE {})
         \cup (IF v >= 4 THEN {"event.expires_at"} ELSE {})
         \cup (IF v >= 5 THEN {"account", "invoice"} ELSE {})
    ELSE (IF v >= 1 THEN {"event", "event_hash_index", "author_index"} ELSE {})
         \cup (IF v \in 1..3 THEN {"event_ref", "pubkey_ref"} ELSE {})
         \cup (IF v \in 3..5 THEN {"tag"} ELSE {})
         \cup (IF v >= 2 THEN {"event.hidden"} ELSE {})
         \cup (IF v >= 4 THEN {"user_verification"} ELSE {})
         \cup (IF v >= 7 THEN {"event.delegated_by"} ELSE {})
         \cup (IF v >= 14 THEN {"kind_created_at_index"} ELSE {})
         \cup (IF v >= 15 THEN {"author_created_at_index", "author_kind_index"} ELSE {})
         \cup (IF v >= 16 THEN TagOfText ELSE {})
         \cup (IF v >= 17 THEN {"event.expires_at"} ELSE {})
         \cup (IF v >= 18 THEN {"account", "invoice"} ELSE {})

\* What the script of version v creates unless it is there.
Fresh(e, v) ==
    IF e = "postgres" THEN Due(e, v + 1) \ Due(e, v)
    ELSE (IF v = 1 THEN {"event.hidden"} ELSE {})
         \cup (IF v = 6 THEN {"event.delegated_by"} ELSE {})
         \cup (IF v = 16 THEN {"event.expires_at"} ELSE {})

\* The version from which on every event shown has its tags.
TagVersion(e) == IF e = "sqlite" THEN 6 ELSE 2

Operations ==
    {"create", "create_new", "drop", "version", "begin", "commit", "show_all",
     "copy_references", "rebuild_tags", "split_values", "hide_outdated", "delete_hidden",
     "vacuum"}

Legal(statement) ==
    /\ statement.op \in Operations
    /\ statement.op = "version" => statement.arg \in 1..SqliteVersion

\* The script s takes a database of version v to the next version.
WellOrdered(e, v, s) ==
    /\ Len(s) \in Nat \ {0}
    /\ \A n \in 1..Len(s) :
          /\ Legal(s[n])
          /\ s[n].op = "version" =>
                /\ s[n].arg = v + 1 /\ ~Done(s, n, "version")
                /\ \A o \in Due(e, v + 1) \ Due(e, v) : Lasts(s, n, o)
                /\ e = "sqlite" /\ v = 5 => Done(s, n, "rebuild_tags")
          /\ s[n].op = "create" =>
                /\ e = "sqlite"
                /\ s[n].arg \cap {"event.hidden", "event.delegated_by", "event.expires_at"} = {}
          /\ s[n].op = "drop" =>
                /\ e = "sqlite" /\ s[n].arg \cap Due(e, v) = {}
                /\ ~Done(s, n, "version")
                /\ "tag" \in s[n].arg => InTransaction(s, n) /\ ~Done(s, n, "rebuild_tags")
          /\ s[n].op = "create_new" =>
                /\ s[n].arg \subseteq Fresh(e, v)
                /\ ~Done(s, n, "version") /\ ~Done(s, n, "create_new")
                /\ e = "sqlite" => v \in {1, 6, 16}
          /\ s[n].op = "copy_references" =>
                e = "sqlite" /\ v = 2 /\ Done(s, n, "version")
          /\ s[n].op = "rebuild_tags" =>
                "tag" \in Due(e, IF Done(s, n, "version") THEN v + 1 ELSE v)
                \/ Lasts(s, n, "tag")
          /\ s[n].op = "commit" /\ Done(s, n, "drop") => Done(s, n, "rebuild_tags")
          /\ s[n].op = "split_values" => e = "postgres" /\ v = 1 /\ ~Done(s, n, "rebuild_tags")
          /\ s[n].op = "show_all" => e = "sqlite" /\ v = 1 /\ ~Done(s, n, "rebuild_tags")
          /\ e = "postgres" /\ ~InTransaction(s, n) /\ s[n].op # "begin" => Done(s, n, "version")
          /\ e = "postgres" /\ s[n].op = "commit" => Done(s, n, "version")
          /\ e = "sqlite" /\ v = 17 => ~Done(s, n, "version")
    /\ Done(s, Len(s) + 1, "version")
    /\ ~InTransaction(s, Len(s) + 1)
    /\ e = "postgres" /\ v = 1 => Done(s, Len(s) + 1, "rebuild_tags")

-----------------------------------------------------------------------------
(* The scripts. *)

\* The scripts mig_1_to_2 to mig_17_to_18.
LEMMA SqliteOrdered == \A v \in 1..17 : WellOrdered("sqlite", v, SqliteScripts[v])
<1> USE DEF Begin, Commit, Create, CreateNew, Drop, SetVersion, Data, WellOrdered, Legal,
            Operations, Done, Lasts, InTransaction, Due, Fresh, SqliteVersion, TagOfHex,
            TagOfText, TagIndexes
<1>1. WellOrdered("sqlite", 1, mig_1_to_2)
  BY DEF mig_1_to_2
<1>2. WellOrdered("sqlite", 2, mig_2_to_3)
  BY DEF mig_2_to_3
<1>3. WellOrdered("sqlite", 3, mig_3_to_4)
  BY DEF mig_3_to_4
<1>4. WellOrdered("sqlite", 4, mig_4_to_5)
  BY DEF mig_4_to_5
<1>5. WellOrdered("sqlite", 5, mig_5_to_6)
  BY DEF mig_5_to_6
<1>6. WellOrdered("sqlite", 6, mig_6_to_7)
  BY DEF mig_6_to_7
<1>7. WellOrdered("sqlite", 7, mig_7_to_8)
  BY DEF mig_7_to_8
<1>8. WellOrdered("sqlite", 8, mig_8_to_9)
  BY DEF mig_8_to_9
<1>9. WellOrdered("sqlite", 9, mig_9_to_10)
  BY DEF mig_9_to_10
<1>10. WellOrdered("sqlite", 10, mig_10_to_11)
  BY DEF mig_10_to_11
<1>11. WellOrdered("sqlite", 11, mig_11_to_12)
  BY DEF mig_11_to_12
<1>12. WellOrdered("sqlite", 12, mig_12_to_13)
  BY DEF mig_12_to_13
<1>13. WellOrdered("sqlite", 13, mig_13_to_14)
  BY DEF mig_13_to_14
<1>14. WellOrdered("sqlite", 14, mig_14_to_15)
  BY DEF mig_14_to_15
<1>15. WellOrdered("sqlite", 15, mig_15_to_16)
  BY DEF mig_15_to_16
<1>16. WellOrdered("sqlite", 16, mig_16_to_17)
  BY DEF mig_16_to_17
<1>17. WellOrdered("sqlite", 17, mig_17_to_18)
  BY DEF mig_17_to_18
<1> HIDE DEF WellOrdered
<1> QED
  BY <1>1, <1>2, <1>3, <1>4, <1>5, <1>6, <1>7, <1>8, <1>9, <1>10, <1>11,
     <1>12, <1>13, <1>14, <1>15, <1>16, <1>17 DEF SqliteScripts

\* The migrations m001 to m005.
LEMMA PostgresOrdered == \A v \in 0..4 : WellOrdered("postgres", v, PostgresScripts[v + 1])
<1> USE DEF Begin, Commit, Create, CreateNew, Drop, SetVersion, Data, WellOrdered, Legal,
            Operations, Done, Lasts, InTransaction, Due, Fresh, SqliteVersion, TagOfHex,
            TagOfText, TagIndexes
<1>1. WellOrdered("postgres", 0, m001)
  BY SMTT(30) DEF m001
<1>2. WellOrdered("postgres", 1, m002)
  BY DEF m002
<1>3. WellOrdered("postgres", 2, m003)
  BY DEF m003
<1>4. WellOrdered("postgres", 3, m004)
  BY DEF m004
<1>5. WellOrdered("postgres", 4, m005)
  BY DEF m005
<1> HIDE DEF WellOrdered
<1> QED
  BY <1>1, <1>2, <1>3, <1>4, <1>5 DEF PostgresScripts

InitOrdered(s) ==
    /\ Len(s) = 25
    /\ s[1].op = "version" /\ s[1].arg = SqliteVersion
    /\ \A n \in 2..25 : s[n].op = "create"
    /\ \A o \in Due("sqlite", SqliteVersion) : Lasts(s, 26, o)

\* INIT_SQL sets the version, then only creates.
LEMMA InitializationOrdered == InitOrdered(INIT_SQL)
<1> DEFINE creations == [i \in 1..24 |-> Create(Initial[i])]
<1>1. Len(Initial) = 24
  BY DEF Initial
<1>2. INIT_SQL = << SetVersion(SqliteVersion) >> \o creations
  BY <1>1 DEF INIT_SQL
<1> DEFINE first == << SetVersion(SqliteVersion) >>
           S == {SetVersion(SqliteVersion)} \cup {Create(Initial[i]) : i \in 1..24}
<1>3. /\ first \in Seq(S) /\ Len(first) = 1 /\ first[1] = SetVersion(SqliteVersion)
      /\ creations \in Seq(S) /\ Len(creations) = 24
  OBVIOUS
<1> HIDE DEF creations, first, S
<1>2a. /\ Len(first \o creations) = Len(first) + Len(creations)
       /\ \A n \in 1..(Len(first) + Len(creations)) :
             (first \o creations)[n] = IF n <= Len(first) THEN first[n] ELSE creations[n - Len(first)]
  BY <1>3, ConcatProperties
<1>4. Len(INIT_SQL) = 25 /\ INIT_SQL[1] = SetVersion(SqliteVersion)
  BY <1>2, <1>2a, <1>3 DEF first
<1>5. \A n \in 2..25 : INIT_SQL[n] = creations[n - 1]
  BY <1>2, <1>2a, <1>3 DEF first
<1>6. \A n \in 2..25 : INIT_SQL[n].op = "create" /\ INIT_SQL[n].arg = Initial[n - 1]
  BY <1>5 DEF creations, Create
<1>7. INIT_SQL[1].op = "version" /\ INIT_SQL[1].arg = SqliteVersion
  BY <1>4 DEF SetVersion
<1>8. \A o : (\E n \in 2..25 : o \in INIT_SQL[n].arg) => Lasts(INIT_SQL, 26, o)
  BY <1>6 DEF Lasts
<1>9. \A o \in Due("sqlite", SqliteVersion) : \E i \in 1..24 : o \in Initial[i]
  BY DEF Due, SqliteVersion, Initial, TagOfText, EventTable
<1>10. \A o \in Due("sqlite", SqliteVersion) : \E n \in 2..25 : o \in INIT_SQL[n].arg
  <2> TAKE o \in Due("sqlite", SqliteVersion)
  <2>1. PICK i \in 1..24 : o \in Initial[i]
    BY <1>9
  <2>2. i + 1 \in 2..25 /\ INIT_SQL[i + 1].arg = Initial[i]
    BY <1>6
  <2> QED
    BY <2>1, <2>2
<1> QED
  BY <1>4, <1>6, <1>7, <1>8, <1>10 DEF InitOrdered

-----------------------------------------------------------------------------
(* Statements. *)

IsDatabase(d) ==
    d = [version |-> d.version, has |-> d.has, rows |-> d.rows, hidden |-> d.hidden,
         tagged |-> d.tagged]

\* Result, case by case.
LEMMA ResultOf ==
    ASSUME NEW d, NEW s
    PROVE  /\ s.op \in {"create", "create_new"} => Result(d, s) = [d EXCEPT !.has = @ \cup s.arg]
           /\ s.op = "drop" =>
                 Result(d, s) = [d EXCEPT !.has = @ \ s.arg,
                                          !.tagged = IF "tag" \in s.arg THEN {} ELSE @]
           /\ s.op = "version" => Result(d, s) = [d EXCEPT !.version = s.arg]
           /\ s.op = "show_all" => Result(d, s) = [d EXCEPT !.hidden = {}]
           /\ s.op \in {"copy_references", "rebuild_tags"} =>
                 Result(d, s) = [d EXCEPT !.tagged = d.rows]
           /\ s.op = "split_values" => Result(d, s) = [d EXCEPT !.tagged = {}]
           /\ s.op = "hide_outdated" => Result(d, s) = HideOutdated(d)
           /\ s.op = "delete_hidden" => Result(d, s) = DeleteHidden(d)
           /\ s.op \in {"begin", "commit", "vacuum"} => Result(d, s) = d
<1>1. s.op \in {"create", "create_new"} => Result(d, s) = [d EXCEPT !.has = @ \cup s.arg]
  BY Zenon DEF Result
<1>2. s.op = "drop" =>
         Result(d, s) = [d EXCEPT !.has = @ \ s.arg,
                                  !.tagged = IF "tag" \in s.arg THEN {} ELSE @]
  BY Zenon DEF Result
<1>3. s.op = "version" => Result(d, s) = [d EXCEPT !.version = s.arg]
  BY Zenon DEF Result
<1>4. s.op = "show_all" => Result(d, s) = [d EXCEPT !.hidden = {}]
  BY Zenon DEF Result
<1>5. s.op \in {"copy_references", "rebuild_tags"} => Result(d, s) = [d EXCEPT !.tagged = d.rows]
  BY Zenon DEF Result
<1>6. s.op = "split_values" => Result(d, s) = [d EXCEPT !.tagged = {}]
  BY Zenon DEF Result
<1>7. s.op = "hide_outdated" => Result(d, s) = HideOutdated(d)
  BY Zenon DEF Result
<1>8. s.op = "delete_hidden" => Result(d, s) = DeleteHidden(d)
  BY Zenon DEF Result
<1>9. s.op \in {"begin", "commit", "vacuum"} => Result(d, s) = d
  BY Zenon DEF Result
<1> QED
  BY <1>1, <1>2, <1>3, <1>4, <1>5, <1>6, <1>7, <1>8, <1>9

\* What a statement makes of each part of a database.
HasAfter(d, s) ==
    IF s.op \in {"create", "create_new"} THEN d.has \cup s.arg
    ELSE IF s.op = "drop" THEN d.has \ s.arg ELSE d.has
HiddenAfter(d, s) ==
    IF s.op \in {"show_all", "delete_hidden"} THEN {}
    ELSE IF s.op = "hide_outdated" THEN d.hidden \cup Displaced(d.rows) ELSE d.hidden
TaggedAfter(d, s) ==
    IF s.op \in {"copy_references", "rebuild_tags"} THEN d.rows
    ELSE IF s.op = "split_values" \/ (s.op = "drop" /\ "tag" \in s.arg) THEN {}
    ELSE IF s.op = "delete_hidden" THEN d.tagged \ d.hidden ELSE d.tagged

\* A statement, part by part of the database.
LEMMA Effects ==
    ASSUME NEW d, NEW s, IsDatabase(d), s.op \in Operations
    PROVE  LET r == Result(d, s) IN
           /\ IsDatabase(r)
           /\ r.version = IF s.op = "version" THEN s.arg ELSE d.version
           /\ r.has = HasAfter(d, s)
           /\ r.rows = IF s.op = "delete_hidden" THEN d.rows \ d.hidden ELSE d.rows
           /\ r.hidden = HiddenAfter(d, s)
           /\ r.tagged = TaggedAfter(d, s)
<1> DEFINE r == Result(d, s)
<1> DEFINE Goal == /\ IsDatabase(r)
                   /\ r.version = IF s.op = "version" THEN s.arg ELSE d.version
                   /\ r.has = HasAfter(d, s)
                   /\ r.rows = IF s.op = "delete_hidden" THEN d.rows \ d.hidden ELSE d.rows
                   /\ r.hidden = HiddenAfter(d, s)
                   /\ r.tagged = TaggedAfter(d, s)
<1> SUFFICES Goal
  OBVIOUS
<1> HIDE DEF r
<1>1. CASE s.op \in {"create", "create_new"}
  <2>1. r = [d EXCEPT !.has = @ \cup s.arg]
    BY <1>1, ResultOf DEF r
  <2>2. r = [version |-> d.version, has |-> d.has \cup s.arg, rows |-> d.rows,
             hidden |-> d.hidden, tagged |-> d.tagged]
    BY <2>1 DEF IsDatabase
  <2> QED
    BY <1>1, <2>2 DEF IsDatabase, HasAfter, HiddenAfter, TaggedAfter
<1>2. CASE s.op = "drop"
  <2>1. r = [d EXCEPT !.has = @ \ s.arg, !.tagged = IF "tag" \in s.arg THEN {} ELSE @]
    BY <1>2, ResultOf DEF r
  <2>2. r = [version |-> d.version, has |-> d.has \ s.arg, rows |-> d.rows,
             hidden |-> d.hidden, tagged |-> IF "tag" \in s.arg THEN {} ELSE d.tagged]
    BY <2>1 DEF IsDatabase
  <2> QED
    BY <1>2, <2>2 DEF IsDatabase, HasAfter, HiddenAfter, TaggedAfter
<1>3. CASE s.op = "version"
  <2>1. r = [d EXCEPT !.version = s.arg]
    BY <1>3, ResultOf DEF r
  <2>2. r = [version |-> s.arg, has |-> d.has, rows |-> d.rows,
             hidden |-> d.hidden, tagged |-> d.tagged]
    BY <2>1 DEF IsDatabase
  <2> QED
    BY <1>3, <2>2 DEF IsDatabase, HasAfter, HiddenAfter, TaggedAfter
<1>4. CASE s.op = "show_all"
  <2>1. r = [d EXCEPT !.hidden = {}]
    BY <1>4, ResultOf DEF r
  <2>2. r = [version |-> d.version, has |-> d.has, rows |-> d.rows,
             hidden |-> {}, tagged |-> d.tagged]
    BY <2>1 DEF IsDatabase
  <2> QED
    BY <1>4, <2>2 DEF IsDatabase, HasAfter, HiddenAfter, TaggedAfter
<1>5. CASE s.op \in {"copy_references", "rebuild_tags"}
  <2>1. r = [d EXCEPT !.tagged = d.rows]
    BY <1>5, ResultOf DEF r
  <2>2. r = [version |-> d.version, has |-> d.has, rows |-> d.rows,
             hidden |-> d.hidden, tagged |-> d.rows]
    BY <2>1 DEF IsDatabase
  <2> QED
    BY <1>5, <2>2 DEF IsDatabase, HasAfter, HiddenAfter, TaggedAfter
<1>6. CASE s.op = "split_values"
  <2>1. r = [d EXCEPT !.tagged = {}]
    BY <1>6, ResultOf DEF r
  <2>2. r = [version |-> d.version, has |-> d.has, rows |-> d.rows,
             hidden |-> d.hidden, tagged |-> {}]
    BY <2>1 DEF IsDatabase
  <2> QED
    BY <1>6, <2>2 DEF IsDatabase, HasAfter, HiddenAfter, TaggedAfter
<1>7. CASE s.op = "hide_outdated"
  <2>1. r = [d EXCEPT !.hidden = @ \cup Displaced(d.rows)]
    BY <1>7, ResultOf DEF r, HideOutdated
  <2>2. r = [version |-> d.version, has |-> d.has, rows |-> d.rows,
             hidden |-> d.hidden \cup Displaced(d.rows), tagged |-> d.tagged]
    BY <2>1 DEF IsDatabase
  <2> QED
    BY <1>7, <2>2 DEF IsDatabase, HasAfter, HiddenAfter, TaggedAfter
<1>8. CASE s.op = "delete_hidden"
  <2>1. r = [d EXCEPT !.rows = @ \ d.hidden, !.hidden = {}, !.tagged = @ \ d.hidden]
    BY <1>8, ResultOf DEF r, DeleteHidden
  <2>2. r = [version |-> d.version, has |-> d.has, rows |-> d.rows \ d.hidden,
             hidden |-> {}, tagged |-> d.tagged \ d.hidden]
    BY <2>1 DEF IsDatabase
  <2> QED
    BY <1>8, <2>2 DEF IsDatabase, HasAfter, HiddenAfter, TaggedAfter
<1>9. CASE s.op \in {"begin", "commit", "vacuum"}
  <2>1. r = d
    BY <1>9, ResultOf DEF r
  <2>2. r = [version |-> d.version, has |-> d.has, rows |-> d.rows,
             hidden |-> d.hidden, tagged |-> d.tagged]
    BY <2>1 DEF IsDatabase
  <2> QED
    BY <1>9, <2>2 DEF IsDatabase, HasAfter, HiddenAfter, TaggedAfter
<1> QED
  BY <1>1, <1>2, <1>3, <1>4, <1>5, <1>6, <1>7, <1>8, <1>9 DEF Operations

-----------------------------------------------------------------------------
(* The script under way. *)

\* What is done after one more statement.
LEMMA DoneStep ==
    ASSUME NEW s, NEW n \in Nat \ {0}, NEW op
    PROVE  /\ ~Done(s, 1, op)
           /\ Done(s, n + 1, op) <=> Done(s, n, op) \/ s[n].op = op
<1>1. 1..((n + 1) - 1) = 1..(n - 1) \cup {n} /\ 1..(1 - 1) = {}
  OBVIOUS
<1> QED
  BY <1>1 DEF Done

\* BEGIN opens a transaction, COMMIT ends it.
LEMMA InTransactionStep ==
    ASSUME NEW s, NEW n \in Nat \ {0}
    PROVE  /\ ~InTransaction(s, 1)
           /\ InTransaction(s, n + 1) <=>
                 (InTransaction(s, n) \/ s[n].op = "begin") /\ s[n].op # "commit"
<1>1. ~InTransaction(s, 1)
  BY DEF InTransaction
<1>2. ASSUME InTransaction(s, n + 1)
      PROVE  (InTransaction(s, n) \/ s[n].op = "begin") /\ s[n].op # "commit"
  <2>1. PICK j \in 1..n : /\ s[j].op = "begin"
                          /\ \A k \in (j + 1)..n : s[k].op # "commit"
    BY <1>2 DEF InTransaction
  <2>2. CASE j = n
    BY <2>1, <2>2
  <2>3. CASE j # n
    <3>1. j \in 1..(n - 1) /\ n \in (j + 1)..n
      BY <2>3
    <3>2. \A k \in (j + 1)..(n - 1) : k \in (j + 1)..n
      BY <3>1
    <3> QED
      BY <2>1, <3>1, <3>2 DEF InTransaction
  <2> QED
    BY <2>2, <2>3
<1>3. ASSUME InTransaction(s, n) \/ s[n].op = "begin", s[n].op # "commit"
      PROVE  InTransaction(s, n + 1)
  <2>1. CASE s[n].op = "begin"
    <3>1. n \in 1..((n + 1) - 1) /\ (n + 1)..((n + 1) - 1) = {}
      OBVIOUS
    <3> QED
      BY <2>1, <3>1 DEF InTransaction
  <2>2. CASE InTransaction(s, n)
    <3>1. PICK j \in 1..(n - 1) : /\ s[j].op = "begin"
                                  /\ \A k \in (j + 1)..(n - 1) : s[k].op # "commit"
      BY <2>2 DEF InTransaction
    <3>2. j \in 1..((n + 1) - 1)
      OBVIOUS
    <3>3. \A k \in (j + 1)..((n + 1) - 1) : k = n \/ k \in (j + 1)..(n - 1)
      OBVIOUS
    <3> QED
      BY <1>3, <3>1, <3>2, <3>3 DEF InTransaction
  <2> QED
    BY <1>3, <2>1, <2>2
<1> QED
  BY <1>1, <1>2, <1>3

\* What was made lasts until it is dropped.
LEMMA LastsStep ==
    ASSUME NEW s, NEW n \in Nat \ {0}, NEW o
    PROVE  /\ ~Lasts(s, 1, o)
           /\ Lasts(s, n + 1, o) =>
                 \/ s[n].op \in {"create", "create_new"} /\ o \in s[n].arg
                 \/ Lasts(s, n, o) /\ ~(s[n].op = "drop" /\ o \in s[n].arg)
<1>1. ~Lasts(s, 1, o)
  BY DEF Lasts
<1>2. ASSUME Lasts(s, n + 1, o)
      PROVE  \/ s[n].op \in {"create", "create_new"} /\ o \in s[n].arg
             \/ Lasts(s, n, o) /\ ~(s[n].op = "drop" /\ o \in s[n].arg)
  <2>1. PICK j \in 1..n : /\ s[j].op \in {"create", "create_new"} /\ o \in s[j].arg
                          /\ \A k \in (j + 1)..n : ~(s[k].op = "drop" /\ o \in s[k].arg)
    BY <1>2 DEF Lasts
  <2>2. CASE j = n
    BY <2>1, <2>2
  <2>3. CASE j # n
    <3>1. j \in 1..(n - 1) /\ n \in (j + 1)..n
      BY <2>3
    <3>2. \A k \in (j + 1)..(n - 1) : k \in (j + 1)..n
      BY <3>1
    <3> QED
      BY <2>1, <3>1, <3>2 DEF Lasts
  <2> QED
    BY <2>2, <2>3
<1> QED
  BY <1>1, <1>2

\* The versions of this release.
LEMMA Targets == Target("sqlite") = 18 /\ Target("postgres") = 5
<1>1. Len(PostgresScripts) = 5
  BY DEF PostgresScripts
<1> QED
  BY <1>1 DEF Target, SqliteVersion

\* Whichever script is under way is one of those.
LEMMA ScriptsOrdered ==
    ASSUME NEW e \in {"sqlite", "postgres"}, NEW v \in 0..(Target(e) - 1)
    PROVE  IF e = "sqlite" /\ v = 0 THEN InitOrdered(Script(e, v))
           ELSE WellOrdered(e, v, Script(e, v))
<1>1. CASE e = "postgres"
  <2>1. Script(e, v) = PostgresScripts[v + 1]
    BY <1>1, Zenon DEF Script
  <2>2. v \in 0..4
    BY <1>1, Targets
  <2> QED
    BY <1>1, <2>1, <2>2, PostgresOrdered
<1>2. CASE e = "sqlite" /\ v = 0
  <2>1. ~(v > 0) /\ e # "postgres"
    BY <1>2
  <2>2. Script(e, v) = INIT_SQL
    BY <1>2, <2>1, Zenon DEF Script
  <2> QED
    BY <1>2, <2>2, InitializationOrdered
<1>3. CASE e = "sqlite" /\ v # 0
  <2>1. v > 0 /\ v \in 1..17
    BY <1>3, Targets
  <2>2. Script(e, v) = SqliteScripts[v]
    BY <1>3, <2>1, Zenon DEF Script
  <2> QED
    BY <1>3, <2>1, <2>2, SqliteOrdered
<1> QED
  BY <1>1, <1>2, <1>3

\* The statements of INIT_SQL after the first only create.
LEMMA InitPlain ==
    ASSUME NEW s, InitOrdered(s), NEW n \in 1..26
    PROVE  /\ ~InTransaction(s, n)
           /\ Done(s, n, "version") <=> n > 1
           /\ ~Done(s, n, "drop")
           /\ n \in 1..25 => /\ Legal(s[n])
                             /\ n = 1 => s[n].op = "version" /\ s[n].arg = SqliteVersion
                             /\ n # 1 => s[n].op = "create"
<1>1. /\ s[1].op = "version" /\ s[1].arg = SqliteVersion
      /\ \A k \in 2..25 : s[k].op = "create"
  BY DEF InitOrdered
<1>2. \A k \in 1..25 : k = 1 \/ k \in 2..25
  OBVIOUS
<1>3. ~InTransaction(s, n)
  BY <1>1, <1>2 DEF InTransaction
<1>4. ~Done(s, n, "drop")
  BY <1>1, <1>2 DEF Done
<1>5. Done(s, n, "version") <=> n > 1
  BY <1>1, <1>2 DEF Done
<1>6. n \in 1..25 => Legal(s[n])
  BY <1>1, <1>2 DEF Legal, Operations, SqliteVersion
<1> QED
  BY <1>1, <1>2, <1>3, <1>4, <1>5, <1>6

-----------------------------------------------------------------------------
(* The inductive invariant. *)

InScript == Script(engine, from)
Initializing == engine = "sqlite" /\ from = 0 /\ next # 0

\* The version that the script of version v sets.
Following(e, v) == IF e = "sqlite" /\ v = 0 THEN SqliteVersion ELSE v + 1

Typed == TypeOK /\ IsDatabase(db) /\ IsDatabase(disk)

\* Where a script is, the version tells.
Position ==
    /\ next # 0 =>
          /\ open <=> InTransaction(InScript, next)
          /\ db.version = IF Done(InScript, next, "version") THEN Following(engine, from) ELSE from
          /\ disk.version \in {from, db.version}
    /\ InitCut => next = 0 /\ db.version = SqliteVersion

\* For each of some events, itself or one at least as new is shown and will not be hidden.
AsNew(e, f) == f = e \/ Older(e, f) \/ Tied(e, f)
Kept(events, rows, hidden) ==
    \A e \in events : \E f \in rows \ hidden : f \notin Displaced(rows) /\ AsNew(e, f)
Enduring == Current \ Eclipsed
Shown == Kept(Enduring, db.rows, db.hidden) /\ Kept(Enduring, disk.rows, disk.hidden)

\* A database has what its version is due, but for one whose initialization is not over.
Whole(d) == Due(engine, d.version) \subseteq d.has \/ InitCut \/ Initializing
Complete ==
    /\ Whole(db) /\ Whole(disk)
    /\ next # 0 => \A o : Lasts(InScript, next, o) => o \in db.has

\* What a script adds only once is not there before, unless the script was begun.
NewIn(d, begun) ==
    \A v \in 0..17 : \A o \in Fresh(engine, v) \cap d.has :
        \/ d.version > v
        \/ engine = "sqlite" /\ v \in cut
        \/ begun /\ next # 0 /\ from = v /\ Done(InScript, next, "create_new")
New == NewIn(db, TRUE) /\ NewIn(disk, engine = "sqlite")

\* A SQLite database of version 0 is empty.
Empty(d) == engine = "sqlite" /\ d.version = 0 => d.has = {} /\ d.rows = {}
Blank == Empty(db) /\ Empty(disk)

\* The tags of the events shown are there, but for a PostgreSQL database that is about to
\* rebuild them, or never will, and within the transaction of mig_15_to_16.
Unbuilt == engine = "postgres" /\ (2 \in cut \/ (from = 1 /\ next # 0))
TaggedIn(d) == d.rows \ d.hidden \subseteq d.tagged
Tagged ==
    /\ disk.version >= TagVersion(engine) => TaggedIn(disk) \/ Unbuilt
    /\ db.version >= TagVersion(engine) =>
          \/ TaggedIn(db) \/ Unbuilt
          \/ open /\ Done(InScript, next, "drop") /\ ~Done(InScript, next, "rebuild_tags")
    /\ next # 0 /\ Done(InScript, next, "rebuild_tags") => TaggedIn(db)

-----------------------------------------------------------------------------
(* Types and positions. *)

\* The script under way, its place and its statement.
LEMMA UnderWay ==
    ASSUME Typed, next # 0
    PROVE  /\ from \in 0..(Target(engine) - 1)
           /\ next \in 1..Len(InScript) /\ Len(InScript) \in Nat \ {0}
           /\ Statement = InScript[next] /\ Legal(Statement)
           /\ IF engine = "sqlite" /\ from = 0 THEN InitOrdered(InScript)
              ELSE WellOrdered(engine, from, InScript)
<1>1. engine \in {"sqlite", "postgres"} /\ from \in 0..(Target(engine) - 1)
      /\ next \in 0..Len(InScript)
  BY DEF Typed, TypeOK, InScript
<1>2. IF engine = "sqlite" /\ from = 0 THEN InitOrdered(InScript)
      ELSE WellOrdered(engine, from, InScript)
  BY <1>1, ScriptsOrdered DEF InScript
<1>3. Statement = InScript[next]
  BY DEF Statement, InScript
<1> HIDE DEF InScript
<1>4. CASE engine = "sqlite" /\ from = 0
  <2>1. Len(InScript) = 25 /\ InitOrdered(InScript)
    BY <1>2, <1>4 DEF InitOrdered
  <2>2. next \in 1..25
    BY <1>1, <2>1
  <2>3. Legal(InScript[next])
    BY <2>1, <2>2, InitPlain
  <2> QED
    BY <1>1, <1>2, <1>3, <2>1, <2>2, <2>3
<1>5. CASE ~(engine = "sqlite" /\ from = 0)
  <2>1. WellOrdered(engine, from, InScript)
    BY <1>2, <1>5
  <2>2. Len(InScript) \in Nat \ {0} /\ \A n \in 1..Len(InScript) : Legal(InScript[n])
    BY <2>1 DEF WellOrdered
  <2>3. next \in 1..Len(InScript)
    BY <1>1, <2>2
  <2> QED
    BY <1>1, <1>2, <1>3, <2>2, <2>3
<1> QED
  BY <1>4, <1>5

\* The end of a script is not within a transaction.
LEMMA ScriptsClose ==
    ASSUME Typed, next # 0
    PROVE  ~InTransaction(InScript, Len(InScript) + 1)
<1>1. CASE engine = "sqlite" /\ from = 0
  <2>1. InitOrdered(InScript) /\ Len(InScript) = 25
    BY <1>1, UnderWay DEF InitOrdered
  <2> QED
    BY <2>1, InitPlain
<1>2. CASE ~(engine = "sqlite" /\ from = 0)
  BY <1>2, UnderWay DEF WellOrdered
<1> QED
  BY <1>1, <1>2

\* What the execution of a statement changes.
LEMMA Executed ==
    ASSUME Typed, Position, Execute
    PROVE  /\ next # 0 /\ phase = "upgrading" /\ Possible(Statement, db)
           /\ IsDatabase(db')
           /\ db'.version = IF Statement.op = "version" THEN Statement.arg ELSE db.version
           /\ db'.has = HasAfter(db, Statement)
           /\ db'.rows = IF Statement.op = "delete_hidden" THEN db.rows \ db.hidden ELSE db.rows
           /\ db'.hidden = HiddenAfter(db, Statement)
           /\ db'.tagged = TaggedAfter(db, Statement)
           /\ open' \in BOOLEAN /\ (open' <=> InTransaction(InScript, next + 1))
           /\ disk' = IF open' THEN disk ELSE db'
           /\ \/ next = Len(InScript) /\ next' = 0 /\ from' = 0 /\ ~open'
              \/ /\ next + 1 \in 1..Len(InScript) /\ next' = next + 1 /\ from' = from
                 /\ InScript' = InScript
           /\ UNCHANGED <<engine, phase, before, cut, faults>>
<1>1. next # 0 /\ phase = "upgrading" /\ Possible(Statement, db)
  BY DEF Execute
<1>2. db' = Result(db, Statement)
  BY DEF Execute
<1>3. Statement.op \in Operations /\ IsDatabase(db)
  BY <1>1, UnderWay DEF Legal, Typed
<1>4. /\ IsDatabase(db')
      /\ db'.version = IF Statement.op = "version" THEN Statement.arg ELSE db.version
      /\ db'.has = HasAfter(db, Statement)
      /\ db'.rows = IF Statement.op = "delete_hidden" THEN db.rows \ db.hidden ELSE db.rows
      /\ db'.hidden = HiddenAfter(db, Statement)
      /\ db'.tagged = TaggedAfter(db, Statement)
  BY <1>2, <1>3, Effects
<1>5. open' = ((open \/ Statement.op = "begin") /\ Statement.op # "commit")
  BY DEF Execute
<1>6. open' \in BOOLEAN
  BY <1>5, Zenon
<1>7. open <=> InTransaction(InScript, next)
  BY <1>1 DEF Position
<1>8. next \in Nat \ {0} /\ Statement = InScript[next] /\ next \in 1..Len(InScript)
      /\ Len(InScript) \in Nat
  BY <1>1, UnderWay
<1>9. InTransaction(InScript, next + 1) <=>
         (InTransaction(InScript, next) \/ InScript[next].op = "begin")
         /\ InScript[next].op # "commit"
  BY <1>8, InTransactionStep
<1>10. open' <=> InTransaction(InScript, next + 1)
  BY <1>5, <1>7, <1>8, <1>9, Zenon
<1>11. disk' = IF open' THEN disk ELSE db'
  BY DEF Execute
<1>12. UNCHANGED <<engine, phase, before, cut, faults>>
  BY DEF Execute
<1>13. CASE next = Len(InScript)
  <2>1. next' = 0 /\ from' = 0
    BY <1>13 DEF Execute, InScript
  <2>2. ~open'
    BY <1>1, <1>10, <1>13, ScriptsClose
  <2> QED
    BY <1>1, <1>4, <1>6, <1>10, <1>11, <1>12, <1>13, <2>1, <2>2
<1>14. CASE next # Len(InScript)
  <2>1. next' = next + 1 /\ from' = from
    BY <1>14 DEF Execute, InScript
  <2>2. InScript' = InScript
    BY <1>12, <2>1 DEF InScript
  <2>3. next + 1 \in 1..Len(InScript)
    BY <1>8, <1>14
  <2> QED
    BY <1>1, <1>4, <1>6, <1>10, <1>11, <1>12, <2>1, <2>2, <2>3
<1> QED
  BY <1>13, <1>14

\* A script takes a version upwards, and the disk is not ahead of the connection.
LEMMA VersionsUnderWay ==
    ASSUME Typed, Position, next # 0
    PROVE  /\ Following(engine, from) \in 1..SqliteVersion /\ from < Following(engine, from)
           /\ db.version \in 0..SqliteVersion /\ disk.version \in 0..SqliteVersion
           /\ from <= db.version /\ from <= disk.version /\ disk.version <= db.version
           /\ ~InitCut
<1>1. from \in 0..(Target(engine) - 1) /\ engine \in {"sqlite", "postgres"}
  BY UnderWay DEF Typed, TypeOK
<1>2. Following(engine, from) \in 1..SqliteVersion /\ from < Following(engine, from)
  BY <1>1, Targets DEF Following, SqliteVersion
<1>3. /\ db.version \in {from, Following(engine, from)}
      /\ disk.version \in {from, db.version}
      /\ ~InitCut
  BY DEF Position
<1>4. from \in 0..SqliteVersion
  BY <1>1, Targets DEF SqliteVersion
<1> QED
  BY <1>2, <1>3, <1>4

\* Between scripts nothing is left to commit.
LEMMA Between ==
    ASSUME Typed, next = 0
    PROVE  from = 0 /\ ~open /\ disk = db
BY DEF Typed, TypeOK

NoTables == [version |-> 0, has |-> {}, rows |-> {}, hidden |-> {}, tagged |-> {}]

\* A database that is found is new, or has the schema of its version.
LEMMA FoundIs ==
    ASSUME engine \in {"sqlite", "postgres"}, Found, db # NoTables
    PROVE  /\ IsDatabase(db) /\ db.has = SchemaOf(engine, db.version)
           /\ db.version \in 1..19 /\ (engine = "postgres" => db.version <= 5)
           /\ db.rows \subseteq Event /\ db.hidden \subseteq db.rows /\ db.tagged \subseteq db.rows
           /\ engine = "postgres" \/ db.version > 5 => db.tagged = db.rows
           /\ engine = "postgres" \/ db.version > 11 => Displaced(db.rows) \subseteq db.hidden
<1> DEFINE last == IF engine = "sqlite" THEN SqliteVersion + 1 ELSE Target(engine)
<1>1. last = IF engine = "sqlite" THEN 19 ELSE 5
  BY Targets DEF SqliteVersion
<1>2. PICK v \in 1..last, rows \in SUBSET Event :
         \E hidden \in SUBSET rows, tagged \in {{}, rows} :
         /\ engine = "sqlite" /\ v > 5 => tagged = rows
         /\ engine = "postgres" => tagged = rows
         /\ engine = "postgres" \/ v > 11 => Displaced(rows) \subseteq hidden
         /\ db = [version |-> v, has |-> SchemaOf(engine, v), rows |-> rows,
                  hidden |-> hidden, tagged |-> tagged]
  BY Zenon DEF Found, NoTables
<1> HIDE DEF last
<1>4. PICK hidden \in SUBSET rows, tagged \in {{}, rows} :
         /\ engine = "sqlite" /\ v > 5 => tagged = rows
         /\ engine = "postgres" => tagged = rows
         /\ engine = "postgres" \/ v > 11 => Displaced(rows) \subseteq hidden
         /\ db = [version |-> v, has |-> SchemaOf(engine, v), rows |-> rows,
                  hidden |-> hidden, tagged |-> tagged]
  BY <1>2
<1>3. db.version = v /\ db.has = SchemaOf(engine, v) /\ db.rows = rows /\ db.hidden = hidden
      /\ db.tagged = tagged /\ IsDatabase(db)
  BY <1>4 DEF IsDatabase
<1> QED
  BY <1>1, <1>3, <1>4

\* From version 12 on, mig_11_to_12 has hidden all but one event of an address.
LEMMA FoundLeaves ==
    ASSUME Init, ~(engine = "sqlite" /\ db.version < 12)
    PROVE  Displaced(db.rows) \subseteq db.hidden
<1>1. CASE db = NoTables
  BY <1>1 DEF NoTables, Displaced
<1>2. CASE db # NoTables
  <2>1. engine = "postgres" \/ db.version > 11
    BY <1>2, FoundIs DEF Init
  <2> QED
    BY <1>2, <2>1, FoundIs DEF Init
<1> QED
  BY <1>1, <1>2

\* The first start.
LEMMA TypedInit ==
    ASSUME Init
    PROVE  Typed /\ Position
<1>1. engine \in {"sqlite", "postgres"} /\ Found /\ disk = db
      /\ open = FALSE /\ phase = "down" /\ from = 0 /\ next = 0
      /\ before = db
      /\ cut = {} /\ faults = 0
  BY DEF Init
<1>2. IsDatabase(db) /\ db.version \in 0..(SqliteVersion + 1) /\ db.rows \subseteq Event
      /\ db.hidden \cup db.tagged \subseteq db.rows
  <2>1. CASE db = NoTables
    BY <2>1 DEF NoTables, IsDatabase, SqliteVersion
  <2>2. CASE db # NoTables
    BY <1>1, <2>2, FoundIs, Targets DEF SqliteVersion
  <2> QED
    BY <2>1, <2>2
<1>3. from \in 0..(Target(engine) - 1) /\ next \in 0..Len(Script(engine, from))
  <2>1. from \in 0..(Target(engine) - 1)
    BY <1>1, Targets
  <2>2. IF engine = "sqlite" /\ from = 0 THEN InitOrdered(Script(engine, from))
        ELSE WellOrdered(engine, from, Script(engine, from))
    BY <1>1, <2>1, ScriptsOrdered
  <2>3. Len(Script(engine, from)) \in Nat
    <3>1. CASE engine = "sqlite"
      BY <1>1, <2>2, <3>1 DEF InitOrdered
    <3>2. CASE engine # "sqlite"
      BY <2>2, <3>2 DEF WellOrdered
    <3> QED
      BY <3>1, <3>2
  <2> QED
    BY <1>1, <2>1, <2>3
<1>4. before.hidden \subseteq before.rows /\ before.rows \subseteq Event
  BY <1>1, <1>2
<1>5. faults \in 0..MaxFaults
  BY <1>1, MigrationAssumption
<1>6. Typed
  BY <1>1, <1>2, <1>3, <1>4, <1>5 DEF Typed, TypeOK
<1>7. Position
  BY <1>1 DEF Position, InitCut
<1> QED
  BY <1>6, <1>7

\* What a write changes: the event takes the place of those it replaces.
LEMMA WriteIs ==
    ASSUME Typed, NEW e \in Event, Write(e)
    PROVE  /\ phase = "serving" /\ next = 0 /\ from = 0 /\ ~open /\ disk = db
           /\ Written \subseteq db.has /\ e \notin db.rows /\ \A f \in db.rows : ~(Older(e, f) \/ Tied(e, f))
           /\ IsDatabase(db') /\ disk' = db'
           /\ db'.version = db.version /\ db'.has = db.has
           /\ db'.rows = {f \in db.rows : ~Older(f, e)} \cup {e}
           /\ db'.hidden = db.hidden \cap {f \in db.rows : ~Older(f, e)}
           /\ db'.tagged = (db.tagged \cap {f \in db.rows : ~Older(f, e)}) \cup {e}
           /\ UNCHANGED <<engine, open, phase, from, next, before, cut, faults>>
<1> DEFINE kept == {f \in db.rows : ~Older(f, e)}
<1>1. phase = "serving" /\ Written \subseteq db.has /\ e \notin db.rows
      /\ \A f \in db.rows : ~(Older(e, f) \/ Tied(e, f))
  BY DEF Write
<1>2. next = 0 /\ from = 0 /\ ~open /\ disk = db
  BY <1>1, Between DEF Typed, TypeOK
<1>3. db' = [db EXCEPT !.rows = kept \cup {e}, !.hidden = @ \cap kept,
                       !.tagged = (@ \cap kept) \cup {e}]
  BY Zenon DEF Write
<1>4. disk' = db' /\ UNCHANGED <<engine, open, phase, from, next, before, cut, faults>>
  BY DEF Write
<1> HIDE DEF kept
<1>5. db' = [version |-> db.version, has |-> db.has, rows |-> kept \cup {e},
             hidden |-> db.hidden \cap kept, tagged |-> (db.tagged \cap kept) \cup {e}]
  BY <1>3 DEF Typed, IsDatabase
<1>6. IsDatabase(db') /\ db'.version = db.version /\ db'.has = db.has
      /\ db'.rows = kept \cup {e} /\ db'.hidden = db.hidden \cap kept
      /\ db'.tagged = (db.tagged \cap kept) \cup {e}
  BY <1>5 DEF IsDatabase
<1> QED
  BY <1>1, <1>2, <1>4, <1>6 DEF kept

\* What a fault or a refused statement changes: the connection is back at what is committed.
LEMMA Disconnected ==
    ASSUME Refused \/ Fails \/ Crash
    PROVE  /\ db' = disk /\ disk' = disk /\ open' = FALSE /\ from' = 0 /\ next' = 0
           /\ UNCHANGED <<engine, before>> /\ phase' \in {"down", "serving"}
           /\ Refused => phase = "upgrading" /\ next # 0 /\ ~Possible(Statement, db)
                         /\ UNCHANGED <<cut, faults>>
           /\ ~Refused => faults < MaxFaults /\ faults' = faults + 1
                          /\ cut' = IF next = 0 THEN cut ELSE cut \cup {disk.version}
<1>1. CASE Refused
  BY <1>1 DEF Refused, Abandon, Disconnect
<1>2. CASE Fails
  <2>1. /\ db' = disk /\ disk' = disk /\ open' = FALSE /\ from' = 0 /\ next' = 0
        /\ UNCHANGED <<engine, before>> /\ phase' \in {"down", "serving"}
        /\ faults < MaxFaults /\ faults' = faults + 1 /\ next # 0
        /\ cut' = cut \cup {disk.version}
    BY <1>2 DEF Fails, Abandon, Disconnect
  <2>2. Refused => UNCHANGED <<cut, faults>> /\ phase = "upgrading" /\ ~Possible(Statement, db)
    BY DEF Refused
  <2> QED
    BY <2>1, <2>2
<1>3. CASE Crash
  <2>1. /\ db' = disk /\ disk' = disk /\ open' = FALSE /\ from' = 0 /\ next' = 0
        /\ UNCHANGED <<engine, before>> /\ phase' \in {"down", "serving"}
        /\ faults < MaxFaults /\ faults' = faults + 1
        /\ cut' = IF next = 0 THEN cut ELSE cut \cup {disk.version}
    BY <1>3 DEF Crash, Disconnect
  <2>2. Refused => UNCHANGED <<cut, faults>> /\ phase = "upgrading" /\ next # 0
                   /\ ~Possible(Statement, db)
    BY DEF Refused
  <2> QED
    BY <2>1, <2>2
<1> QED
  BY <1>1, <1>2, <1>3

\* A database as TypeOK describes it.
WellFormed(d) ==
    /\ IsDatabase(d) /\ d.version \in 0..(SqliteVersion + 1)
    /\ d.rows \subseteq Event /\ d.hidden \cup d.tagged \subseteq d.rows

\* No script is empty.
LEMMA ScriptLengths ==
    ASSUME engine \in {"sqlite", "postgres"}, NEW v \in 0..(Target(engine) - 1)
    PROVE  Len(Script(engine, v)) \in Nat \ {0}
<1>1. CASE engine = "sqlite" /\ v = 0
  <2>1. InitOrdered(Script(engine, v))
    BY <1>1, ScriptsOrdered
  <2> QED
    BY <2>1 DEF InitOrdered
<1>2. CASE ~(engine = "sqlite" /\ v = 0)
  <2>1. WellOrdered(engine, v, Script(engine, v))
    BY <1>2, ScriptsOrdered
  <2> QED
    BY <2>1 DEF WellOrdered
<1> QED
  BY <1>1, <1>2

\* A statement keeps the database well-formed.
LEMMA TypedExecute ==
    ASSUME Typed, Position, Execute
    PROVE  Typed'
<1> USE Executed
<1>1. WellFormed(db) /\ WellFormed(disk)
  BY DEF Typed, TypeOK, WellFormed
<1>2. WellFormed(db')
  <2>1. Legal(Statement) /\ Displaced(db.rows) \subseteq db.rows
    BY UnderWay DEF Displaced
  <2> HIDE DEF Statement
  <2>2. db'.version \in 0..(SqliteVersion + 1)
    BY <1>1, <2>1 DEF WellFormed, Legal, SqliteVersion
  <2>3. db'.rows \subseteq Event /\ db'.hidden \subseteq db'.rows /\ db'.tagged \subseteq db'.rows
    BY <1>1, <2>1 DEF WellFormed, HiddenAfter, TaggedAfter
  <2> QED
    BY <2>2, <2>3 DEF WellFormed
<1>3. WellFormed(disk')
  BY <1>1, <1>2
<1>4. engine \in {"sqlite", "postgres"} /\ engine' = engine /\ phase' = "upgrading"
      /\ before' = before /\ cut' \subseteq 0..SqliteVersion /\ faults' \in 0..MaxFaults
  BY DEF Typed, TypeOK
<1>5. open' \in BOOLEAN /\ (~open' => disk' = db')
  OBVIOUS
<1>6. from' \in 0..(Target(engine) - 1) /\ next' \in 0..Len(Script(engine, from'))
      /\ (next' = 0 => from' = 0 /\ ~open')
  <2>1. CASE next = Len(InScript)
    <3>1. next' = 0 /\ from' = 0 /\ ~open'
      BY <2>1, UnderWay
    <3>2. 0 \in 0..(Target(engine) - 1)
      BY <1>4, Targets
    <3> QED
      BY <1>4, <3>1, <3>2, ScriptLengths
  <2>2. CASE next # Len(InScript)
    <3>1. next' = next + 1 /\ next + 1 \in 1..Len(InScript) /\ from' = from
          /\ Len(InScript) \in Nat
      BY <2>2, UnderWay
    <3> QED
      BY <3>1, UnderWay DEF InScript
  <2> QED
    BY <2>1, <2>2
<1> QED
  BY <1>2, <1>3, <1>4, <1>5, <1>6 DEF Typed, TypeOK, WellFormed

\* The statements that set the version, by the script they are in.
LEMMA VersionStatements ==
    ASSUME Typed, Position, next # 0, Statement.op = "version"
    PROVE  Statement.arg = Following(engine, from) /\ ~Done(InScript, next, "version")
<1>1. CASE engine = "sqlite" /\ from = 0
  <2>1. InitOrdered(InScript) /\ next \in 1..25 /\ Statement = InScript[next]
    BY <1>1, UnderWay DEF InitOrdered
  <2>2. next = 1 /\ InScript[next].arg = SqliteVersion
    BY <2>1, InitPlain
  <2>3. ~Done(InScript, next, "version")
    BY <2>1, <2>2, InitPlain
  <2> QED
    BY <1>1, <2>1, <2>2, <2>3 DEF Following
<1>2. CASE ~(engine = "sqlite" /\ from = 0)
  BY <1>2, UnderWay DEF WellOrdered, Following
<1> QED
  BY <1>1, <1>2

\* A statement keeps the version in step with the place in the script.
LEMMA PositionExecute ==
    ASSUME Typed, Position, Execute
    PROVE  Position'
<1> USE Executed
<1>1. ~InitCut' /\ next # 0 /\ engine' = engine /\ next \in Nat \ {0}
      /\ Statement = InScript[next]
  BY VersionsUnderWay, UnderWay DEF InitCut
<1> SUFFICES ASSUME next' # 0
             PROVE  /\ open' <=> InTransaction(InScript, next + 1)
                    /\ db'.version = IF Done(InScript, next + 1, "version")
                                     THEN Following(engine, from) ELSE from
                    /\ disk'.version \in {from, db'.version}
  <2>1. next' # 0 => next' = next + 1 /\ from' = from /\ InScript' = InScript
    OBVIOUS
  <2> QED
    BY <1>1, <2>1 DEF Position
<1>2. Done(InScript, next + 1, "version") <=>
         Done(InScript, next, "version") \/ Statement.op = "version"
  BY <1>1, DoneStep
<1>3. /\ db.version = IF Done(InScript, next, "version") THEN Following(engine, from) ELSE from
      /\ disk.version \in {from, db.version}
  BY <1>1 DEF Position
<1>4. Statement.op = "version" =>
         Statement.arg = Following(engine, from) /\ ~Done(InScript, next, "version")
  BY <1>1, VersionStatements
<1>5. db'.version = IF Statement.op = "version" THEN Statement.arg ELSE db.version
  OBVIOUS
<1>6. db'.version = IF Done(InScript, next + 1, "version") THEN Following(engine, from) ELSE from
  BY <1>2, <1>3, <1>4, <1>5
<1>7. disk'.version \in {from, db'.version}
  <2>1. CASE open'
    <3>1. disk' = disk
      BY <2>1
    <3>2. db'.version = db.version \/ db.version = from
      BY <1>3, <1>4, <1>5
    <3> QED
      BY <1>3, <3>1, <3>2
  <2>2. CASE ~open'
    BY <2>2
  <2> QED
    BY <2>1, <2>2
<1> QED
  BY <1>6, <1>7

\* So does every other step.
LEMMA TypedStep ==
    ASSUME Typed, Position, [Next]_vars
    PROVE  Typed' /\ Position'
<1>1. CASE Start
  <2>1. /\ phase = "down" /\ phase' \in {"serving", "upgrading"}
        /\ UNCHANGED <<engine, db, disk, open, from, next, before, cut, faults>>
    BY <1>1 DEF Start
  <2>2. next = 0
    BY <2>1 DEF Typed, TypeOK
  <2>3. Typed'
    BY <2>1, <2>2 DEF Typed, TypeOK, IsDatabase
  <2>4. Position'
    BY <2>1, <2>2 DEF Position, InitCut
  <2> QED
    BY <2>3, <2>4
<1>2. CASE NextScript
  <2>1. /\ phase = "upgrading" /\ next = 0
        /\ UNCHANGED <<engine, db, disk, open, before, cut, faults>>
    BY <1>2 DEF NextScript
  <2>2. from = 0 /\ ~open /\ disk = db
    BY <2>1, Between
  <2>3. CASE db.version < Target(engine)
    <3>1. from' = db.version /\ next' = 1 /\ phase' = phase
      BY <1>2, <2>3 DEF NextScript
    <3>2. db.version \in 0..(Target(engine) - 1) /\ engine \in {"sqlite", "postgres"}
      <4>1. engine \in {"sqlite", "postgres"} /\ db.version \in 0..19
        BY DEF Typed, TypeOK, SqliteVersion
      <4>2. Target(engine) \in {5, 18}
        BY <4>1, Targets
      <4> QED
        BY <2>3, <4>1, <4>2
    <3>3. next' \in 0..Len(Script(engine, from'))
      BY <3>1, <3>2, ScriptLengths
    <3>4. Typed'
      BY <2>1, <2>2, <3>1, <3>2, <3>3 DEF Typed, TypeOK, IsDatabase
    <3>5. ~InitCut
      BY <2>3, Targets DEF Position, InitCut, SqliteVersion
    <3>6. \A s : ~InTransaction(s, 1) /\ ~Done(s, 1, "version")
      BY DEF InTransaction, Done
    <3>7. Position'
      BY <2>1, <2>2, <3>1, <3>5, <3>6 DEF Position, InitCut
    <3> QED
      BY <3>4, <3>7
  <2>4. CASE ~(db.version < Target(engine))
    <3>1. phase' = "serving" /\ UNCHANGED <<from, next>>
      BY <1>2, <2>4 DEF NextScript
    <3>2. Typed'
      BY <2>1, <3>1 DEF Typed, TypeOK, IsDatabase
    <3>3. Position'
      BY <2>1, <3>1 DEF Position, InitCut
    <3> QED
      BY <3>2, <3>3
  <2> QED
    BY <2>3, <2>4
<1>3. CASE Execute
  BY <1>3, TypedExecute, PositionExecute
<1>4. CASE Refused \/ Fails \/ Crash
  <2>1. engine \in {"sqlite", "postgres"} /\ 0 \in 0..(Target(engine) - 1)
    BY Targets DEF Typed, TypeOK
  <2>2. 0 \in 0..Len(Script(engine, 0))
    BY <2>1, ScriptLengths
  <2>3. next # 0 => disk.version \in 0..SqliteVersion
    BY VersionsUnderWay
  <2>4. cut' \subseteq 0..SqliteVersion /\ faults' \in 0..MaxFaults
    <3>1. cut \subseteq 0..SqliteVersion /\ faults \in 0..MaxFaults /\ MaxFaults \in Nat
      BY MigrationAssumption DEF Typed, TypeOK
    <3>2. CASE Refused
      BY <1>4, <3>1, <3>2, Disconnected
    <3>3. CASE ~Refused
      <4>1. faults < MaxFaults /\ faults' = faults + 1
            /\ cut' = IF next = 0 THEN cut ELSE cut \cup {disk.version}
        BY <1>4, <3>3, Disconnected
      <4>2. cut' \subseteq 0..SqliteVersion
        BY <2>3, <3>1, <4>1
      <4>3. faults' \in 0..MaxFaults
        BY <3>1, <4>1
      <4> QED
        BY <4>2, <4>3
    <3> QED
      BY <3>2, <3>3
  <2>5. Typed'
    <3>1. /\ db' = disk /\ disk' = disk /\ open' = FALSE /\ from' = 0 /\ next' = 0
          /\ UNCHANGED <<engine, before>> /\ phase' \in {"down", "serving"}
      BY <1>4, Disconnected
    <3> QED
      BY <2>1, <2>2, <2>4, <3>1 DEF Typed, TypeOK, IsDatabase
  <2>6. Position'
    <3>1. db' = disk /\ engine' = engine /\ next' = 0
      BY <1>4, Disconnected
    <3>2. ASSUME engine = "sqlite", SqliteVersion \in cut'
          PROVE  disk.version = SqliteVersion
      <4>1. CASE SqliteVersion \in cut
        BY <3>2, <4>1, Between DEF Position, InitCut
      <4>2. CASE SqliteVersion \notin cut
        BY <1>4, <3>2, <4>2, Disconnected
      <4> QED
        BY <4>1, <4>2
    <3> QED
      BY <3>1, <3>2 DEF Position, InitCut
  <2> QED
    BY <2>5, <2>6
<1>5. ASSUME NEW e \in Event, Write(e) PROVE Typed' /\ Position'
  <2> USE <1>5, WriteIs
  <2>1. WellFormed(db)
    BY DEF Typed, TypeOK, WellFormed
  <2>2. WellFormed(db')
    BY <2>1 DEF WellFormed
  <2>3. Typed'
    BY <2>2 DEF Typed, TypeOK, WellFormed
  <2>4. Position'
    BY DEF Position, InitCut
  <2> QED
    BY <2>3, <2>4
<1>6. CASE UNCHANGED vars
  <2>1. UNCHANGED <<engine, db, disk, open, phase, from, next, before, cut, faults>>
    BY <1>6 DEF vars
  <2>2. Typed'
    BY <2>1 DEF Typed, TypeOK, IsDatabase
  <2>3. Position'
    BY <2>1 DEF Position, InitCut, InScript
  <2> QED
    BY <2>2, <2>3
<1> QED
  BY <1>1, <1>2, <1>3, <1>4, <1>5, <1>6 DEF Next

-----------------------------------------------------------------------------
(* Events shown are not lost. *)

\* What is kept stays so when less is hidden.
LEMMA KeptLess ==
    ASSUME NEW events, NEW rows, NEW hidden, NEW less \in SUBSET hidden,
           Kept(events, rows, hidden)
    PROVE  Kept(events, rows, less)
BY DEF Kept

\* Hiding what another event displaces, or deleting what is hidden, leaves the others.
LEMMA KeptHidden ==
    ASSUME NEW events, NEW rows, NEW hidden, Kept(events, rows, hidden)
    PROVE  Kept(events, rows, hidden \cup Displaced(rows)) /\ Kept(events, rows \ hidden, {})
<1>1. Kept(events, rows, hidden \cup Displaced(rows))
  BY DEF Kept
<1>2. Displaced(rows \ hidden) \subseteq Displaced(rows)
  BY DEF Displaced
<1>3. Kept(events, rows \ hidden, {})
  BY <1>2 DEF Kept
<1> QED
  BY <1>1, <1>3

\* Events of one address are in the order of their creation.
LEMMA AddressOrder ==
    ASSUME NEW e \in Event, NEW f \in Event, NEW g \in Event
    PROVE  /\ ~Yields(e, e) /\ ~(Older(e, f) /\ Older(f, e))
           /\ AsNew(e, f) /\ Older(f, g) => Older(e, g)
           /\ AsNew(e, f) /\ AsNew(f, g) => AsNew(e, g)
           /\ Tied(e, f) => Tied(f, e) /\ ~Older(e, f)
<1>1. {CreatedAt[e], CreatedAt[f], CreatedAt[g], RowOrder[e]} \subseteq Nat
  BY MigrationAssumption
<1> QED
  BY <1>1 DEF Yields, Older, Tied, AsNew, SameAddress

\* An event written takes the place of the ones it replaces, as their successor.
LEMMA KeptWritten ==
    ASSUME NEW events \in SUBSET Event, NEW rows \in SUBSET Event, NEW hidden \in SUBSET rows,
           NEW e \in Event, Kept(events, rows, hidden), e \notin rows,
           \A f \in rows : ~(Older(e, f) \/ Tied(e, f))
    PROVE  LET kept == {f \in rows : ~Older(f, e)} IN
           Kept(events, kept \cup {e}, hidden \cap kept)
<1> DEFINE kept == {f \in rows : ~Older(f, e)}
<1> SUFFICES ASSUME NEW x \in events
             PROVE  \E f \in (kept \cup {e}) \ (hidden \cap kept) :
                        f \notin Displaced(kept \cup {e}) /\ AsNew(x, f)
  BY DEF Kept
<1>1. PICK f \in rows \ hidden : f \notin Displaced(rows) /\ AsNew(x, f)
  BY DEF Kept
<1>2. CASE ~Older(f, e)
  <2>1. f \in kept /\ f \notin hidden
    BY <1>1, <1>2
  <2>2. ~Yields(f, e)
    BY <1>2, AddressOrder DEF Yields
  <2>3. f \notin Displaced(kept \cup {e})
    BY <1>1, <2>2 DEF Displaced
  <2> QED
    BY <1>1, <2>1, <2>3
<1>3. CASE Older(f, e)
  <2>1. e \notin hidden
    OBVIOUS
  <2>2. e \notin Displaced(kept \cup {e})
    BY AddressOrder DEF Displaced, Yields
  <2>3. AsNew(x, e)
    BY <1>1, <1>3, AddressOrder DEF AsNew
  <2> QED
    BY <2>1, <2>2, <2>3
<1> QED
  BY <1>2, <1>3

\* Of some numbers one is the least.
LEMMA Least ==
    ASSUME NEW T \in SUBSET Nat, T # {}
    PROVE  \E m \in T : \A k \in T : m <= k
<1> DEFINE R == OpToRel(<, Nat)
<1>1. IsWellFoundedOn(R, Nat)
  BY NatLessThanWellFounded
<1>2. \A i, j \in Nat : i < j => <<i, j>> \in R
  BY DEF OpToRel
<1> HIDE DEF R
<1>3. PICK m \in T : \A k \in T : ~(<<k, m>> \in R)
  BY <1>1, WFMin
<1>4. ASSUME NEW k \in T PROVE m <= k
  <2>1. k \in Nat /\ m \in Nat /\ ~(k < m)
    BY <1>2, <1>3
  <2> QED
    BY <2>1
<1> QED
  BY <1>4

\* At the first start, the event that mig_11_to_12 would keep for a current one is shown.
LEMMA ShownInit == Init => Shown
<1> SUFFICES ASSUME Init, NEW x \in Enduring
             PROVE  \E f \in db.rows \ db.hidden : f \notin Displaced(db.rows) /\ AsNew(x, f)
  BY DEF Init, Shown, Kept
<1>1. /\ x \in db.rows \ db.hidden /\ \A f \in db.rows : ~Older(x, f)
      /\ engine = "sqlite" /\ db.version < 12 => \A f \in db.hidden : ~Tied(x, f)
      /\ db.hidden \subseteq db.rows /\ db.rows \subseteq Event
  <2>1. before = db /\ db.hidden \subseteq db.rows /\ db.rows \subseteq Event
    BY TypedInit DEF Init, Typed, TypeOK
  <2> QED
    BY <2>1 DEF Enduring, Current, Eclipsed, Outdated
<1>2. CASE engine = "sqlite" /\ db.version < 12
  <2> DEFINE Peers == {f \in db.rows : f = x \/ Tied(x, f)}
  <2> DEFINE Orders == {RowOrder[f] : f \in Peers}
  <2>1. Peers \subseteq Event /\ x \in Peers
    BY <1>1
  <2>2. Orders \in SUBSET Nat /\ Orders # {}
    BY <2>1, MigrationAssumption
  <2>3. PICK f \in Peers : \A g \in Peers : RowOrder[f] <= RowOrder[g]
    <3>1. PICK m \in Orders : \A k \in Orders : m <= k
      BY <2>2, Least
    <3> QED
      BY <3>1
  <2>4. f \in db.rows \ db.hidden /\ AsNew(x, f)
    BY <1>1, <1>2, <2>3 DEF AsNew
  <2>5. ASSUME NEW g \in db.rows PROVE ~Yields(f, g)
    <3>1. x \in Event /\ f \in Event /\ g \in Event
      BY <1>1, <2>1, <2>3
    <3>2. ~Older(f, g)
      BY <1>1, <2>4, <3>1, AddressOrder
    <3>3. CASE Tied(f, g)
      <4>1. g \in Peers
        BY <2>3, <3>3 DEF Tied, SameAddress
      <4>2. RowOrder[f] <= RowOrder[g] /\ RowOrder[f] \in Nat /\ RowOrder[g] \in Nat
        BY <2>3, <3>1, <4>1, MigrationAssumption
      <4> QED
        BY <3>2, <4>2 DEF Yields
    <3> QED
      BY <3>2, <3>3 DEF Yields
  <2> QED
    BY <2>4, <2>5 DEF Displaced
<1>3. CASE ~(engine = "sqlite" /\ db.version < 12)
  <2>1. Displaced(db.rows) \subseteq db.hidden
    BY <1>3, FoundLeaves
  <2> QED
    BY <1>1, <2>1 DEF AsNew
<1> QED
  BY <1>2, <1>3

LEMMA EnduringStays == ASSUME UNCHANGED <<engine, before>> PROVE Enduring' = Enduring
<1>1. Current' = Current
  BY DEF Current, Outdated, Older, SameAddress
<1>2. Eclipsed' = Eclipsed
  BY DEF Eclipsed, Tied, SameAddress
<1> QED
  BY <1>1, <1>2 DEF Enduring

\* No step hides or deletes the newest event of an address.
LEMMA ShownStep ==
    ASSUME Typed, Position, Shown, [Next]_vars
    PROVE  Shown'
<1>1. CASE Start \/ NextScript \/ UNCHANGED vars
  <2>1. UNCHANGED <<db, disk>> /\ Enduring' = Enduring
    BY <1>1, EnduringStays DEF Start, NextScript, vars
  <2> QED
    BY <2>1 DEF Shown, Kept, Displaced, Yields, AsNew, Older, Tied, SameAddress
<1>2. CASE Execute
  <2> USE <1>2, Executed
  <2> HIDE DEF Statement
  <2>1. Enduring' = Enduring /\ disk' \in {disk, db'}
    BY EnduringStays
  <2>2. Kept(Enduring, db'.rows, db'.hidden)
    <3>1. CASE Statement.op = "delete_hidden"
      <4>1. db'.rows = db.rows \ db.hidden /\ db'.hidden = {}
        BY <3>1 DEF HiddenAfter
      <4>2. Kept(Enduring, db.rows, db.hidden)
        BY DEF Shown
      <4>3. Kept(Enduring, db.rows \ db.hidden, {})
        BY <4>2, KeptHidden
      <4> QED
        BY <4>1, <4>3
    <3>2. CASE Statement.op = "hide_outdated"
      <4>1. db'.rows = db.rows /\ db'.hidden = db.hidden \cup Displaced(db.rows)
        BY <3>2 DEF HiddenAfter
      <4>2. Kept(Enduring, db.rows, db.hidden)
        BY DEF Shown
      <4>3. Kept(Enduring, db.rows, db.hidden \cup Displaced(db.rows))
        BY <4>2, KeptHidden
      <4> QED
        BY <4>1, <4>3
    <3>3. CASE Statement.op \notin {"delete_hidden", "hide_outdated"}
      <4>1. db'.rows = db.rows /\ db'.hidden \in SUBSET db.hidden
        BY <3>3 DEF HiddenAfter
      <4> QED
        BY <4>1, KeptLess DEF Shown
    <3> QED
      BY <3>1, <3>2, <3>3
  <2>3. Kept(Enduring, disk'.rows, disk'.hidden)
    BY <2>1, <2>2 DEF Shown
  <2>4. Kept(Enduring', db'.rows, db'.hidden) /\ Kept(Enduring', disk'.rows, disk'.hidden)
    BY <2>1, <2>2, <2>3
  <2> QED
    BY <2>4 DEF Shown, Kept, Displaced, Yields, AsNew, Older, Tied, SameAddress
<1>3. CASE Refused \/ Fails \/ Crash
  <2>1. db' = disk /\ disk' = disk /\ Enduring' = Enduring
    BY <1>3, Disconnected, EnduringStays
  <2> QED
    BY <2>1 DEF Shown, Kept, Displaced, Yields, AsNew, Older, Tied, SameAddress
<1>4. ASSUME NEW e \in Event, Write(e) PROVE Shown'
  <2> USE <1>4, WriteIs
  <2>1. Enduring \subseteq Event /\ db.rows \subseteq Event /\ db.hidden \subseteq db.rows
    BY DEF Typed, TypeOK, Enduring, Current
  <2>2. Kept(Enduring, db'.rows, db'.hidden)
    BY <2>1, KeptWritten DEF Shown
  <2>3. Enduring' = Enduring /\ disk' = db'
    BY EnduringStays
  <2>4. Kept(Enduring', db'.rows, db'.hidden) /\ Kept(Enduring', disk'.rows, disk'.hidden)
    BY <2>2, <2>3
  <2> QED
    BY <2>4 DEF Shown, Kept, Displaced, Yields, AsNew, Older, Tied, SameAddress
<1> QED
  BY <1>1, <1>2, <1>3, <1>4 DEF Next

-----------------------------------------------------------------------------
(* What a database has. *)

\* Possible, case by case.
LEMMA PossibleIs ==
    ASSUME NEW d, NEW s
    PROVE  /\ s.op = "create_new" => (Possible(s, d) <=> s.arg \cap d.has = {})
           /\ s.op = "copy_references" =>
                 (Possible(s, d) <=> {"event_ref", "pubkey_ref", "tag"} \subseteq d.has)
           /\ s.op = "rebuild_tags" => (Possible(s, d) <=> "tag" \in d.has)
           /\ s.op \notin {"create_new", "copy_references", "rebuild_tags"} => Possible(s, d)
<1>1. s.op = "create_new" => (Possible(s, d) <=> s.arg \cap d.has = {})
  BY Zenon DEF Possible
<1>2. s.op = "copy_references" =>
         (Possible(s, d) <=> {"event_ref", "pubkey_ref", "tag"} \subseteq d.has)
  BY Zenon DEF Possible
<1>3. s.op = "rebuild_tags" => (Possible(s, d) <=> "tag" \in d.has)
  BY Zenon DEF Possible
<1>4. s.op \notin {"create_new", "copy_references", "rebuild_tags"} => Possible(s, d)
  BY Zenon DEF Possible
<1> QED
  BY <1>1, <1>2, <1>3, <1>4

\* What the two statements that read other tables need.
LEMMA DueFacts ==
    /\ \A e \in {"sqlite", "postgres"} : Due(e, 0) = {}
    /\ {"event_ref", "pubkey_ref", "tag"} \subseteq Due("sqlite", 3)
BY DEF Due, TagOfText

\* Of the statements of a script, only an ADD or CREATE without IF NOT EXISTS can be
\* refused: the tables that the others read are due.
LEMMA OnlyNewRefused ==
    ASSUME Typed, Position, Complete, next # 0, ~Possible(Statement, db)
    PROVE  /\ Statement.op = "create_new" /\ Statement.arg \cap db.has # {}
           /\ WellOrdered(engine, from, InScript) /\ ~Initializing
<1> HIDE DEF Statement, InScript
<1>1. Statement.op \in {"create_new", "copy_references", "rebuild_tags"}
  BY PossibleIs
<1>2. ~(engine = "sqlite" /\ from = 0)
  <2> SUFFICES ASSUME engine = "sqlite", from = 0 PROVE FALSE
    OBVIOUS
  <2>1. InitOrdered(InScript) /\ next \in 1..25 /\ Statement = InScript[next]
    BY UnderWay DEF InitOrdered
  <2>2. Statement.op = "version" \/ Statement.op = "create"
    BY <2>1, InitPlain
  <2> QED
    BY <1>1, <2>2
<1>3. WellOrdered(engine, from, InScript) /\ next \in 1..Len(InScript)
      /\ Statement = InScript[next] /\ ~Initializing /\ ~InitCut
  BY <1>2, UnderWay, VersionsUnderWay DEF Initializing
<1>4. /\ Due(engine, db.version) \subseteq db.has
      /\ \A o : Lasts(InScript, next, o) => o \in db.has
  BY <1>3 DEF Complete, Whole
<1>5. db.version = IF Done(InScript, next, "version") THEN from + 1 ELSE from
  BY <1>2 DEF Position, Following
<1>6. Statement.op # "copy_references"
  <2> SUFFICES ASSUME Statement.op = "copy_references" PROVE FALSE
    OBVIOUS
  <2>1. engine = "sqlite" /\ from = 2 /\ Done(InScript, next, "version")
    BY <1>3 DEF WellOrdered
  <2>2. db.version = 3
    BY <1>5, <2>1
  <2> QED
    BY <1>4, <2>1, <2>2, DueFacts, PossibleIs
<1>7. Statement.op # "rebuild_tags"
  <2> SUFFICES ASSUME Statement.op = "rebuild_tags" PROVE FALSE
    OBVIOUS
  <2>1. \/ "tag" \in Due(engine, IF Done(InScript, next, "version") THEN from + 1 ELSE from)
        \/ Lasts(InScript, next, "tag")
    BY <1>3 DEF WellOrdered
  <2>2. "tag" \in db.has
    BY <1>4, <1>5, <2>1
  <2> QED
    BY <2>2, PossibleIs
<1> QED
  BY <1>1, <1>3, <1>6, <1>7, PossibleIs

\* What was made and not dropped since is there.
LEMMA LastsExecute ==
    ASSUME Typed, Position, Complete, Execute
    PROVE  \A o : Lasts(InScript, next + 1, o) => o \in db'.has
<1> TAKE o
<1> HAVE Lasts(InScript, next + 1, o)
<1>1. next \in Nat \ {0} /\ Statement = InScript[next] /\ next # 0
  BY Executed, UnderWay
<1> HIDE DEF Statement
<1>2. \/ Statement.op \in {"create", "create_new"} /\ o \in Statement.arg
      \/ Lasts(InScript, next, o) /\ ~(Statement.op = "drop" /\ o \in Statement.arg)
  BY <1>1, LastsStep
<1>3. Lasts(InScript, next, o) => o \in db.has
  BY <1>1 DEF Complete
<1>4. db'.has = HasAfter(db, Statement)
  BY Executed
<1> QED
  BY <1>2, <1>3, <1>4 DEF HasAfter

\* A statement keeps what its version is due, or brings what the next one is.
LEMMA CompleteExecute ==
    ASSUME Typed, Position, Complete, Execute
    PROVE  Complete'
<1> USE Executed
<1> HIDE DEF Statement, InScript
<1>1. next # 0 /\ engine' = engine /\ cut' = cut /\ ~InitCut
      /\ next \in 1..Len(InScript) /\ Statement = InScript[next]
  BY UnderWay, VersionsUnderWay
<1>2. next' # 0 => \A o : Lasts(InScript', next', o) => o \in db'.has
  <2>1. next' # 0 => next' = next + 1 /\ InScript' = InScript
    OBVIOUS
  <2> QED
    BY <2>1, LastsExecute
<1>3. CASE engine = "sqlite" /\ from = 0
  <2>1. InitOrdered(InScript)
    BY <1>1, <1>3, UnderWay
  <2>2. Len(InScript) = 25
    BY <2>1 DEF InitOrdered
  <2>3. CASE next # 25
    <3>1. next' # 0 /\ from' = 0
      BY <1>1, <1>3, <2>2, <2>3
    <3>2. Initializing'
      BY <1>1, <1>3, <3>1 DEF Initializing
    <3> QED
      BY <1>2, <3>2 DEF Complete, Whole
  <2>4. CASE next = 25
    <3>1. next' = 0 /\ disk' = db'
      BY <1>1, <2>2, <2>4
    <3>2. Done(InScript, 25, "version") /\ Statement.op = "create"
      BY <1>1, <2>1, <2>4, InitPlain
    <3>3. db'.version = SqliteVersion
      BY <1>1, <1>3, <2>4, <3>2 DEF Position, Following
    <3>4. Due("sqlite", SqliteVersion) \subseteq db'.has
      BY <2>1, <2>4, LastsExecute DEF InitOrdered
    <3>5. Due(engine', db'.version) \subseteq db'.has /\ Due(engine', disk'.version) \subseteq disk'.has
      BY <1>1, <1>3, <3>1, <3>3, <3>4
    <3> QED
      BY <3>1, <3>5 DEF Complete, Whole
  <2> QED
    BY <2>3, <2>4
<1>4. CASE ~(engine = "sqlite" /\ from = 0)
  <2>1. WellOrdered(engine, from, InScript) /\ ~Initializing
    BY <1>1, <1>4, UnderWay DEF Initializing
  <2>2. /\ Due(engine, db.version) \subseteq db.has
        /\ Due(engine, disk.version) \subseteq disk.has
        /\ \A o : Lasts(InScript, next, o) => o \in db.has
    BY <1>1, <2>1 DEF Complete, Whole
  <2>3. ~Done(InScript, next, "version") => db.version = from
    BY <1>1 DEF Position
  <2>4. db'.has = HasAfter(db, Statement)
        /\ db'.version = IF Statement.op = "version" THEN Statement.arg ELSE db.version
    OBVIOUS
  <2>5. Due(engine, db'.version) \subseteq db'.has
    <3>1. CASE Statement.op = "version"
      <4>1. /\ Statement.arg = from + 1 /\ ~Done(InScript, next, "version")
            /\ \A o \in Due(engine, from + 1) \ Due(engine, from) : Lasts(InScript, next, o)
        BY <1>1, <2>1, <3>1 DEF WellOrdered
      <4>2. db'.has = db.has /\ db'.version = from + 1 /\ db.version = from
        BY <2>3, <2>4, <3>1, <4>1 DEF HasAfter
      <4> QED
        BY <2>2, <4>1, <4>2
    <3>2. CASE Statement.op = "drop"
      <4>1. Statement.arg \cap Due(engine, from) = {} /\ ~Done(InScript, next, "version")
        BY <1>1, <2>1, <3>2 DEF WellOrdered
      <4>2. db'.has = db.has \ Statement.arg /\ db'.version = from /\ db.version = from
        BY <2>3, <2>4, <3>2, <4>1 DEF HasAfter
      <4> QED
        BY <2>2, <4>1, <4>2
    <3>3. CASE Statement.op \notin {"version", "drop"}
      <4>1. db.has \subseteq db'.has /\ db'.version = db.version
        BY <2>4, <3>3 DEF HasAfter
      <4> QED
        BY <2>2, <4>1
    <3> QED
      BY <3>1, <3>2, <3>3
  <2>6. disk' \in {disk, db'}
    OBVIOUS
  <2>7. Due(engine', db'.version) \subseteq db'.has /\ Due(engine', disk'.version) \subseteq disk'.has
    BY <1>1, <2>2, <2>5, <2>6
  <2> QED
    BY <1>2, <2>7 DEF Complete, Whole
<1> QED
  BY <1>3, <1>4

\* So does every other step: a fault falls back on what was committed.
LEMMA CompleteStep ==
    ASSUME Typed, Position, Blank, Complete, [Next]_vars
    PROVE  Complete'
<1>1. CASE Start
  <2>1. next = 0 /\ UNCHANGED <<engine, db, disk, from, next, cut>>
    BY <1>1 DEF Start, Typed, TypeOK
  <2> QED
    BY <2>1 DEF Complete, Whole, InitCut, Initializing
<1>2. CASE NextScript
  <2>1. next = 0 /\ UNCHANGED <<engine, db, disk, cut>> /\ next' \in {0, 1}
    BY <1>2 DEF NextScript
  <2>2. ~Initializing
    BY <2>1 DEF Initializing
  <2>3. Whole(db)' /\ Whole(disk)'
    BY <2>1, <2>2 DEF Complete, Whole, InitCut
  <2>4. \A s, o : ~Lasts(s, 1, o)
    BY DEF Lasts
  <2> QED
    BY <2>1, <2>3, <2>4 DEF Complete
<1>3. CASE Execute
  BY <1>3, CompleteExecute
<1>4. CASE Refused \/ Fails \/ Crash
  <2>1. db' = disk /\ disk' = disk /\ next' = 0 /\ engine' = engine
    BY <1>4, Disconnected
  <2>2. cut \subseteq cut' /\ (~Refused /\ next # 0 => disk.version \in cut')
    BY <1>4, Disconnected
  <2>3. Due(engine, disk.version) \subseteq disk.has \/ InitCut'
    <3>1. CASE InitCut
      BY <2>1, <2>2, <3>1 DEF InitCut
    <3>2. CASE Initializing
      <4>1. next # 0 /\ engine = "sqlite" /\ from = 0
        BY <3>2 DEF Initializing
      <4>2. disk.version \in {0, SqliteVersion}
        BY <4>1 DEF Position, Following
      <4>3. ~Refused
        BY <4>1, <3>2, OnlyNewRefused, Disconnected
      <4>4. disk.version \in cut'
        BY <2>2, <4>1, <4>3
      <4> QED
        BY <2>1, <4>1, <4>2, <4>4, DueFacts DEF InitCut
    <3>3. CASE ~InitCut /\ ~Initializing
      BY <3>3 DEF Complete, Whole
    <3> QED
      BY <3>1, <3>2, <3>3
  <2> QED
    BY <2>1, <2>3 DEF Complete, Whole
<1>5. ASSUME NEW e \in Event, Write(e) PROVE Complete'
  <2> USE <1>5, WriteIs
  <2>1. next = 0 /\ ~Initializing
    BY DEF Initializing
  <2>2. Due(engine, db.version) \subseteq db.has \/ InitCut
    BY <2>1 DEF Complete, Whole
  <2>3. Due(engine', db'.version) \subseteq db'.has \/ InitCut'
    BY <2>2 DEF InitCut
  <2> QED
    BY <2>1, <2>3 DEF Complete, Whole
<1>6. CASE UNCHANGED vars
  <2>1. UNCHANGED <<engine, db, disk, from, next, cut>>
    BY <1>6 DEF vars
  <2> QED
    BY <2>1 DEF Complete, Whole, InitCut, Initializing, InScript
<1> QED
  BY <1>1, <1>2, <1>3, <1>4, <1>5, <1>6 DEF Next

\* A SQLite database stays empty until INIT_SQL has set its version.
LEMMA BlankStep ==
    ASSUME Typed, Position, Blank, [Next]_vars
    PROVE  Blank'
<1>1. CASE Start \/ NextScript \/ UNCHANGED vars
  <2>1. UNCHANGED <<engine, db, disk>>
    BY <1>1 DEF Start, NextScript, vars
  <2> QED
    BY <2>1 DEF Blank, Empty
<1>2. CASE Execute
  <2> USE <1>2, Executed
  <2> HIDE DEF Statement, InScript
  <2>1. disk' \in {disk, db'} /\ engine' = engine /\ next # 0
    OBVIOUS
  <2>2. ASSUME engine = "sqlite" PROVE db'.version # 0
    <3>1. next \in 1..Len(InScript) /\ Statement = InScript[next]
          /\ Following(engine, from) \in 1..SqliteVersion /\ from \in 0..(Target(engine) - 1)
      BY <2>1, UnderWay, VersionsUnderWay
    <3>2. CASE Statement.op = "version"
      <4>1. db'.version = Following(engine, from)
        BY <2>1, <3>2, VersionStatements
      <4> QED
        BY <3>1, <4>1
    <3>3. CASE Statement.op # "version" /\ from # 0
      <4>1. db'.version = db.version /\ db.version \in {from, Following(engine, from)}
        BY <2>1, <3>3 DEF Position
      <4> QED
        BY <3>1, <3>3, <4>1
    <3>4. CASE Statement.op # "version" /\ from = 0
      <4>1. InitOrdered(InScript) /\ next \in 1..25
        BY <2>1, <2>2, <3>4, UnderWay DEF InitOrdered
      <4>2. Done(InScript, next, "version")
        <5>1. next # 1
          BY <3>1, <3>4, <4>1 DEF InitOrdered
        <5>2. next > 1 /\ next \in 1..26
          BY <4>1, <5>1
        <5> QED
          BY <4>1, <5>2, InitPlain
      <4>3. db'.version = Following(engine, from)
        BY <2>1, <3>4, <4>2 DEF Position
      <4> QED
        BY <3>1, <4>3
    <3> QED
      BY <3>2, <3>3, <3>4
  <2>3. Empty(disk) \/ disk' = db'
    BY DEF Blank
  <2> QED
    BY <2>1, <2>2 DEF Blank, Empty
<1>3. CASE Refused \/ Fails \/ Crash
  <2>1. db' = disk /\ disk' = disk /\ engine' = engine
    BY <1>3, Disconnected
  <2> QED
    BY <2>1 DEF Blank, Empty
<1>4. ASSUME NEW e \in Event, Write(e) PROVE Blank'
  <2> USE <1>4, WriteIs
  <2>1. "event" \in db.has
    BY DEF Written, EventTable
  <2>2. ~(engine = "sqlite" /\ db.version = 0)
    BY <2>1 DEF Blank, Empty
  <2>3. ~(engine' = "sqlite" /\ db'.version = 0) /\ disk' = db'
    BY <2>2
  <2> QED
    BY <2>3 DEF Blank, Empty
<1> QED
  BY <1>1, <1>2, <1>3, <1>4 DEF Next

-----------------------------------------------------------------------------
(* What is added only once. *)

\* A column is added by one script only.
LEMMA FreshFacts ==
    /\ \A e \in {"sqlite", "postgres"} : \A v, w \in 0..17 :
          v # w => Fresh(e, v) \cap Fresh(e, w) = {}
    /\ \A v \in 0..17 : Fresh("sqlite", v) \subseteq
                            {"event.hidden", "event.delegated_by", "event.expires_at"}
<1>1. \A v, w \in 0..17 : v # w => Fresh("sqlite", v) \cap Fresh("sqlite", w) = {}
  BY DEF Fresh
<1>2. \A v, w \in 0..17 : v # w => Fresh("postgres", v) \cap Fresh("postgres", w) = {}
  BY DEF Fresh, Due
<1>3. \A v \in 0..17 : Fresh("sqlite", v) \subseteq
                            {"event.hidden", "event.delegated_by", "event.expires_at"}
  BY DEF Fresh
<1> QED
  BY <1>1, <1>2, <1>3

\* Versions only grow, and a script that is over has set its own.
LEMMA VersionsGrow ==
    ASSUME Typed, Position, Execute
    PROVE  /\ db'.version = IF Done(InScript, next + 1, "version")
                            THEN Following(engine, from) ELSE from
           /\ db.version <= db'.version
           /\ next = Len(InScript) => db'.version = Following(engine, from)
<1> HIDE DEF Statement, InScript
<1>1. /\ next # 0 /\ next \in Nat \ {0} /\ next \in 1..Len(InScript) /\ Statement = InScript[next]
      /\ db'.version = IF Statement.op = "version" THEN Statement.arg ELSE db.version
  BY Executed, UnderWay
<1>2. from < Following(engine, from) /\ Following(engine, from) \in Nat /\ from \in Int
  BY <1>1, UnderWay, VersionsUnderWay DEF SqliteVersion
<1>3. db.version = IF Done(InScript, next, "version") THEN Following(engine, from) ELSE from
  BY <1>1 DEF Position
<1>4. Done(InScript, next + 1, "version") <=>
         Done(InScript, next, "version") \/ Statement.op = "version"
  BY <1>1, DoneStep
<1>5. Statement.op = "version" =>
         Statement.arg = Following(engine, from) /\ ~Done(InScript, next, "version")
  BY <1>1, VersionStatements
<1>6. db'.version = IF Done(InScript, next + 1, "version") THEN Following(engine, from) ELSE from
  BY <1>1, <1>3, <1>4, <1>5
<1>7. db.version <= db'.version
  BY <1>1, <1>2, <1>3, <1>5
<1>8. Done(InScript, Len(InScript) + 1, "version")
  <2>1. CASE engine = "sqlite" /\ from = 0
    <3>1. InitOrdered(InScript) /\ Len(InScript) = 25
      BY <1>1, <2>1, UnderWay DEF InitOrdered
    <3> QED
      BY <3>1, InitPlain
  <2>2. CASE ~(engine = "sqlite" /\ from = 0)
    BY <1>1, <2>2, UnderWay DEF WellOrdered
  <2> QED
    BY <2>1, <2>2
<1> QED
  BY <1>6, <1>7, <1>8

\* What an execution adds of what scripts add only once.
LEMMA NewMade ==
    ASSUME Typed, Position, Execute, NEW v \in 0..17, NEW o \in Fresh(engine, v), o \in db'.has,
           o \notin db.has
    PROVE  \/ db.version > v
           \/ from = v /\ Statement.op = "create_new"
<1> HIDE DEF Statement, InScript
<1>1. /\ next # 0 /\ next \in 1..Len(InScript) /\ Statement = InScript[next]
      /\ db'.has = HasAfter(db, Statement)
  BY Executed, UnderWay
<1>2. Statement.op \in {"create", "create_new"} /\ o \in Statement.arg
  BY <1>1 DEF HasAfter
<1>3. CASE engine = "sqlite" /\ from = 0
  <2>1. InitOrdered(InScript) /\ next \in 1..25
    BY <1>1, <1>3, UnderWay DEF InitOrdered
  <2>2. Done(InScript, next, "version")
    <3>1. next # 1
      BY <1>1, <1>2, <2>1 DEF InitOrdered
    <3>2. next > 1 /\ next \in 1..26
      BY <2>1, <3>1
    <3> QED
      BY <2>1, <3>2, InitPlain
  <2>3. db.version = 18
    BY <1>1, <1>3, <2>2 DEF Position, Following, SqliteVersion
  <2> QED
    BY <2>3
<1>4. CASE ~(engine = "sqlite" /\ from = 0)
  <2>1. WellOrdered(engine, from, InScript) /\ engine \in {"sqlite", "postgres"}
        /\ from \in 0..17
    <3>1. engine \in {"sqlite", "postgres"} /\ from \in 0..(Target(engine) - 1)
      BY <1>1, UnderWay DEF Typed, TypeOK
    <3>2. from \in 0..17
      BY <3>1, Targets
    <3> QED
      BY <1>1, <1>4, <3>1, <3>2, UnderWay
  <2>2. CASE Statement.op = "create"
    <3>1. engine = "sqlite" /\ o \notin {"event.hidden", "event.delegated_by", "event.expires_at"}
      BY <1>1, <1>2, <2>1, <2>2 DEF WellOrdered
    <3> QED
      BY <3>1, FreshFacts
  <2>3. CASE Statement.op = "create_new"
    <3>1. o \in Fresh(engine, from)
      BY <1>1, <1>2, <2>1, <2>3 DEF WellOrdered
    <3> QED
      BY <2>1, <2>3, <3>1, FreshFacts
  <2> QED
    BY <1>2, <2>2, <2>3
<1> QED
  BY <1>3, <1>4

\* A column is added under the version before it, or the script was begun.
LEMMA NewExecute ==
    ASSUME Typed, Position, New, Execute
    PROVE  New'
<1> HIDE DEF Statement, InScript
<1>1. /\ next # 0 /\ next \in Nat \ {0} /\ next \in 1..Len(InScript) /\ Len(InScript) \in Nat
      /\ Statement = InScript[next] /\ engine' = engine /\ cut' = cut
      /\ engine \in {"sqlite", "postgres"} /\ from \in Int
  BY Executed, UnderWay DEF Typed, TypeOK
<1>2. /\ \/ next = Len(InScript) /\ next' = 0 /\ from' = 0 /\ ~open'
         \/ next' = next + 1 /\ next' # 0 /\ from' = from /\ InScript' = InScript
      /\ disk' = IF open' THEN disk ELSE db'
      /\ open' <=> InTransaction(InScript, next + 1)
  BY <1>1, Executed
<1>3. /\ db.version <= db'.version /\ from < Following(engine, from)
      /\ next = Len(InScript) => db'.version = Following(engine, from)
      /\ db'.version = IF Done(InScript, next + 1, "version") THEN Following(engine, from) ELSE from
      /\ db.version \in Int /\ db'.version \in Int
  <2>1. db.version \in Int /\ Following(engine, from) \in Int /\ from < Following(engine, from)
    BY <1>1, VersionsUnderWay DEF SqliteVersion
  <2> QED
    BY <1>1, <2>1, VersionsGrow
<1>4. \A op : Done(InScript, next + 1, op) <=> Done(InScript, next, op) \/ Statement.op = op
  BY <1>1, DoneStep
<1>5. ASSUME NEW v \in 0..17, NEW o \in Fresh(engine, v), o \in db'.has
      PROVE  \/ db'.version > v
             \/ engine = "sqlite" /\ v \in cut
             \/ from = v /\ Done(InScript, next + 1, "create_new")
  <2>1. CASE o \in db.has
    <3>1. \/ db.version > v
          \/ engine = "sqlite" /\ v \in cut
          \/ from = v /\ Done(InScript, next, "create_new")
      BY <1>1, <1>5, <2>1 DEF New, NewIn
    <3> QED
      BY <1>3, <1>4, <3>1
  <2>2. CASE o \notin db.has
    <3>1. db.version > v \/ (from = v /\ Statement.op = "create_new")
      BY <1>5, <2>2, NewMade
    <3> QED
      BY <1>3, <1>4, <3>1
  <2> QED
    BY <2>1, <2>2
<1>6. ASSUME NEW v \in 0..17, NEW o \in Fresh(engine, v), o \in db'.has
      PROVE  \/ db'.version > v
             \/ engine = "sqlite" /\ v \in cut
             \/ next' # 0 /\ from' = v /\ Done(InScript', next', "create_new")
  <2>1. CASE next' = 0
    <3>1. next = Len(InScript)
      BY <1>2, <2>1
    <3>2. db'.version > from
      BY <1>1, <1>3, <3>1
    <3> QED
      BY <1>5, <1>6, <3>2
  <2>2. CASE next' # 0
    <3>1. next' = next + 1 /\ from' = from /\ InScript' = InScript
      BY <1>2, <2>2
    <3> QED
      BY <1>5, <1>6, <2>2, <3>1
  <2> QED
    BY <2>1, <2>2
<1>7. ASSUME NEW v \in 0..17, NEW o \in Fresh(engine, v), o \in disk'.has
      PROVE  \/ disk'.version > v
             \/ engine = "sqlite" /\ v \in cut
             \/ engine = "sqlite" /\ next' # 0 /\ from' = v /\ Done(InScript', next', "create_new")
  <2>1. CASE open'
    <3>1. disk' = disk /\ next' = next + 1 /\ next' # 0 /\ from' = from /\ InScript' = InScript
      BY <1>2, <2>1
    <3>2. \/ disk.version > v
          \/ engine = "sqlite" /\ v \in cut
          \/ engine = "sqlite" /\ from = v /\ Done(InScript, next, "create_new")
      BY <1>1, <1>7, <3>1 DEF New, NewIn
    <3> QED
      BY <1>4, <3>1, <3>2
  <2>2. CASE ~open'
    <3>1. disk' = db'
      BY <1>2, <2>2
    <3>2. CASE engine = "sqlite"
      BY <1>6, <1>7, <3>1, <3>2
    <3>3. CASE engine = "postgres"
      <4>1. WellOrdered(engine, from, InScript)
        BY <1>1, <3>3, UnderWay
      <4>2. InTransaction(InScript, next + 1) <=>
               (InTransaction(InScript, next) \/ Statement.op = "begin") /\ Statement.op # "commit"
        BY <1>1, InTransactionStep
      <4>3. Done(InScript, next, "version")
        BY <1>1, <1>2, <2>2, <3>3, <4>1, <4>2 DEF WellOrdered
      <4>4. db'.version > from
        BY <1>1, <1>3, <1>4, <4>3
      <4> QED
        BY <1>5, <1>7, <3>1, <3>3, <4>4
    <3> QED
      BY <1>1, <3>2, <3>3
  <2> QED
    BY <2>1, <2>2
<1> QED
  BY <1>1, <1>6, <1>7 DEF New, NewIn

\* A fault after that is on record.
LEMMA NewStep ==
    ASSUME Typed, Position, Complete, New, [Next]_vars
    PROVE  New'
<1>1. CASE Start \/ NextScript
  <2>1. UNCHANGED <<engine, db, disk, cut>> /\ next = 0
    BY <1>1 DEF Start, NextScript, Typed, TypeOK
  <2> QED
    BY <2>1 DEF New, NewIn
<1>2. CASE Execute
  BY <1>2, NewExecute
<1>3. CASE Refused \/ Fails \/ Crash
  <2>1. db' = disk /\ disk' = disk /\ next' = 0 /\ engine' = engine
    BY <1>3, Disconnected
  <2>2. cut \subseteq cut' /\ (~Refused /\ next # 0 => disk.version \in cut')
    BY <1>3, Disconnected
  <2>3. Refused => next # 0 /\ ~Done(InScript, next, "create_new")
    <3> SUFFICES ASSUME Refused PROVE next # 0 /\ ~Done(InScript, next, "create_new")
      OBVIOUS
    <3>1. next # 0 /\ ~Possible(Statement, db)
      BY Disconnected
    <3>2. Statement.op = "create_new" /\ WellOrdered(engine, from, InScript)
      BY <3>1, OnlyNewRefused
    <3>3. next \in 1..Len(InScript) /\ Statement = InScript[next]
      BY <3>1, UnderWay
    <3> HIDE DEF Statement, InScript
    <3> QED
      BY <3>1, <3>2, <3>3 DEF WellOrdered
  <2>4. ASSUME NEW v \in 0..17, NEW o \in Fresh(engine, v), o \in disk.has
        PROVE  disk.version > v \/ (engine = "sqlite" /\ v \in cut')
    <3>1. \/ disk.version > v
          \/ engine = "sqlite" /\ v \in cut
          \/ engine = "sqlite" /\ next # 0 /\ from = v /\ Done(InScript, next, "create_new")
      BY <2>4 DEF New, NewIn
    <3>2. CASE next # 0 /\ from = v /\ Done(InScript, next, "create_new") /\ engine = "sqlite"
      <4>1. disk.version \in cut' /\ v <= disk.version /\ disk.version \in Int
        BY <2>2, <2>3, <3>2, VersionsUnderWay DEF SqliteVersion
      <4> QED
        BY <3>2, <4>1
    <3> QED
      BY <2>2, <3>1, <3>2
  <2> QED
    BY <2>1, <2>4 DEF New, NewIn
<1>4. ASSUME NEW e \in Event, Write(e) PROVE New'
  <2> USE <1>4, WriteIs
  <2>1. /\ next = 0 /\ next' = 0 /\ engine' = engine /\ cut' = cut /\ disk' = db'
        /\ db'.has = db.has /\ db'.version = db.version
    OBVIOUS
  <2> QED
    BY <2>1 DEF New, NewIn
<1>5. CASE UNCHANGED vars
  <2>1. UNCHANGED <<engine, db, disk, from, next, cut>>
    BY <1>5 DEF vars
  <2> QED
    BY <2>1 DEF New, NewIn, InScript
<1> QED
  BY <1>1, <1>2, <1>3, <1>4, <1>5 DEF Next

-----------------------------------------------------------------------------
(* The tags of what is shown. *)

\* What a statement outside mig_1_to_2, m002 and mig_15_to_16 does to the tags.
LEMMA TagsKept ==
    ASSUME Typed, Position, Execute
    PROVE  /\ Statement.op = "rebuild_tags" => TaggedIn(db')
           /\ /\ TaggedIn(db) /\ Statement.op \notin {"show_all", "split_values"}
              /\ ~(Statement.op = "drop" /\ "tag" \in Statement.arg)
              => TaggedIn(db')
<1> HIDE DEF Statement
<1>1. /\ db'.rows = IF Statement.op = "delete_hidden" THEN db.rows \ db.hidden ELSE db.rows
      /\ db'.hidden = HiddenAfter(db, Statement)
      /\ db'.tagged = TaggedAfter(db, Statement)
  BY Executed
<1>2. Statement.op = "rebuild_tags" => TaggedIn(db')
  BY <1>1 DEF TaggedIn, TaggedAfter
<1>3. ASSUME TaggedIn(db), Statement.op \notin {"show_all", "split_values"},
             ~(Statement.op = "drop" /\ "tag" \in Statement.arg)
      PROVE  TaggedIn(db')
  <2>1. CASE Statement.op \in {"copy_references", "rebuild_tags"}
    BY <1>1, <2>1 DEF TaggedIn, TaggedAfter
  <2>2. CASE Statement.op = "delete_hidden"
    BY <1>1, <1>3, <2>2 DEF TaggedIn, TaggedAfter, HiddenAfter
  <2>3. CASE Statement.op \notin {"copy_references", "rebuild_tags", "delete_hidden"}
    <3>1. db'.tagged = db.tagged /\ db'.rows = db.rows /\ db.hidden \subseteq db'.hidden
      BY <1>1, <1>3, <2>3 DEF TaggedAfter, HiddenAfter
    <3> QED
      BY <1>3, <3>1 DEF TaggedIn
  <2> QED
    BY <2>1, <2>2, <2>3
<1> QED
  BY <1>2, <1>3

\* Initialization creates tables in an empty database.
LEMMA TaggedInitialize ==
    ASSUME Typed, Position, Blank, Tagged, Execute, engine = "sqlite", from = 0
    PROVE  TaggedIn(db') /\ disk' = db'
<1> HIDE DEF Statement, InScript
<1>1. next # 0 /\ InitOrdered(InScript) /\ next \in 1..25 /\ Statement = InScript[next]
  BY Executed, UnderWay DEF InitOrdered
<1>2. next + 1 \in 1..26 /\ next \in 1..26
  BY <1>1
<1>3. disk' = db'
  <2>1. ~InTransaction(InScript, next + 1)
    BY <1>1, <1>2, InitPlain
  <2> QED
    BY <2>1, Executed
<1>4. TaggedIn(db')
  <2>1. CASE next = 1
    <3>1. ~Done(InScript, next, "version") /\ Statement.op = "version"
      BY <1>1, <1>2, <2>1, InitPlain
    <3>2. db.version = 0
      BY <1>1, <3>1 DEF Position
    <3>3. db.rows = {}
      BY <3>2 DEF Blank, Empty
    <3>4. TaggedIn(db)
      BY <3>3 DEF TaggedIn
    <3> QED
      BY <3>1, <3>4, TagsKept
  <2>2. CASE next # 1
    <3>1. Done(InScript, next, "version") /\ Statement.op = "create"
          /\ ~Done(InScript, next, "drop")
      <4>1. next > 1
        BY <1>1, <2>2
      <4> QED
        BY <1>1, <1>2, <4>1, InitPlain
    <3>2. db.version = 18
      BY <1>1, <3>1 DEF Position, Following, SqliteVersion
    <3>3. TaggedIn(db)
      BY <3>1, <3>2 DEF Tagged, TagVersion, Unbuilt
    <3> QED
      BY <3>1, <3>3, TagsKept
  <2> QED
    BY <2>1, <2>2
<1> QED
  BY <1>3, <1>4

\* The other scripts lose tags only in a transaction, or before they rebuild them.
LEMMA TaggedExecute ==
    ASSUME Typed, Position, Tagged, Execute, ~(engine = "sqlite" /\ from = 0)
    PROVE  /\ Done(InScript, next + 1, "rebuild_tags") => TaggedIn(db')
           /\ db'.version >= TagVersion(engine) =>
                 \/ TaggedIn(db')
                 \/ engine = "postgres" /\ (2 \in cut \/ (from = 1 /\ next # Len(InScript)))
                 \/ open' /\ Done(InScript, next + 1, "drop")
                    /\ ~Done(InScript, next + 1, "rebuild_tags")
<1> HIDE DEF Statement, InScript
<1>1. /\ next # 0 /\ next \in Nat \ {0} /\ next \in 1..Len(InScript) /\ Len(InScript) \in Nat
      /\ Statement = InScript[next] /\ WellOrdered(engine, from, InScript)
      /\ engine \in {"sqlite", "postgres"} /\ from \in Int
  BY Executed, UnderWay DEF Typed, TypeOK
<1>2. /\ \A op : Done(InScript, next + 1, op) <=> Done(InScript, next, op) \/ Statement.op = op
      /\ open' <=> InTransaction(InScript, next + 1)
      /\ open <=> InTransaction(InScript, next)
      /\ InTransaction(InScript, next + 1) <=>
            (InTransaction(InScript, next) \/ Statement.op = "begin") /\ Statement.op # "commit"
  BY <1>1, DoneStep, InTransactionStep, Executed DEF Position
<1>3. /\ db.version = IF Done(InScript, next, "version") THEN from + 1 ELSE from
      /\ db'.version = IF Done(InScript, next + 1, "version") THEN from + 1 ELSE from
  BY <1>1, VersionsGrow DEF Position, Following
<1>4. Done(InScript, next + 1, "rebuild_tags") => TaggedIn(db')
  <2>1. CASE Statement.op = "rebuild_tags"
    BY <2>1, TagsKept
  <2>2. CASE Done(InScript, next, "rebuild_tags")
    <3>1. TaggedIn(db)
      BY <1>1, <2>2 DEF Tagged
    <3>2. Statement.op \notin {"show_all", "split_values"}
          /\ ~(Statement.op = "drop" /\ "tag" \in Statement.arg)
      BY <1>1, <2>2 DEF WellOrdered
    <3> QED
      BY <3>1, <3>2, TagsKept
  <2> QED
    BY <1>2, <2>1, <2>2
<1>5. ASSUME db'.version >= TagVersion(engine), ~TaggedIn(db'), engine = "postgres",
             2 \notin cut, ~(from = 1 /\ next # Len(InScript))
      PROVE  FALSE
  <2>1. from # 1
    <3>1. ASSUME from = 1 PROVE FALSE
      <4>1. Done(InScript, next + 1, "rebuild_tags")
        BY <1>1, <1>5, <3>1 DEF WellOrdered
      <4> QED
        BY <1>4, <1>5, <4>1
    <3> QED
      BY <3>1
  <2>2. db.version >= TagVersion(engine)
    BY <1>1, <1>3, <1>5, <2>1 DEF TagVersion
  <2>3. ~Done(InScript, next, "drop") /\ Statement.op # "drop"
    <3>1. \A n \in 1..Len(InScript) : InScript[n].op # "drop"
      BY <1>1, <1>5 DEF WellOrdered
    <3> QED
      BY <1>1, <3>1 DEF Done
  <2>4. TaggedIn(db)
    BY <1>5, <2>1, <2>2, <2>3 DEF Tagged, Unbuilt
  <2>5. Statement.op \notin {"show_all", "split_values"}
    BY <1>1, <1>5, <2>1 DEF WellOrdered
  <2> QED
    BY <1>5, <2>3, <2>4, <2>5, TagsKept
<1>6. ASSUME db'.version >= TagVersion(engine), ~TaggedIn(db'), engine = "sqlite"
      PROVE  open' /\ Done(InScript, next + 1, "drop")
             /\ ~Done(InScript, next + 1, "rebuild_tags")
  <2>1. ~Done(InScript, next + 1, "rebuild_tags") /\ ~Done(InScript, next, "rebuild_tags")
    BY <1>2, <1>4, <1>6
  <2>2. db.version >= 6
    <3>1. db'.version >= 6
      BY <1>6 DEF TagVersion
    <3>2. CASE Statement.op = "version"
      <4>1. ~Done(InScript, next, "version") /\ from # 5
        BY <1>1, <1>6, <2>1, <3>2 DEF WellOrdered
      <4> QED
        BY <1>1, <1>2, <1>3, <3>1, <3>2, <4>1
    <3>3. CASE Statement.op # "version"
      BY <1>2, <1>3, <3>1, <3>3
    <3> QED
      BY <3>2, <3>3
  <2>3. TaggedIn(db) \/ (open /\ Done(InScript, next, "drop"))
    BY <1>6, <2>2 DEF Tagged, TagVersion, Unbuilt
  <2>4. CASE open /\ Done(InScript, next, "drop")
    <3>1. Statement.op # "commit"
      BY <1>1, <2>1, <2>4 DEF WellOrdered
    <3> QED
      BY <1>2, <2>1, <2>4, <3>1
  <2>5. CASE TaggedIn(db)
    <3>1. Statement.op \notin {"show_all", "split_values"}
      <4>1. from # 1
        BY <1>1, <1>3, <2>2
      <4> QED
        BY <1>1, <1>6, <4>1 DEF WellOrdered
    <3>2. Statement.op = "drop" /\ "tag" \in Statement.arg
      BY <1>6, <2>5, <3>1, TagsKept
    <3>3. InTransaction(InScript, next)
      BY <1>1, <3>2 DEF WellOrdered
    <3> QED
      BY <1>2, <2>1, <3>2, <3>3
  <2> QED
    BY <2>3, <2>4, <2>5
<1> QED
  BY <1>1, <1>4, <1>5, <1>6

\* No step loses the tags of an event that is shown.
LEMMA TaggedStep ==
    ASSUME Typed, Position, Blank, Complete, Tagged, [Next]_vars
    PROVE  Tagged'
<1>1. CASE Start \/ NextScript
  <2>1. UNCHANGED <<engine, db, disk, open, cut>> /\ next = 0 /\ next' \in {0, 1}
    BY <1>1 DEF Start, NextScript, Typed, TypeOK
  <2>2. ~open /\ \A s, op : ~Done(s, 1, op)
    BY <2>1, Between DEF Done
  <2>3. /\ disk.version >= TagVersion(engine) => TaggedIn(disk) \/ (engine = "postgres" /\ 2 \in cut)
        /\ db.version >= TagVersion(engine) => TaggedIn(db) \/ (engine = "postgres" /\ 2 \in cut)
    BY <2>1, <2>2 DEF Tagged, Unbuilt
  <2> QED
    BY <2>1, <2>2, <2>3 DEF Tagged, Unbuilt, TaggedIn
<1>2. CASE Execute
  <2> HIDE DEF Statement, InScript
  <2>1. /\ next # 0 /\ engine' = engine /\ cut' = cut
        /\ \/ next = Len(InScript) /\ next' = 0 /\ from' = 0 /\ ~open'
           \/ /\ next' = next + 1 /\ next' # 0 /\ next # Len(InScript) /\ from' = from
              /\ InScript' = InScript
        /\ disk' = IF open' THEN disk ELSE db'
    <3>1. next + 1 \in 1..Len(InScript) /\ next \in Int /\ Len(InScript) \in Int
          => next # Len(InScript) /\ next + 1 # 0
      OBVIOUS
    <3>2. next \in Int /\ Len(InScript) \in Int
      BY <1>2, Executed, UnderWay
    <3> QED
      BY <1>2, <3>1, <3>2, Executed
  <2>2. CASE engine = "sqlite" /\ from = 0
    <3>1. TaggedIn(db') /\ disk' = db'
      BY <1>2, <2>2, TaggedInitialize
    <3> QED
      BY <3>1 DEF Tagged, TaggedIn
  <2>3. CASE ~(engine = "sqlite" /\ from = 0)
    <3>1. /\ Done(InScript, next + 1, "rebuild_tags") => TaggedIn(db')
          /\ db'.version >= TagVersion(engine) =>
                \/ TaggedIn(db')
                \/ engine = "postgres" /\ (2 \in cut \/ (from = 1 /\ next # Len(InScript)))
                \/ open' /\ Done(InScript, next + 1, "drop")
                   /\ ~Done(InScript, next + 1, "rebuild_tags")
      BY <1>2, <2>3, TaggedExecute
    <3>2. db'.version >= TagVersion(engine') =>
                \/ TaggedIn(db') \/ Unbuilt'
                \/ open' /\ Done(InScript', next', "drop") /\ ~Done(InScript', next', "rebuild_tags")
      BY <2>1, <3>1 DEF Unbuilt
    <3>3. disk'.version >= TagVersion(engine') => TaggedIn(disk') \/ Unbuilt'
      <4>1. CASE open'
        <5>1. disk' = disk /\ from' = from /\ next' # 0
          BY <2>1, <4>1
        <5>2. disk.version >= TagVersion(engine) => TaggedIn(disk) \/ Unbuilt
          BY DEF Tagged
        <5> QED
          BY <2>1, <5>1, <5>2 DEF Unbuilt
      <4>2. CASE ~open'
        <5>1. disk' = db'
          BY <2>1, <4>2
        <5> QED
          BY <3>2, <4>2, <5>1
      <4> QED
        BY <4>1, <4>2
    <3>4. next' # 0 /\ Done(InScript', next', "rebuild_tags") => TaggedIn(db')
      BY <2>1, <3>1
    <3> QED
      BY <3>2, <3>3, <3>4 DEF Tagged, TaggedIn
  <2> QED
    BY <2>2, <2>3
<1>3. CASE Refused \/ Fails \/ Crash
  <2>1. db' = disk /\ disk' = disk /\ next' = 0 /\ engine' = engine
    BY <1>3, Disconnected
  <2>2. cut \subseteq cut' /\ (~Refused /\ next # 0 => disk.version \in cut')
    BY <1>3, Disconnected
  <2>3. ASSUME disk.version >= TagVersion(engine) PROVE TaggedIn(disk) \/ Unbuilt'
    <3>1. TaggedIn(disk) \/ Unbuilt
      BY <2>3 DEF Tagged
    <3>2. CASE engine = "postgres" /\ 2 \in cut
      BY <2>1, <2>2, <3>2 DEF Unbuilt
    <3>3. CASE engine = "postgres" /\ from = 1 /\ next # 0
      <4>1. disk.version \in {1, db.version} /\ disk.version >= 2
            /\ db.version = IF Done(InScript, next, "version") THEN 2 ELSE 1
        BY <2>3, <3>3 DEF Position, Following, TagVersion
      <4>2. disk.version = 2 /\ Done(InScript, next, "version")
        BY <4>1
      <4>3. ~Refused
        <5> SUFFICES ASSUME Refused PROVE FALSE
          OBVIOUS
        <5>1. ~Possible(Statement, db)
          BY Disconnected
        <5>2. Statement.op = "create_new" /\ WellOrdered(engine, from, InScript)
          BY <3>3, <5>1, OnlyNewRefused
        <5>3. next \in 1..Len(InScript) /\ Statement = InScript[next]
          BY <3>3, UnderWay
        <5> HIDE DEF Statement, InScript
        <5> QED
          BY <4>2, <5>2, <5>3 DEF WellOrdered
      <4> QED
        BY <2>1, <2>2, <3>3, <4>2, <4>3 DEF Unbuilt
    <3> QED
      BY <3>1, <3>2, <3>3 DEF Unbuilt
  <2> QED
    BY <2>1, <2>3 DEF Tagged, TaggedIn
<1>4. ASSUME NEW e \in Event, Write(e) PROVE Tagged'
  <2>1. /\ next = 0 /\ next' = 0 /\ ~open /\ engine' = engine /\ cut' = cut /\ disk' = db'
        /\ db'.version = db.version
        /\ db'.rows = {f \in db.rows : ~Older(f, e)} \cup {e}
        /\ db'.hidden = db.hidden \cap {f \in db.rows : ~Older(f, e)}
        /\ db'.tagged = (db.tagged \cap {f \in db.rows : ~Older(f, e)}) \cup {e}
    BY <1>4, WriteIs
  <2>2. TaggedIn(db) => TaggedIn(db')
    BY <2>1 DEF TaggedIn
  <2>3. db.version >= TagVersion(engine) => TaggedIn(db) \/ Unbuilt
    BY <2>1 DEF Tagged
  <2>4. db'.version >= TagVersion(engine') => TaggedIn(db') \/ Unbuilt'
    BY <2>1, <2>2, <2>3 DEF Unbuilt
  <2> QED
    BY <2>1, <2>4 DEF Tagged, TaggedIn
<1>5. CASE UNCHANGED vars
  <2>1. UNCHANGED <<engine, db, disk, open, from, next, cut>>
    BY <1>5 DEF vars
  <2> QED
    BY <2>1 DEF Tagged, TaggedIn, Unbuilt, InScript
<1> QED
  BY <1>1, <1>2, <1>3, <1>4, <1>5 DEF Next

-----------------------------------------------------------------------------
(* The databases that are found. *)

\* Named, as a predicate.
LEMMA NamedIs ==
    ASSUME NEW s, NEW ops, NEW o
    PROVE  o \in Named(s, ops) <=> \E k \in 1..Len(s) : s[k].op \in ops /\ o \in s[k].arg
BY Zenon DEF Named

\* SchemaAfter, as a predicate.
LEMMA SchemaIs ==
    ASSUME NEW first, NEW scripts, NEW n, NEW o
    PROVE  o \in SchemaAfter(first, scripts, n) <=>
              \/ o \in first /\ \A j \in (0 + 1)..n : o \notin Named(scripts[j], {"drop"})
              \/ \E i \in 1..n : /\ o \in Named(scripts[i], {"create", "create_new"})
                                 /\ \A j \in (i + 1)..n : o \notin Named(scripts[j], {"drop"})
<1> DEFINE Lasting(objects, i) ==
              objects \ UNION {Named(scripts[j], {"drop"}) : j \in (i + 1)..n}
<1>1. ASSUME NEW objects, NEW i
      PROVE  o \in Lasting(objects, i) <=>
                o \in objects /\ \A j \in (i + 1)..n : o \notin Named(scripts[j], {"drop"})
  BY Zenon
<1>2. SchemaAfter(first, scripts, n) =
         Lasting(first, 0)
         \cup UNION {Lasting(Named(scripts[i], {"create", "create_new"}), i) : i \in 1..n}
  BY Zenon DEF SchemaAfter
<1> HIDE DEF Lasting
<1>3. o \in SchemaAfter(first, scripts, n) <=>
         \/ o \in Lasting(first, 0)
         \/ \E i \in 1..n : o \in Lasting(Named(scripts[i], {"create", "create_new"}), i)
  BY <1>2, Zenon
<1> QED
  BY <1>1, <1>3, Zenon

\* One more script, which is well-ordered, brings what the next version is due.
LEMMA SchemaGrows ==
    ASSUME NEW e, NEW v, NEW first, NEW scripts, NEW n \in Nat \ {0},
           WellOrdered(e, v, scripts[n]),
           Due(e, v) \subseteq SchemaAfter(first, scripts, n - 1)
    PROVE  Due(e, v + 1) \subseteq SchemaAfter(first, scripts, n)
<1> SUFFICES ASSUME NEW o \in Due(e, v + 1)
             PROVE  o \in SchemaAfter(first, scripts, n)
  OBVIOUS
<1> DEFINE s == scripts[n]
<1> HIDE DEF s
<1>0. WellOrdered(e, v, s) /\ Len(s) \in Nat /\ s = scripts[n]
  BY DEF s, WellOrdered
<1>1. CASE o \in Due(e, v)
  <2>1. o \notin Named(s, {"drop"})
    BY <1>0, <1>1, NamedIs DEF WellOrdered
  <2>2. \A i \in Nat : \A j \in (i + 1)..n : j = n \/ j \in (i + 1)..(n - 1)
    OBVIOUS
  <2>3. \A i \in 1..(n - 1) : i \in Nat /\ i \in 1..n
    OBVIOUS
  <2>4. o \in SchemaAfter(first, scripts, n - 1)
    BY <1>1
  <2>5. CASE o \in first /\ \A j \in (0 + 1)..(n - 1) : o \notin Named(scripts[j], {"drop"})
    BY <1>0, <2>1, <2>2, <2>5, SchemaIs
  <2>6. CASE \E i \in 1..(n - 1) : /\ o \in Named(scripts[i], {"create", "create_new"})
                                   /\ \A j \in (i + 1)..(n - 1) : o \notin Named(scripts[j], {"drop"})
    BY <1>0, <2>1, <2>2, <2>3, <2>6, SchemaIs
  <2> QED
    BY <2>4, <2>5, <2>6, SchemaIs
<1>2. CASE o \notin Due(e, v)
  <2>1. PICK k \in 1..Len(s) : s[k].op = "version"
    BY <1>0 DEF WellOrdered, Done
  <2>2. Lasts(s, k, o)
    BY <1>0, <1>2, <2>1 DEF WellOrdered
  <2>3. \E j \in 1..Len(s) : s[j].op \in {"create", "create_new"} /\ o \in s[j].arg
    BY <1>0, <2>1, <2>2 DEF Lasts
  <2>4. o \in Named(s, {"create", "create_new"})
    BY <2>3, NamedIs
  <2>5. n \in 1..n /\ (n + 1)..n = {}
    OBVIOUS
  <2> QED
    BY <1>0, <2>4, <2>5, SchemaIs
<1> QED
  BY <1>1, <1>2

\* A database that is found has what its version is due.
LEMMA SchemaDue ==
    /\ \A v \in 1..19 : Due("sqlite", v) \subseteq SchemaOf("sqlite", v)
    /\ \A v \in 0..5 : Due("postgres", v) \subseteq SchemaOf("postgres", v)
<1>1. \A v \in 1..18 : Due("sqlite", v) \subseteq SchemaAfter(SqliteFirst, SqliteScripts, v - 1)
  <2> DEFINE P(v) == Due("sqlite", v) \subseteq SchemaAfter(SqliteFirst, SqliteScripts, v - 1)
  <2>1. P(1)
    <3>1. Due("sqlite", 1) \subseteq SqliteFirst /\ (0 + 1)..(1 - 1) = {}
      BY DEF Due, SqliteFirst
    <3> QED
      BY <3>1, SchemaIs
  <2>2. \A v \in 1..17 : P(v) => P(v + 1)
    <3> TAKE v \in 1..17
    <3> HAVE P(v)
    <3>1. WellOrdered("sqlite", v, SqliteScripts[v]) /\ v \in Nat \ {0} /\ (v + 1) - 1 = v
      BY SqliteOrdered
    <3> QED
      BY <3>1, SchemaGrows
  <2> HIDE DEF P
  <2>3. \A v \in 1..18 : P(v)
    BY <2>1, <2>2
  <2> QED
    BY <2>3 DEF P
<1>2. \A v \in 0..5 : Due("postgres", v) \subseteq SchemaAfter({}, PostgresScripts, v)
  <2> DEFINE P(v) == Due("postgres", v) \subseteq SchemaAfter({}, PostgresScripts, v)
  <2>1. P(0)
    BY DueFacts
  <2>2. \A v \in 0..4 : P(v) => P(v + 1)
    <3> TAKE v \in 0..4
    <3> HAVE P(v)
    <3>1. /\ WellOrdered("postgres", v, PostgresScripts[v + 1])
          /\ v + 1 \in Nat \ {0} /\ (v + 1) - 1 = v
      BY PostgresOrdered
    <3> QED
      BY <3>1, SchemaGrows
  <2> HIDE DEF P
  <2>3. \A v \in 0..5 : P(v)
    BY <2>1, <2>2
  <2> QED
    BY <2>3 DEF P
<1>3. \A v \in 1..18 : SchemaOf("sqlite", v) = SchemaAfter(SqliteFirst, SqliteScripts, v - 1)
  BY DEF SchemaOf, SqliteVersion
<1>4. SchemaOf("sqlite", 19) = SchemaAfter(SqliteFirst, SqliteScripts, 18 - 1)
  BY DEF SchemaOf, SqliteVersion
<1>5. Due("sqlite", 19) = Due("sqlite", 18)
  BY DEF Due
<1>6. \A v \in 0..5 : SchemaOf("postgres", v) = SchemaAfter({}, PostgresScripts, v)
  BY DEF SchemaOf
<1> QED
  BY <1>1, <1>2, <1>3, <1>4, <1>5, <1>6

\* What a script adds only once, no schema has before that script.
LEMMA AddedBy ==
    ASSUME NEW e, NEW v, NEW s, NEW o \in Named(s, {"create", "create_new"}),
           WellOrdered(e, v, s),
           e = "sqlite" => o \in {"event.hidden", "event.delegated_by", "event.expires_at"}
    PROVE  o \in Fresh(e, v)
<1>1. PICK k \in 1..Len(s) : s[k].op \in {"create", "create_new"} /\ o \in s[k].arg
  BY NamedIs
<1> QED
  BY <1>1 DEF WellOrdered

\* And none of the columns that later scripts add.
LEMMA SchemaNew ==
    /\ \A v \in 0..17, w \in 1..19 :
          Fresh("sqlite", v) \cap SchemaOf("sqlite", w) # {} => w > v
    /\ \A v \in 0..17, w \in 0..5 :
          Fresh("postgres", v) \cap SchemaOf("postgres", w) # {} => w > v
<1>1. ASSUME NEW v \in 0..17, NEW w \in 1..19, NEW o \in Fresh("sqlite", v),
             o \in SchemaOf("sqlite", w)
      PROVE  w > v
  <2> DEFINE n == IF w > SqliteVersion THEN SqliteVersion - 1 ELSE w - 1
  <2>1. n \in 0..17 /\ n < w
    BY DEF SqliteVersion
  <2>2. o \in SchemaAfter(SqliteFirst, SqliteScripts, n)
    BY <1>1 DEF SchemaOf
  <2> HIDE DEF n
  <2>3. o \in {"event.hidden", "event.delegated_by", "event.expires_at"}
    BY <1>1, FreshFacts
  <2>4. o \notin SqliteFirst
    BY <2>3 DEF SqliteFirst
  <2>5. PICK i \in 1..n : o \in Named(SqliteScripts[i], {"create", "create_new"})
    BY <2>2, <2>4, SchemaIs
  <2>6. i \in 1..17 /\ i \in 0..17 /\ i < w
    BY <2>1
  <2>7. o \in Fresh("sqlite", i)
    BY <2>3, <2>5, <2>6, SqliteOrdered, AddedBy
  <2>8. i = v
    BY <1>1, <2>6, <2>7, FreshFacts
  <2> QED
    BY <2>6, <2>8
<1>2. ASSUME NEW v \in 0..17, NEW w \in 0..5, NEW o \in Fresh("postgres", v),
             o \in SchemaOf("postgres", w)
      PROVE  w > v
  <2>1. o \in SchemaAfter({}, PostgresScripts, w)
    BY <1>2 DEF SchemaOf
  <2>2. PICK i \in 1..w : o \in Named(PostgresScripts[i], {"create", "create_new"})
    BY <2>1, SchemaIs
  <2>3. i - 1 \in 0..4 /\ i - 1 \in 0..17 /\ i - 1 < w /\ (i - 1) + 1 = i
    OBVIOUS
  <2>4. WellOrdered("postgres", i - 1, PostgresScripts[i])
    BY <2>3, PostgresOrdered
  <2>5. o \in Fresh("postgres", i - 1)
    BY <2>2, <2>4, AddedBy
  <2>6. i - 1 = v
    BY <1>2, <2>3, <2>5, FreshFacts
  <2> QED
    BY <2>3, <2>6
<1> QED
  BY <1>1, <1>2

\* So the first start establishes the invariant.
LEMMA ContentsInit ==
    ASSUME Init
    PROVE  Complete /\ New /\ Blank /\ Tagged
<1>1. engine \in {"sqlite", "postgres"} /\ Found /\ disk = db /\ next = 0
  BY DEF Init
<1>2. CASE db = NoTables
  <2>1. /\ db.version = 0 /\ db.has = {} /\ db.rows = {} /\ db.hidden = {} /\ db.tagged = {}
    BY <1>2 DEF NoTables
  <2>2. Complete
    BY <1>1, <2>1, DueFacts DEF Complete, Whole
  <2>3. New
    BY <1>1, <2>1 DEF New, NewIn
  <2>4. Blank
    BY <1>1, <2>1 DEF Blank, Empty
  <2>5. Tagged
    BY <1>1, <2>1 DEF Tagged, TaggedIn, TagVersion
  <2> QED
    BY <2>2, <2>3, <2>4, <2>5
<1>3. CASE db # NoTables
  <2>1. /\ db.has = SchemaOf(engine, db.version) /\ db.version \in 1..19
        /\ engine = "postgres" => db.version \in 0..5
        /\ engine = "postgres" \/ db.version > 5 => db.tagged = db.rows
    BY <1>1, <1>3, FoundIs
  <2>2. Due(engine, db.version) \subseteq db.has
    BY <1>1, <2>1, SchemaDue
  <2>3. Complete
    BY <1>1, <2>2 DEF Complete, Whole
  <2>4. \A v \in 0..17 : \A o \in Fresh(engine, v) \cap db.has : db.version > v
    BY <1>1, <2>1, SchemaNew
  <2>5. New
    BY <1>1, <2>4 DEF New, NewIn
  <2>6. Blank
    BY <1>1, <2>1 DEF Blank, Empty
  <2>7. db.version >= TagVersion(engine) => db.tagged = db.rows
    BY <1>1, <2>1 DEF TagVersion
  <2>8. Tagged
    BY <1>1, <2>7 DEF Tagged, TaggedIn
  <2> QED
    BY <2>3, <2>5, <2>6, <2>8
<1> QED
  BY <1>2, <1>3

-----------------------------------------------------------------------------
(* The theorems. *)

\* The inductive invariant: what the version tells of the schema and the data, wherever
\* the scripts of sqlite_migration.rs and postgres_migration.rs were cut short.
THEOREM MigrationInvariant ==
    Spec => [](Typed /\ Position /\ Shown /\ Complete /\ New /\ Blank /\ Tagged)
<1> DEFINE Inv == Typed /\ Position /\ Shown /\ Complete /\ New /\ Blank /\ Tagged
<1>1. Init => Inv
  <2> SUFFICES ASSUME Init PROVE Inv
    OBVIOUS
  <2> QED
    BY ShownInit, TypedInit, ContentsInit
<1>2. Inv /\ [Next]_vars => Inv'
  <2> SUFFICES ASSUME Inv, [Next]_vars PROVE Inv'
    OBVIOUS
  <2>1. Typed' /\ Position'
    BY TypedStep
  <2>2. Shown'
    BY ShownStep
  <2>3. Complete'
    BY CompleteStep
  <2>4. New'
    BY NewStep
  <2>5. Blank'
    BY BlankStep
  <2>6. Tagged'
    BY TaggedStep
  <2> QED
    BY <2>1, <2>2, <2>3, <2>4, <2>5, <2>6
<1> QED
  BY <1>1, <1>2, PTL DEF Spec

\* A script is under way only while upgrade_db runs, a transaction is open only within a
\* script, and only stored events are hidden or have rows in the tag table.
THEOREM MigrationTypes == Spec => []TypeOK
<1>1. Typed => TypeOK
  BY DEF Typed
<1> QED
  BY <1>1, MigrationInvariant, PTL

\* The scripts, however often they are interrupted and repeated, leave at the address of a
\* current event that event or one at least as new, also where older releases stored several
\* created at once, unless mig_11_to_12 keeps a hidden one of them.
THEOREM UpgradesLoseNothing == Spec => []NothingShownLost
<1>1. Shown => NothingShownLost
  BY DEF Shown, Kept, Enduring, AsNew, NothingShownLost
<1> QED
  BY <1>1, MigrationInvariant, PTL

\* What this release uses, the current version is due.
LEMMA RequiredIsDue ==
    ASSUME engine \in {"sqlite", "postgres"}
    PROVE  Required \subseteq Due(engine, Target(engine))
<1>1. CASE engine = "sqlite"
  <2>1. Target("sqlite") = 18
    BY DEF Target, SqliteVersion
  <2> QED
    BY <1>1, <2>1 DEF Required, Written, EventTable, Due, TagOfText
<1>2. CASE engine = "postgres"
  <2>1. Target("postgres") = 5
    BY Targets
  <2> QED
    BY <1>2, <2>1 DEF Required, Written, EventTable, Due
<1> QED
  BY <1>1, <1>2

\* A database that claims the current version has every table, column and index that the
\* repositories name, unless its initialization by INIT_SQL was cut short.
THEOREM CurrentHasAll == Spec => []CurrentIsComplete
<1>1. Typed /\ Complete => CurrentIsComplete
  <2> SUFFICES ASSUME Typed, Complete, phase = "serving", db.version = Target(engine)
               PROVE  Required \subseteq db.has \/ InitCut
    BY DEF CurrentIsComplete
  <2>1. next = 0 /\ engine \in {"sqlite", "postgres"}
    BY DEF Typed, TypeOK
  <2>2. Due(engine, db.version) \subseteq db.has \/ InitCut
    BY <2>1 DEF Complete, Whole, Initializing
  <2> QED
    BY <2>1, <2>2, RequiredIsDue
<1> QED
  BY <1>1, MigrationInvariant, PTL

\* From the version that rebuilds the tag table on, a relay that serves finds the tags of
\* all events it shows, unless a PostgreSQL upgrade was cut before rebuild_tags.
THEOREM TagsAreThere == Spec => []TagsSurvive
<1>1. Typed /\ Tagged => TagsSurvive
  <2> SUFFICES ASSUME Typed, Tagged, phase = "serving", db.version >= TagVersion(engine)
               PROVE  db.rows \ db.hidden \subseteq db.tagged \/ (engine = "postgres" /\ 2 \in cut)
    BY DEF TagsSurvive, TagVersion
  <2>1. next = 0 /\ ~open
    BY DEF Typed, TypeOK
  <2> QED
    BY <2>1 DEF Tagged, Unbuilt, TaggedIn
<1> QED
  BY <1>1, MigrationInvariant, PTL

\* Only mig_1_to_2, mig_6_to_7 and mig_16_to_17, which add a column before they set the
\* version, can be refused, and only after they were cut short.
THEOREM ScriptsRepeat == Spec => []ScriptsCanBeRepeated
<1>1. Typed /\ Position /\ Complete /\ New => ScriptsCanBeRepeated
  <2> SUFFICES ASSUME Typed, Position, Complete, New, next # 0, ~Possible(Statement, db)
               PROVE  engine = "sqlite" /\ db.version \in cut \cap {1, 6, 16}
    BY DEF ScriptsCanBeRepeated
  <2> HIDE DEF Statement, InScript
  <2>1. /\ Statement.op = "create_new" /\ Statement.arg \cap db.has # {}
        /\ WellOrdered(engine, from, InScript) /\ ~Initializing
    BY OnlyNewRefused
  <2>2. /\ next \in 1..Len(InScript) /\ Statement = InScript[next]
        /\ from \in 0..(Target(engine) - 1) /\ engine \in {"sqlite", "postgres"}
    BY UnderWay DEF Typed, TypeOK
  <2>3. /\ Statement.arg \subseteq Fresh(engine, from)
        /\ ~Done(InScript, next, "version") /\ ~Done(InScript, next, "create_new")
        /\ engine = "sqlite" => from \in {1, 6, 16}
    BY <2>1, <2>2 DEF WellOrdered
  <2>4. db.version = from
    BY <2>3 DEF Position
  <2>5. PICK o \in Fresh(engine, from) : o \in db.has
    BY <2>1, <2>3
  <2>6. from \in 0..17 /\ ~(db.version > from)
    BY <2>2, <2>4, Targets
  <2>7. engine = "sqlite" /\ from \in cut
    BY <2>3, <2>5, <2>6 DEF New, NewIn
  <2> QED
    BY <2>3, <2>4, <2>7
<1> QED
  BY <1>1, MigrationInvariant, PTL

=============================================================================
