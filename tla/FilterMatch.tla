----------------------------- MODULE FilterMatch -----------------------------
(***************************************************************************)
(* The filters of a subscription.  A filter is applied twice, by two       *)
(* pieces of code that share nothing: query_from_filter, one for each      *)
(* database, makes it an SQL query over the event and tag tables, and      *)
(* interested_in_event matches it against every event that is broadcast.   *)
(*                                                                         *)
(* A filter lists texts.  What a text does is kept, not its characters:    *)
(* the ids or keys it is a prefix of, which is what the live match asks,   *)
(* and the one it decodes to from hexadecimal, which is what the query     *)
(* asks.                                                                   *)
(***************************************************************************)
EXTENDS EventStore

CONSTANTS
    RawFilter,    \* filters as clients send them
    Absent,       \* a condition the filter does not have
    Malformed,    \* a condition whose value has not the type it should have
    NotArray,     \* the value of a tag condition that is no array
    EmptyText,    \* the empty string, a prefix of everything
    Own,          \* events the payment processor makes itself, a subset of Id
    Delegator     \* delegated events -> the key they are published for

ASSUME FilterAssumption == Own \subseteq Id /\ DOMAIN Delegator \subseteq Id

\* Texts: a full id or key, the beginning of several, one spelled in upper case.
Full(x) == [begins |-> {x}, decodes |-> {x}]
Beginning(S) == [begins |-> S, decodes |-> {}]
UpperCase(x) == [begins |-> {}, decodes |-> {x}]

TagOf(e, name) == IF name = "d" THEN DValues(e) ELSE IF name = "e" THEN ETags(e) ELSE {}

SingleChar == {"d", "e", "p"}

-----------------------------------------------------------------------------
(* Parsing. *)

\* A value of the wrong type is as good as none: deserialize(val).ok()
Reading(value) == IF value = Malformed THEN Absent ELSE value

Rejected(raw) ==
    \E key \in {"ids", "authors"} :
        raw[key] \notin {Absent, Malformed} /\ EmptyText \in raw[key]

\* A tag condition whose values are not all text is dropped; one for a name of several
\* characters, which the tables do not hold, makes the filter match nothing.
ParseFilter(raw) ==
    LET arrays == {name \in DOMAIN raw.tags : raw.tags[name] # NotArray} IN
    [ids |-> Reading(raw.ids), authors |-> Reading(raw.authors),
     kinds |-> Reading(raw.kinds), since |-> Reading(raw.since), until |-> Reading(raw.until),
     tags |-> [name \in {n \in arrays \cap SingleChar : raw.tags[n] # Malformed} |->
                  raw.tags[name]],
     force_no_match |-> ~(arrays \subseteq SingleChar)]

ReqFilter == {ParseFilter(raw) : raw \in {r \in RawFilter : ~Rejected(r)}}

-----------------------------------------------------------------------------
(* The live match. *)

Requires(condition, P(_)) == condition = Absent \/ P(condition)

PrefixMatch(texts, target) == \E t \in texts : target \in t.begins

WithinTime(f, e) ==
    /\ Requires(f.since, LAMBDA t : CreatedAt(e) >= t)
    /\ Requires(f.until, LAMBDA t : CreatedAt(e) <= t)

KindMatch(f, e) == Requires(f.kinds, LAMBDA ks : KindOf(e) \in ks)

\* build_index is called for events that arrive from clients.
TagIndex(e, name) == IF e \in Own THEN {} ELSE TagOf(e, name)

\* Mutant: one matching tag condition is enough.
TagMatchAny(f, e) ==
    DOMAIN f.tags = {} \/ \E name \in DOMAIN f.tags : TagIndex(e, name) \cap f.tags[name] # {}

TagMatch(f, e) == \A name \in DOMAIN f.tags : TagIndex(e, name) \cap f.tags[name] # {}

AuthorsMatch(f, author) == Requires(f.authors, LAMBDA texts : PrefixMatch(texts, author))

InterestedInEvent(f, e) ==
    /\ Requires(f.ids, LAMBDA texts : PrefixMatch(texts, e))
    /\ WithinTime(f, e)
    /\ KindMatch(f, e)
    /\ \/ AuthorsMatch(f, AuthorOf(e))
       \/ e \in DOMAIN Delegator /\ AuthorsMatch(f, Delegator[e])
    /\ TagMatch(f, e)
    /\ ~f.force_no_match

-----------------------------------------------------------------------------
(* The queries: the conditions on a row and its tags, which never change. *)

EqualsAny(texts, target) == \E t \in texts : target \in t.decodes

\* A row of SQLite's tag table repeats kind and creation time of its event.
TagClause(f, name, e) ==
    TagOf(e, name) \cap f.tags[name] # {} /\ KindMatch(f, e) /\ WithinTime(f, e)

SqliteSelects(f, e) ==
    /\ ~f.force_no_match
    /\ Requires(f.authors, LAMBDA texts : EqualsAny(texts, AuthorOf(e)))
    /\ KindMatch(f, e)
    /\ Requires(f.ids, LAMBDA texts : EqualsAny(texts, e))
    /\ \A name \in DOMAIN f.tags : TagClause(f, name, e)
    /\ WithinTime(f, e)

\* The tag conditions are joined by OR; one without values makes the query empty.
AnyTagClause(f, e) ==
    /\ \A name \in DOMAIN f.tags : f.tags[name] # {}
    /\ \E name \in DOMAIN f.tags : TagOf(e, name) \cap f.tags[name] # {}

PostgresSelects(f, e) ==
    /\ ~f.force_no_match
    /\ Requires(f.authors, LAMBDA texts :
           \/ EqualsAny(texts, AuthorOf(e))
           \/ e \in DOMAIN Delegator /\ EqualsAny(texts, Delegator[e]))
    /\ KindMatch(f, e)
    /\ Requires(f.ids, LAMBDA texts : EqualsAny(texts, e))
    /\ DOMAIN f.tags = {} \/ AnyTagClause(f, e)
    /\ WithinTime(f, e)

Engine == {"sqlite", "postgres"}

Selected ==
    [engine \in Engine |->
        [f \in ReqFilter |->
            {e \in Id : IF engine = "sqlite" THEN SqliteSelects(f, e) ELSE PostgresSelects(f, e)}]]

\* Without the limit, which only cuts the answer to the newest rows.
QueryFromFilter(engine, f) == {e \in Shown \cap Selected[engine][f] : ~Expired(e, now)}

-----------------------------------------------------------------------------
(* Properties. *)

\* The filter names ids and keys as events spell them, in full.
Exact(f) ==
    \A key \in {"ids", "authors"} :
        Requires(f[key], LAMBDA texts : \A t \in texts : t.begins = t.decodes)

Interested == [f \in ReqFilter |-> {e \in Id : InterestedInEvent(f, e)}]

Live(f) == {e \in announced \cap Interested[f] : ~Expired(e, now)}

SeveralTags(f) == \E m, n \in DOMAIN f.tags : m # n

\* Following a subscription is as good as asking again: whatever a write adds to the
\* answer of a query is broadcast to whoever follows its filter, and nothing else is.
\* The relay's own messages carry no tag index: a filter with tags misses them live.
\* Delegators are not in SQLite's query: their events may be heard of live only.  And
\* PostgreSQL's query takes an event for one of several tag conditions.
FollowingMissesNothing ==
    [][\A engine \in Engine : \A f \in ReqFilter :
          LET added == QueryFromFilter(engine, f)' \ QueryFromFilter(engine, f)
              told  == Live(f)' IN
          Exact(f) =>
              /\ added \subseteq told \cup Own \/ (engine = "postgres" /\ SeveralTags(f))
              /\ told \subseteq added \/ (engine = "sqlite" /\ told \subseteq
                                            added \cup DOMAIN Delegator)]_vars

=============================================================================
