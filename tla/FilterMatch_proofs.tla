-------------------------- MODULE FilterMatch_proofs --------------------------
(***************************************************************************)
(* Proof that following a subscription is as good as asking again.  The    *)
(* two readings of a filter, interested_in_event and query_from_filter,    *)
(* are compared condition by condition; what a write adds to the answer of *)
(* a query is what it broadcasts, by BroadcastMatchesStore.                *)
(***************************************************************************)
EXTENDS FilterMatch, EventStore_proofs

\* On texts that are spelled in full, a prefix matches what it decodes to.
LEMMA ExactTexts ==
    ASSUME NEW f, Exact(f), NEW key \in {"ids", "authors"}, f[key] # Absent, NEW x
    PROVE  PrefixMatch(f[key], x) <=> EqualsAny(f[key], x)
BY DEF Exact, Requires, PrefixMatch, EqualsAny

\* The conditions that both readings spell alike.
LEMMA ExactConditions ==
    ASSUME NEW f, Exact(f), NEW e
    PROVE  /\ f.ids = Absent \/ PrefixMatch(f.ids, e) <=> f.ids = Absent \/ EqualsAny(f.ids, e)
           /\ \A author : AuthorsMatch(f, author)
                 <=> f.authors = Absent \/ EqualsAny(f.authors, author)
<1>1. f.ids # Absent => (PrefixMatch(f.ids, e) <=> EqualsAny(f.ids, e))
  BY ExactTexts
<1>2. \A author :
         f.authors # Absent => (PrefixMatch(f.authors, author) <=> EqualsAny(f.authors, author))
  BY ExactTexts
<1> QED
  BY <1>1, <1>2 DEF Requires, AuthorsMatch

\* What SQLite's query selects, the live match reports, but for the relay's own events.
LEMMA SqliteIsFollowed ==
    ASSUME NEW f, Exact(f), NEW e, SqliteSelects(f, e), e \notin Own
    PROVE  InterestedInEvent(f, e)
BY ExactConditions DEF SqliteSelects, InterestedInEvent, Requires, TagMatch, TagIndex, TagClause

\* So does PostgreSQL's, for filters with one tag condition at most.
LEMMA PostgresIsFollowed ==
    ASSUME NEW f, Exact(f), NEW e, PostgresSelects(f, e), e \notin Own, ~SeveralTags(f)
    PROVE  InterestedInEvent(f, e)
<1>1. TagMatch(f, e)
  BY DEF PostgresSelects, AnyTagClause, SeveralTags, TagMatch, TagIndex
<1>2. AuthorsMatch(f, AuthorOf(e)) \/ (e \in DOMAIN Delegator /\ AuthorsMatch(f, Delegator[e]))
  BY DEF PostgresSelects, AuthorsMatch, Requires, Exact, PrefixMatch, EqualsAny
<1> QED
  BY <1>1, <1>2, ExactConditions DEF PostgresSelects, InterestedInEvent, Requires

\* What the live match reports, PostgreSQL's query selects.
LEMMA FollowedIsSelectedByPostgres ==
    ASSUME NEW f, Exact(f), NEW e, InterestedInEvent(f, e)
    PROVE  PostgresSelects(f, e)
<1>1. DOMAIN f.tags = {} \/ AnyTagClause(f, e)
  BY DEF InterestedInEvent, TagMatch, TagIndex, AnyTagClause
<1>2. Requires(f.authors, LAMBDA texts :
          \/ EqualsAny(texts, AuthorOf(e))
          \/ e \in DOMAIN Delegator /\ EqualsAny(texts, Delegator[e]))
  BY DEF InterestedInEvent, AuthorsMatch, Requires, Exact, PrefixMatch, EqualsAny
<1> QED
  BY <1>1, <1>2, ExactConditions DEF PostgresSelects, InterestedInEvent, Requires

\* And SQLite's, unless the event is delegated.
LEMMA FollowedIsSelectedBySqlite ==
    ASSUME NEW f, Exact(f), NEW e, InterestedInEvent(f, e), e \notin DOMAIN Delegator
    PROVE  SqliteSelects(f, e)
<1>1. \A name \in DOMAIN f.tags : TagClause(f, name, e)
  BY DEF InterestedInEvent, TagMatch, TagIndex, TagClause
<1> QED
  BY <1>1, ExactConditions DEF SqliteSelects, InterestedInEvent, Requires

\* An event that has expired stays so.
LEMMA ExpiryIsFinal ==
    ASSUME StoreInv, [Next]_vars, NEW e \in Id, Expired(e, now)
    PROVE  Expired(e, now')
<1>1. now \in Nat /\ now' \in {now, now + 1}
  BY DEF StoreInv, TypeOK, Next, vars, WriteEvent, WriteIgnored, WriteDeletion, WriteOrdinary,
         WriteFails, DeleteExpired, Tick
<1>2. ExpiresAt(e) \in Nat
  BY ContentTypes DEF Expired
<1> QED
  BY <1>1, <1>2 DEF Expired

\* Whatever a write adds to the answer of a query is broadcast to whoever follows its
\* filter, and nothing else is; the exceptions are those of the two readings.
LEMMA FollowingStep ==
    ASSUME StoreInv, StoreInv', [Next]_vars, announced' = Shown' \ Shown,
           NEW engine \in Engine, NEW f \in ReqFilter, Exact(f)
    PROVE  LET added == QueryFromFilter(engine, f)' \ QueryFromFilter(engine, f)
               told  == Live(f)' IN
           /\ added \subseteq told \cup Own \/ (engine = "postgres" /\ SeveralTags(f))
           /\ told \subseteq added \/ (engine = "sqlite" /\ told \subseteq
                                         added \cup DOMAIN Delegator)
<1> DEFINE added == QueryFromFilter(engine, f)' \ QueryFromFilter(engine, f)
           told  == Live(f)'
           Selects(e) == IF engine = "sqlite" THEN SqliteSelects(f, e) ELSE PostgresSelects(f, e)
<1>1. Selected[engine][f] = {e \in Id : Selects(e)}
  BY DEF Selected
<1>2. Interested[f] = {e \in Id : InterestedInEvent(f, e)}
  BY DEF Interested
<1>3. QueryFromFilter(engine, f) = {e \in Shown \cap Selected[engine][f] : ~Expired(e, now)}
  BY DEF QueryFromFilter
<1>4. QueryFromFilter(engine, f)' = {e \in Shown' \cap Selected[engine][f] : ~Expired(e, now')}
  BY DEF QueryFromFilter
<1>5. told = {e \in announced' \cap Interested[f] : ~Expired(e, now')}
  BY DEF Live
<1>6. \A e \in Id : Expired(e, now) => Expired(e, now')
  BY ExpiryIsFinal
<1>7. Shown' \subseteq Id
  BY DEF StoreInv, TypeOK, Shown
<1>8. engine = "sqlite" \/ engine = "postgres"
  BY DEF Engine
<1> HIDE DEF Selects, told
<1>9. \A e : e \in added <=>
         e \in Id /\ Selects(e) /\ e \in Shown' /\ ~Expired(e, now') /\ e \notin Shown
  BY <1>1, <1>3, <1>4, <1>6, <1>7
<1>10. \A e : e \in told <=>
         e \in Id /\ InterestedInEvent(f, e) /\ e \in Shown' /\ ~Expired(e, now') /\ e \notin Shown
  BY <1>2, <1>5, <1>7
<1> HIDE DEF added
<1>11. added \subseteq told \cup Own \/ (engine = "postgres" /\ SeveralTags(f))
  BY <1>8, <1>9, <1>10, SqliteIsFollowed, PostgresIsFollowed DEF Selects
<1>12. told \subseteq added \/ (engine = "sqlite" /\ told \subseteq added \cup DOMAIN Delegator)
  BY <1>8, <1>9, <1>10, FollowedIsSelectedByPostgres, FollowedIsSelectedBySqlite DEF Selects
<1> QED
  BY <1>11, <1>12 DEF added, told

\* Whoever queries first and then follows interested_in_event's answers knows what asking
\* again would tell, if no event repeats its d value and filters spell keys in full.
THEOREM FollowersMissNothing ==
    ASSUME NoRepeatedParam
    PROVE  Spec => FollowingMissesNothing
<1>1. StoreInv /\ StoreInv' /\ [Next]_vars /\ [announced' = Shown' \ Shown]_vars =>
         [\A engine \in Engine : \A f \in ReqFilter :
            LET added == QueryFromFilter(engine, f)' \ QueryFromFilter(engine, f)
                told  == Live(f)' IN
            Exact(f) =>
                /\ added \subseteq told \cup Own \/ (engine = "postgres" /\ SeveralTags(f))
                /\ told \subseteq added \/ (engine = "sqlite" /\ told \subseteq
                                              added \cup DOMAIN Delegator)]_vars
  BY FollowingStep
<1> QED
  BY <1>1, StoreInvariant, BroadcastMatchesStore, PTL
     DEF Spec, FollowingMissesNothing, AnnouncedExactly

=============================================================================
