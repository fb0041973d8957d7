----------------------------- MODULE EventStore -----------------------------
(***************************************************************************)
(* The SQLite event store: what one call of write_event does to the event  *)
(* and tag tables, the periodic removal of expired rows, and what the      *)
(* caller tells the world about the write.                                 *)
(*                                                                         *)
(* write_event holds the write_in_progress lock around one transaction, so *)
(* a call is one step.  Every caller (the database writer, the NIP-05      *)
(* verifier, the payment processor) may present any event at any time:     *)
(* again, after a newer version, or after it expired in the queue.         *)
(*                                                                         *)
(* A row of the tag table exists exactly while its event row does (foreign *)
(* key with ON DELETE CASCADE), so tag rows are derived from event rows.   *)
(***************************************************************************)
EXTENDS Events

CONSTANT MaxTime     \* bound of the clock

VARIABLES
    event,      \* ids of the rows of the event table
    hidden,     \* those whose hidden column is set
    now,        \* the clock
    announced,  \* event the last step broadcast and acknowledged as saved, if any
    received    \* every event a completed write has been called with (history)

vars == <<event, hidden, now, announced, received>>

TypeOK ==
    /\ event \subseteq Id
    /\ hidden \subseteq event
    /\ now \in Nat
    /\ announced \subseteq Id
    /\ received \subseteq Id

Init ==
    /\ event = {}
    /\ hidden = {}
    /\ now = 0
    /\ announced = {}
    /\ received = {}

-----------------------------------------------------------------------------
(* persist_event: the checks before the insertion. *)

\* A stored event of the same author and kind is at least as new.  Hidden rows count.
ShadowedReplaceable(n) ==
    /\ IsReplaceable(n)
    /\ \E r \in event : SameAuthorKind(r, n) /\ CreatedAt(r) >= CreatedAt(n)

\* A stored event of the same author and kind with a d row of that value is at
\* least as new.
ShadowedParam(n) ==
    /\ IsParamReplaceable(n)
    /\ \E r \in event :
         /\ SameAuthorKind(r, n)
         /\ DistinctParam(n) \in DValues(r)
         /\ CreatedAt(r) >= CreatedAt(n)

\* Mutant: only the insertion's uniqueness check is left.
IgnoredOnlyDuplicates(n) == n \in event

Ignored(n) == ShadowedReplaceable(n) \/ ShadowedParam(n) \/ n \in event

-----------------------------------------------------------------------------
(* persist_event: rows the new row n displaces. *)

\* DELETE ... id NOT IN (SELECT ... ORDER BY created_at DESC LIMIT 1)
Versions(rows, n) == {r \in rows : SameAuthorKind(r, n)}

Newest(S) == {r \in S : \A q \in S : CreatedAt(q) <= CreatedAt(r)}

\* DELETE ... id IN (SELECT ... event JOIN tag ... ORDER BY created_at DESC
\* LIMIT -1 OFFSET 1): the first row of the join is skipped.  An event with the
\* value in two d tags is in the join twice, so skipping one of its rows does not
\* keep it.
ParamVersions(rows, n) == {r \in Versions(rows, n) : DistinctParam(n) \in DValues(r)}

Skipped(first, n) == {r \in {first} : ~RepeatsValue(r, DistinctParam(n))}

\* Mutant: nothing is deleted for a replaceable event.
SurvivorsKeepReplaceable(rows, n) ==
    IF IsParamReplaceable(n) /\ ParamVersions(rows, n) # {}
    THEN {rows \ (ParamVersions(rows, n) \ Skipped(first, n)) :
              first \in Newest(ParamVersions(rows, n))}
    ELSE {rows}

\* Mutant: nothing is deleted for a parameterized replaceable event.
SurvivorsKeepParam(rows, n) ==
    IF IsReplaceable(n)
    THEN {rows \ (Versions(rows, n) \ {first}) : first \in Newest(Versions(rows, n))}
    ELSE {rows}

\* The row sets that may remain once n is inserted and what it replaces deleted.
Survivors(rows, n) ==
    IF IsReplaceable(n)
    THEN {rows \ (Versions(rows, n) \ {first}) : first \in Newest(Versions(rows, n))}
    ELSE IF IsParamReplaceable(n) /\ ParamVersions(rows, n) # {}
    THEN {rows \ (ParamVersions(rows, n) \ Skipped(first, n)) :
              first \in Newest(ParamVersions(rows, n))}
    ELSE {rows}

\* Mutant: deletions that arrived first are not looked up.
DeletionNotChecked(n) == FALSE

AlreadyDeleted(n) == \E d \in event : DeletionOnRecord(n, d)

-----------------------------------------------------------------------------
(* The outcomes of a call of write_event. *)

\* Returns 0 rows: answered as a duplicate, not broadcast.
WriteIgnored(n) ==
    /\ Ignored(n)
    /\ announced' = {}
    /\ received' = received \cup {n}
    /\ UNCHANGED <<event, hidden, now>>

\* Mutant: the author is missing from the UPDATE's condition.
WriteDeletionOfAnyone(n) ==
    /\ ~Ignored(n)
    /\ IsDeletion(n)
    /\ event' = event \cup {n}
    /\ hidden' = hidden \cup
          {r \in event : ~IsDeletion(r) /\ \E s \in Spelling : <<r, s>> \in ETags(n)}
    /\ announced' = {n}
    /\ received' = received \cup {n}
    /\ UNCHANGED now

\* A deletion request is stored and the author's events it names are hidden.
WriteDeletion(n) ==
    /\ ~Ignored(n)
    /\ IsDeletion(n)
    /\ event' = event \cup {n}
    /\ hidden' = hidden \cup {r \in event : HiddenBy(r, n)}
    /\ announced' = {n}
    /\ received' = received \cup {n}
    /\ UNCHANGED now

\* Mutant: the count is not reset for an event its author has already deleted.
WriteOrdinaryCountKept(n) ==
    /\ ~Ignored(n)
    /\ ~IsDeletion(n)
    /\ \E kept \in Survivors(event \cup {n}, n) :
         /\ event' = kept
         /\ hidden' = kept \cap (hidden \cup {r \in {n} : AlreadyDeleted(r)})
    /\ announced' = {n}
    /\ received' = received \cup {n}
    /\ UNCHANGED now

\* Any other event is stored in place of those it replaces; it is hidden, and
\* reported as not new, when its author has already deleted it.
WriteOrdinary(n) ==
    /\ ~Ignored(n)
    /\ ~IsDeletion(n)
    /\ \E kept \in Survivors(event \cup {n}, n) :
         /\ event' = kept
         /\ hidden' = kept \cap (hidden \cup {r \in {n} : AlreadyDeleted(r)})
    /\ announced' = {r \in {n} : ~AlreadyDeleted(r)}
    /\ received' = received \cup {n}
    /\ UNCHANGED now

WriteEvent(n) == WriteIgnored(n) \/ WriteDeletion(n) \/ WriteOrdinary(n)

\* Ten attempts met a busy database: the transaction is rolled back, the caller
\* reports an error and forgets the event.
WriteFails ==
    /\ announced' = {}
    /\ UNCHANGED <<event, hidden, now, received>>

\* Mutant: flags of removed rows are left behind.
DeleteExpiredKeepsFlags ==
    /\ event' = {r \in event : ~Expired(r, now)}
    /\ announced' = {}
    /\ UNCHANGED <<hidden, now, received>>

\* delete_expired, run by cleanup_expired under the write lock.
DeleteExpired ==
    /\ event' = {r \in event : ~Expired(r, now)}
    /\ hidden' = {r \in hidden : ~Expired(r, now)}
    /\ announced' = {}
    /\ UNCHANGED <<now, received>>

Tick ==
    /\ now < MaxTime
    /\ now' = now + 1
    /\ announced' = {}
    /\ UNCHANGED <<event, hidden, received>>

Next ==
    \/ \E n \in Id : WriteEvent(n)
    \/ WriteFails
    \/ DeleteExpired
    \/ Tick

Spec == Init /\ [][Next]_vars

-----------------------------------------------------------------------------
(* Properties. *)

\* What a query may return, until it expires (query_from_filter).
Shown == event \ hidden

\* One version of a replaceable event is stored per author and kind.
OneReplaceable ==
    \A e, f \in event : IsReplaceable(e) /\ SameAuthorKind(e, f) => e = f

\* One version of a parameterized replaceable event is stored per author, kind
\* and d value, for events whose d tag has a value.  Other events may carry the
\* same value in a further d tag.
OneAddressable ==
    \A e, f \in event :
        /\ IsParamReplaceable(e)
        /\ SameAuthorKind(e, f)
        /\ DistinctParam(e) = DistinctParam(f)
        /\ DistinctParam(e) \in DValues(e) \cap DValues(f)
        => e = f

\* A stored deletion keeps its author's event out of every query, whichever of
\* the two arrived first.
DeletedStaysHidden ==
    \A e, d \in event : DeletionOnRecord(e, d) => e \in hidden

\* g is a version of the same address as e and not older.
Overrides(g, e) ==
    g # e /\ SameAddress(g, e) /\ CreatedAt(g) >= CreatedAt(e)

\* g and e have different addresses, but one has the other's d value in a further d
\* tag: persist_event, which looks for the value in the tag table, takes them for
\* versions of one address.
TakenForVersion(g, e) ==
    /\ IsParamReplaceable(e) /\ SameAuthorKind(g, e)
    /\ DistinctParam(g) # DistinctParam(e)
    /\ DistinctParam(g) \in DValues(e) \/ DistinctParam(e) \in DValues(g)
    /\ CreatedAt(g) >= CreatedAt(e)

DeletedByAuthor(e, d) ==
    /\ IsDeletion(d) /\ AuthorOf(d) = AuthorOf(e)
    /\ \E s \in Spelling : <<e, s>> \in ETags(d)

\* No event is lost: whatever was written can be queried until it expires, unless
\* its own author deleted it or published a newer version at its own address.  A
\* mistake in any DELETE or UPDATE of persist_event, or a deletion honoured for
\* another author, loses one.  Exception: an event the code loses to one at another
\* address, which takes a second d tag; nobody meant that to happen.
NothingLost ==
    \A e \in received :
        \/ e \in Shown
        \/ Expired(e, now)
        \/ \E g \in received :
              Overrides(g, e) \/ DeletedByAuthor(e, g) \/ TakenForVersion(g, e)

\* A row is hidden only because its author asked for it.
HiddenMeansDeleted == \A e \in hidden : \E d \in received : HiddenBy(e, d)

\* The inductive invariant behind the theorems: NothingLost needs to know that
\* rows were received and why they are hidden.
StoreInv ==
    /\ TypeOK
    /\ event \subseteq received
    /\ OneReplaceable
    /\ OneAddressable
    /\ DeletedStaysHidden
    /\ HiddenMeansDeleted

\* Live subscribers hear of exactly the events that become queryable: a query
\* followed by the broadcasts misses nothing and invents nothing.
AnnouncedExactly == [][announced' = Shown' \ Shown]_vars

\* The rows write_event reports as added have been added.
AnnouncedIsStored == announced \subseteq Shown

\* An event is broadcast once, however often and by whomever it is written.
AnnouncedOnce == [][announced' \cap received = {}]_vars

-----------------------------------------------------------------------------
(* The store implements RelayStore when no event leaves it by expiring, every  *)
(* parameterized event has exactly one d tag, with a value, versions of one    *)
(* address differ in age, and deletions spell ids as their authors do.         *)

RegularContent ==
    /\ \A e \in Id : ExpiresAt(e) = NoExpiry
    /\ \A e \in Id : IsParamReplaceable(e) =>
                        Len(DTags(e)) = 1 /\ DTags(e)[1] # NoValue
    /\ \A e, f \in Id : e # f /\ SameAuthorKind(e, f) => CreatedAt(e) # CreatedAt(f)
    /\ \A d \in Id : \A e \in Id : <<e, "upper">> \notin ETags(d)

\* No event has its own d value in two d tags.
NoRepeatedParam == \A e \in Id : ~RepeatsValue(e, DistinctParam(e))

Relay == INSTANCE RelayStore WITH shown <- Shown

\* The inductive invariant of the refinement.  Its third conjunct, that every
\* received event is stored or superseded by a stored one, is what keeps an older
\* version from being taken for the newest.
RelayInv ==
    /\ event \subseteq received /\ received \subseteq Id
    /\ \A e \in event, g \in received : ~Supersedes(g, e)
    /\ \A g \in received : \E r \in event : r = g \/ Supersedes(r, g)
    /\ hidden = {e \in event : \E d \in received : HiddenBy(e, d)}

\* Order of arrival, repetitions and retries do not change what the store shows.
ImplementsRelay == Relay!Spec

=============================================================================
