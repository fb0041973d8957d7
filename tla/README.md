# nostr-rs-relay: TLA+ models, checks and proofs

nostr-rs-relay is a Nostr relay: clients connect over WebSockets, publish signed
events, and subscribe to events by filters.  Events are kept in SQLite.  This
directory holds TLA+ modules translated from the Rust sources (`src/src/...`),
the TLC configurations that check them, and TLAPS proofs of every safety property
that the passing runs check: of the event store, subscriptions, queries, payments, NIP-05
verification, publishing and schema migration.
`PROJECT.json` maps every definition to the lines it models and lists the runs,
the hazards, the findings and the theorems.

Contents: 1 inventory, 2 modules and how they correspond to the code, 3 runs,
bounds and what they show, 4 fairness and what is assumed of the surroundings, 5
proofs, 6 findings and known divergences, 7 what is not modelled, 8 plan.

## 1. Inventory

| component | source | state | operations | talks to |
|---|---|---|---|---|
| connection task | `server.rs` nostr_server, `conn.rs`, `subscription.rs`, `close.rs` | subscriptions, running queries, auth state, counters, last message time | REQ, CLOSE, EVENT, AUTH, ping, disconnect; sends results, broadcasts, notices | submits events to the writer; starts queries; receives the broadcast |
| query threads | `repo/sqlite.rs` query_subscription | permits, `checkpoint_in_progress`, one bounded channel and one abandon channel per connection/query | read each filter, check for checkpoint and abandonment every 100 rows, push rows, EOSE | connection task, checkpoint task, SQLite snapshots |
| checkpoint task | `repo/sqlite.rs` db_checkpoint_task | `checkpoint_in_progress` | stop readers, checkpoint the WAL | query threads |
| database writer | `db.rs` db_writer | rate limiters, allow lists | admit, write, broadcast, charge, notify | connections, store, payment task, NIP-05 verifier, gRPC service |
| event store | `repo/sqlite.rs` | tables event and tag | write_event, delete_expired, queries | writer, verifier, payment task |
| pay to relay | `payment/*.rs`, endpoints in `server.rs` | tables account and invoice, message channel | new account, check account, invoice paid, admit, charge | Lightning node over HTTP, writer |
| NIP-05 verifier | `nip05.rs` | table user_verification | verify new metadata, re-verify, write metadata events | web servers, store, writer |
| kind filters | `kind_filters.rs`, `notice.rs` | none | decide who may publish and receive an event, and what the answer is called | configuration, writer, connection task |
| filters of subscriptions | `subscription.rs`, `query_from_filter` in both stores | none | parse, match live events, make SQL queries | connection task, query threads |
| authentication | `conn.rs` | challenge, authenticated key | send challenge, check AUTH event | connection task |
| migration | `repo/*_migration.rs` | schema version | upgrade step by step | SQLite, PostgreSQL |
| PostgreSQL store | `repo/postgres.rs` | the same tables | the same trait | the same |
| admission service | `nauthz.rs` | none | one gRPC call per event | writer |
| parsing, configuration, notices, errors, pages | `event.rs`, `config.rs`, `info.rs`, ... | none | pure functions, I/O | everything |

### What is hard, and what makes each part correct

* **Event store.** Any event may arrive at any time: again, after a newer
  version, before or after the deletion that names it, after it expired.  Several
  `DELETE` and `UPDATE` statements on one table must hit exactly the rows they
  are meant for.  Correct when one version per address is stored, deletions hold
  whatever the order, nothing else disappears, and what is broadcast is what
  became queryable.
* **Connection and queries.** One task waits for many things; while it waits for
  a reader permit it receives nothing.  Threads share a bounded channel, a
  semaphore and a lock used as a flag; they can be abandoned, pre-empted, shed,
  or dropped for slowness.  Correct when stored and live events leave no gap,
  EOSE is sent only for a complete answer, abandoned queries stop, and nobody
  waits for ever for anyone but its own client.
* **Pay to relay.** One payment is noticed several times by several paths; each
  database call commits separately; the writer charges the same accounts; errors
  and crashes fall between two calls.  Correct when a payment is credited once,
  only payers are admitted, balances add up and payers are admitted.
* **Writer.** A long pipeline of early returns around shared limiters, between two
  bounded channels; an error in one place ends the task.  Correct when it waits for no
  connection, limits hold although rules refuse events that others have counted, an OK
  is the truth, and a submission waits for nobody but the service and the scripts the
  operator configured.
* **Authentication and access.** A challenge belongs to one connection; the key proved
  with it is copied into every submission and looked at again, by another task, for every
  event sent.  Correct when restricted kinds pass only where the rules of kinds.json allow
  it for the key that was proved, whichever way an event takes and however long it waits.
* **Filters.** Three implementations of one relation over different data.  Correct when
  following a subscription is as good as asking again.
* **NIP-05.** Records cascade with the metadata event they cite; two tasks write
  the same events; the table is a cache of what web servers said earlier.  Correct
  when an event is admitted only for a confirmation that still counts, a name vouches
  for one author, and names that are gone are forgotten.
* **Migration.** Every start runs the scripts from the version the database claims;
  each is a sequence of statements, most of which commit on their own, and a crash or a
  failure may fall between any two.  Correct when a database that claims to be current is, and no
  event is lost or becomes invisible on the way.

`PROJECT.json` lists the hazards line by line with the properties that cover them.

## 2. Modules

| module | models | state |
|---|---|---|
| `Events` | event fields, classes of kinds, d values, deletion matching, expiry | none: content is a constant function of the id, which is a hash |
| `RelayStore` | abstract specification of the store | events received, events shown |
| `EventStore` | write_event / persist_event, delete_expired, what the caller announces | event rows, hidden flags, clock, announcement; history `received` |
| `EventStore_proofs` | theorems about `EventStore` | |
| `FilterMatch` | parsing of filters, the live match, the queries of both databases, over `EventStore` | none of its own |
| `FilterMatch_proofs` | the theorem about `FilterMatch` | |
| `MCEventStore` | catalogues of events and filters | |
| `ReqQuery` | one connection, its query threads, checkpoints, a writer | see below |
| `ReqQuery_proofs` | theorems about `ReqQuery` | |
| `MCReqQuery` | catalogues of subscriptions | |
| `Payment` | payment task, accounts, invoices, Lightning node, writer's charges | account, invoice, node, queue, what is left of the handler, pending charge |
| `PaidAccess` | abstract specification of paying | invoices issued, authors admitted, balances |
| `Payment_proofs` | theorems about `Payment` | |
| `Verification` | NIP-05 verifier, its table, web servers, the writer's check | profile, record, queue, what the verifier is doing, pending write, web |
| `Verification_proofs` | theorems about `Verification` | |
| `MCVerification` | catalogues of profiles | |
| `KindFilter` | kinds.json: access rules, requirements on fields, reasons of refusals, allowed_to_send | none: functions of event, key, time, configuration |
| `Publish` | connections' EVENT and AUTH, submissions, the whole database writer, answers and broadcasts | connections, proved keys, three kinds of channels, writer, rate windows, stored events |
| `Publish_proofs` | theorems about `Publish` | |
| `MCPublish` | events, AUTH events, configurations | |
| `Migration` | the upgrade scripts of both databases | the database as the connection sees it and as it is committed (version, schema, rows, what is hidden and tagged), the script under way and its next statement |
| `Migration_proofs` | theorems about `Migration` | |
| `MCMigration` | four events | |

**EventStore.**  `write_event` holds the `write_in_progress` lock around one
transaction, so a call is one step.  Its three outcomes are three actions:
`WriteIgnored` (an equal or newer version, or the id, is present: 0 rows),
`WriteDeletion` (kind 5) and `WriteOrdinary`; `WriteFails` is the tenth busy
error.  `Survivors` renders the two `DELETE` statements with their SQL meaning:
`LIMIT 1` without a tie-break is a nondeterministic choice of a newest row, and
the join of event and tag counts an event once per matching tag.  `hidden` is
kept in step with the cascade.  `announced` is what db_writer broadcasts and
acknowledges, which it decides from the returned row count.

The address of a parameterized event is its first d value (`SameAddress`, from
distinct_param), while `persist_event` looks for that value in the tag table, where
every d tag of an event has a row.  `ParamVersions` and `ShadowedParam` do what the code
does; `Overrides` in `NothingLost` says what it should do, and `TakenForVersion` is the
difference: an event lost to one at another address.

Two spellings of an id in an e tag are kept apart since the two statements about
deletions differ: the `UPDATE` compares decoded bytes, the lookup compares text.

**ReqQuery.**  `conn` says where the connection task is: in its `select!`
(`select`), awaiting a permit inside query_subscription (`permit`), or gone
(`closed`).  `subscriptions` and `running` are the two maps of the code.  A
request is a record in `query` with the phase of its thread:

    permit -> spawned -> entering -> reading -> probing -> sending -> checked -> ... -> ending -> done
                           |  shed,      |  failed      | cancelled   | slow
                           |  cancelled  |              | preempted   | preempted

`entering` and `probing` are the instants in which a thread holds
`checkpoint_in_progress` (`blocking_lock` on entry, the temporary guard of
`try_lock` at each check).  `checked` separates `capacity()` from
`blocking_send`.  The permit is held from `spawned` to `checked`, not while the
EOSE is sent.  Each filter reads a snapshot of its own.  A `QueryResult` carries a
subscription id and nothing else, so `results` holds pairs of an id and an event or EOSE,
and `SendResult` gives each to the client for the last request under that id (`Latest`),
whichever query sent it.  `client`, `lagged` are history: what the client has received for
each request, whether its id was free when it asked (`clean`), and what the broadcast
channel overwrote.

**Payment.**  A handler of the payment task is split where it calls the Lightning
node or the database again: a step per committed call (`HandleNewAccount`,
`HandleCheckAccount`, `HandleInvoicePaid`, then `GetInvoice` or `Admit`).
`HandlerFails` ends a handler between two steps, `NodeSilent` is a request to the node
that never returns (neither processor sets a time limit), `Crash` loses the queue and the
handler.  Callbacks come at most `MaxCallbacks` times and need not come at all: LNBits is
given a webhook, cln_rest is not.  The writer reads the account in `Post` and debits in `Charge`.
`credits` and `spent` are history.

**Verification.**  `record` is the table user_verification, keyed by the event a
row cites; `profile` is the stored kind 0 event of each author.  The verifier is
one task, `task`, with a step per database call or web request: `Receive` ->
`CandidateChecked` -> (`Persist`, in enabled mode) -> `Create`, or `Recheck` ->
`Rechecked` -> `Renew`, `Fail` or `Drop`.  The writer reads the table in `Admit`
or `Refuse` and writes the event in a later step, `Write`; both tasks store
profiles through `Store`, where the foreign key takes the record along.  `web` is
what the servers would answer now.  Time is abstracted: `Lapse` says that
verify_expiration has passed since a confirmation, `Recheck` that a record is due.
`Restart` changes the mode and the denied domains.  `Stall` is a server that sends headers
and no body: the five seconds of nip05.rs:225 end with the headers, and the verifier waits.
`confirmed` and `rejected` are history.

**KindFilter and Publish.**  Each connection is a task: `select` (in its loop),
`submitting` (in `event_tx.send(..).await`, where it receives nothing), `stuck` (in
`ws_stream.send(..).await`, with a client that does not read) or `closed`.  The writer goes

    top -> recv -> write -> charge -> sleep -> top
           |  |      |         |
           |  |      |         ended
           |  |      duplicate, error
           |  refused
           outside (for ever)

where `top` and `recv` are apart because the shutdown signal is looked for at the top
only and `recv` waits.  `Judge` is the pipeline of early returns: each stage may answer
with `pass` or a status, `Verdict` takes the first that does not pass, and only when all
pass are the sliding windows asked (`AskRules`), in order, each counting the event before
the next is asked.  What the modules of accounts, NIP-05 and the admission service answer
is any of their answers; `Stall` is a service or a script of a write rule that does not
answer.  `Write` has five outcomes: ephemeral, known or superseded (`WriteKnown`), deleted
before it came (`WriteDeleted`: stored hidden, answered "duplicate" with true, broadcast to
nobody), new, failed.  `Notify` is try_send: without room the answer is gone.
`KindFilter` holds every decision of kinds.json; tags are kept as in the event, regular
expressions and scripts as the sets they accept.  A reason is its prefix, since the
prefix decides the status and whether OK says true.  `told`, `sent`, `aired`, `owed`,
`admitted` and the `proved` of a submission (the keys that had signed for its connection
by then) are history.

**FilterMatch.**  A filter keeps of each text what the two uses of it ask: the ids or keys
it is the beginning of (live match) and the one it decodes to (queries).  `ParseFilter`
follows deserialize: values of the wrong type are dropped, tag names of several characters
force no match.  The module EXTENDS `EventStore`, so that answers of queries and broadcasts
are compared over every sequence of writes.

**Migration.**  A script is a sequence of statements and `Execute` is one of them.  SQLite's
`execute_batch` commits statement by statement unless it meets BEGIN; within a transaction
`db`, what the connection sees, runs ahead of `disk`, what is committed, and a fault falls
back on `disk` (`Disconnect`).  Statements act on a set of names (tables, columns, indexes)
and on the rows (`Possible`, `Result`).  Before version 12 nothing was replaced, so an
address may have several events, created at once too; `RowOrder` is the order in which a
query finds those, and LIMIT 1 keeps the first (`Displaced`).  `Fails` is a failing statement, `Crash` the end of
the process.  With SQLite a panic ends only the task of build_sqlite_pool, whose result is
dropped, and the relay serves what there is (`Abandon`); with PostgreSQL it stops.

**How the modules compose.**  `EventStore` INSTANCEs `RelayStore` with the mapping
`received <- received, shown <- Shown`, and `ImplementsRelay` is the refinement.
`Payment` INSTANCEs `PaidAccess`: an invoice is in the state the node says until it is
credited, an author without account has no balance, and queue, handlers, callbacks and the
writer's pending charge are hidden; `ImplementsAccess` is the refinement.
`ReqQuery`, `Payment` and `Verification` each contain the part of the database
writer and of the store they interact with, as steps of their own: `Commit` and
`Broadcast` in `ReqQuery`, `Post*` and `Charge` in `Payment`, `Admit`, `Refuse`,
`Write` and `Store` in `Verification`.  `Publish` has the writer itself, with the
others' answers as any of those they can give, and EXTENDS `KindFilter`.  `FilterMatch`
EXTENDS `EventStore`.

## 3. Runs, bounds and what they show

Every property of a passing run is also checked against a mutant of the model, an
operator with a plausible mistake (marked `Mutant:` in the modules), which must
violate it.

| run | instance | states | shows |
|---|---|---|---|
| `store_mixed` | 8 events by 2 authors: two versions of a profile, three of addressable events (one with two d tags), a d tag without a value, two expiring events, deletions of own and foreign events, an id in upper case; 47 filters, well formed and not; clock 0..1 | 4,696 | uniqueness, deletions, no loss, exact announcements; following a subscription is as good as asking again |
| `store_relay` | 9 regular events: three versions of one address, two of another, a third address, a note, deletions by both authors | 4,096 | `ImplementsRelay`: what the store shows depends on the set received only; nothing is announced twice |
| `store_repeated` | 3 events, one with its d value in two tags | small | finding 1 |
| `req_queries` | 2 requests of all kinds, 3 ids (one too long), one subscription allowed, 1 permit, channels of one slot, one event, read by one filter or by two, a check before every row; fairness | 273,454 | no gap, honest EOSE, abandonment; only the circular wait keeps a query or the connection from going on |
| `req_preempted`, `req_stalled` | one event; two permits for the first, one subscription asked for three times, with CLOSE between, for the second | until found | findings 2 and 3 |
| `payment` | 2 authors, 2 invoices, 2 callbacks per invoice, 2 queued messages, one error, silent node or crash; fairness | 761,732 | `ImplementsAccess`: single credit, only payers admitted, nothing overwritten; one invoice at a time; payers get admitted once the relay is told or asked |
| `payment_twice` | one author, one callback per invoice, nothing fails | small | finding 4 |
| `verification` | 2 authors, 2 names, 3 profiles, one other event, a name that may be denied, 1 failure allowed, channel of one slot, one error or restart, bodies that never come; fairness | 256,464 | late answers do not count, only confirmed authors admitted, one author per name, silent servers forgotten |
| `verification_candidates` | one profile, no error or restart; fairness | 2,970 | finding 5 |
| `writer` | 2 connections, 3 keys, 22 events, 3 AUTH events, 29 configurations of up to 3 messages each, every channel of one slot, clock 0..1, up to 2 errors, lost or stuck connections, waits that do not end or shutdowns; fairness | 97,825 | access, limits, truth of answers; no submission or answer waits for another client |
| `migration` | 4 events, three of them versions of one address, two created at once; every version of both engines, 2 faults | 5,657,384 | complete schema, tags and events kept, scripts repeatable |

Why the bounds are enough to mean something:

* The store's rules relate an event to the versions of one address and to the
  deletions of one author.  Three versions give an oldest, a middle and a newest
  in any order of arrival; a second author and a second address show that the
  `DELETE` statements do not reach further, but for the event with a second d tag, which
  takes one at another address (`TakenForVersion`).  What is left after the bounds is
  proved (section 5).
* In `ReqQuery` every conflict needs two threads and one shared resource: two
  requests, one permit and channels of one slot are the smallest instance in which
  each of them is contended.  The stall of finding 3 needs a third request and is
  given to its own run, which refutes `QueriesEnd`; `OthersEnd` and `OthersServe`, which
  `req_queries` checks instead, name that stall (`CircularWait`) and say that there is no
  other.  `CheckEvery` stands for 100 rows, `MaxSubs` for 32:
  a query of one event looks before its row, so `CheckEvery` is 1 here and arbitrary in
  the proofs (section 5).
* In `Payment`, two invoices of one author let a late payment meet a new invoice,
  and two callbacks let a duplicate be delivered.  `MaxQueue`, `MaxCallbacks` and
  `MaxDisruptions` bound the guards of `Tell`, `Callback` and of errors and
  crashes.
* In `Verification`, one author moves from one name to another and a second one
  claims the first name, so names change hands and records are replaced while the
  verifier waits.
* In `writer`, the rules do not depend on one another except in which of them comes first,
  so each of the 29 configurations turns on one feature of the pipeline and has the
  messages that tell its cases apart: every stage refuses and lets pass in some
  configuration.  Two connections from one address give a key for each and a replay of a
  challenge over the other; one slot in each channel makes a submission wait, a notice get
  lost and a broadcast overtake.  The clock has two values since a window, an expiry and a
  time limit are each met before and after; two versions of one address, replaceable and
  addressable, give a duplicate by supersession.
* In `migration`, every version a database may claim is an initial state, for both engines,
  with every set of rows such a version can hold; two faults interrupt the same script
  twice, or two scripts.  An older version, two newer ones created at once and a note are
  enough to tell hiding and deleting, ascending and descending order and ties apart; a tie
  with a hidden row, which is `Eclipsed`, is among the initial states.
* The filters of `store_mixed` cover each condition of a filter alone and combined: absent,
  empty, of the wrong type, matching, not matching, ids in upper case, tag names of several
  characters, the author and the delegator of a delegated event.

`CHECK_DEADLOCK FALSE` is set for `ReqQuery`, `Payment`, `Publish` and `Migration`, where
the clients, the writer, payers and the node may stop, a migration is done, and the
bounds stop them.

## 4. Fairness, and what is assumed of the surroundings

Fairness is what the runtime owes: a task or thread that can go on does.  Nothing is
assumed of anyone outside who might not answer, with one exception, which is named.

* **Event store, migration**: none; no liveness is claimed.
* **Queries** (`Fairness` in `ReqQuery`): weak fairness of taking a free permit; weak
  fairness of each thread, a blocking thread of the runtime; strong fairness of `Enter`,
  since other threads hold `checkpoint_in_progress` for instants again and again while
  tokio's mutex hands itself out in order of arrival; weak fairness of the end of a
  checkpoint.  `ClientReads` is the exception: weak fairness of `SendResult`.
  `ws_stream.send(..).await` (server.rs:1254, 1260) has no time limit, so a client that does
  not read and does not break its connection keeps the loop, and with it the queries of
  that connection, for ever; `OthersEnd`, `OthersServe` and `QueriesEnd` are about clients
  that read.  The client owes no request and the writer no event.
* **Payments**: weak fairness of the payment task.  Nothing is assumed of callbacks, of
  visits, of payers or of the node's answers: `PaidGetsAdmitted` starts where the relay has
  been told or asked, and a node that does not answer counts as a failure (`NodeSilent`).
* **Verification**: weak fairness of the verifier's own steps, which `Stall` disables for
  ever, and strong fairness of the check of each record: get_oldest_user_verification picks
  the record that waited longest, and `select!` is random between candidates and the timer.
  Web servers owe nothing; `ForgetsTheSilent` excepts a verifier that waits.
* **Publishing** (`Fairness` in `Publish`): weak fairness of the writer, a task that always
  goes on once it can; weak fairness of a submission that waits for room in the channel,
  which tokio serves in order; strong fairness of sending a notice, since the branch of
  `select!` is there whenever the loop is, but the loop is away while it submits.  None of
  them holds for a connection that is `stuck` or a writer that is `outside`, which `Stick`
  and `Stall` may cause at any time.  Clients owe nothing, and nothing is assumed of rates,
  of lost connections or of shutdown.

## 5. Proofs

`EventStore_proofs`, `FilterMatch_proofs`, `ReqQuery_proofs`, `Payment_proofs`,
`Verification_proofs`, `Publish_proofs` and `Migration_proofs` are checked by TLAPS for all
values of the constants that satisfy the modules' assumptions.  Between them they state
every invariant and every action property that a passing run checks, and both
refinements.

**Event store.**  `StoreInv` adds to the properties that rows are events received
and `HiddenMeansDeleted`: a row is hidden only because of a deletion *received*, not
one still stored.  Without the first conjunct `NothingLost` cannot speak about
`received`; the second is what makes a hidden row accounted for.  The work is in
`SurvivorsLemma`, which says what the two `DELETE` statements leave for any table and
any new event: never more than what was there and the new event, one version per
address, and nothing of another address.

* `UniqueReplaceable`, `UniqueAddressable`, `DeletionIsPermanent`, `TypeCorrect` need
  only `EventsAssumption`: what the fields of an event are.
* `NoEventIsLost` and `BroadcastMatchesStore` assume `NoRepeatedParam`: no event
  carries its own d value in two d tags.  `store_repeated` shows that without it they
  are false.  `NothingLost` names one loss the code causes, `TakenForVersion`;
  `OneTagOneAddress` proves that it takes an event with two d tags.
* `StoreImplementsRelay` assumes `RegularContent`: no expiry, one d tag with a value
  per addressable event, versions of different ages, no ids in upper case.  `RelayInv`
  ties the rows to a closed formula of `received`, after which each step of the store
  is a step of `RelayStore` or a stutter.
* `BroadcastOnce` uses `RelayInv` the other way round: what was received is stored or
  superseded by a stored version, so it is ignored when it comes again.  It assumes
  `RegularContent` too, and needs it: a row that expired, or that fell to another of its d
  values, is forgotten, and a copy that is presented later is broadcast again.

**Filters.**  `FollowersMissNothing` compares the two readings of a filter condition by
condition: on texts spelled in full a prefix is an equality (`ExactTexts`), so each query
selects what the live match reports and the reverse, but for the exceptions named in
`FollowingMissesNothing` (one lemma for each direction and each database).  That the
difference of two answers is what was broadcast is `BroadcastMatchesStore`; that a row
does not return after it expired is `ExpiryIsFinal`.  It assumes `NoRepeatedParam`.

**Payments.**  `PayInv` is inductive; the properties alone are not.
`CreditedOnce` needs `CreditedIsPaid` (an invoice once credited is no longer Unpaid
in the table, which is what `update_invoice` looks at); `AdmittedHasPaid` needs
`AdmitsPayer` (an admission under way is of an author who paid); `Ledger` needs
`NoDebtWithoutAccount` and `Numbered` (invoices are numbered without gaps, so a new
one adds nothing to the credits); `OneOpenInvoice` needs `OpenOnce` and `StatusLags`,
with the caveat in its own statement that nothing failed.  `PaymentInvariant` is
proved action by action; the rest follow from it.  `PaymentImplementsAccess` needs one
fact more, `ChargesAdmitted`: the writer read the account before it charges, and in between
the author was not dismissed.  `UpdateInvoice` is a step of `PaidAccess` exactly when it
credits, since `CreditedIsPaid` says the abstract invoice was paid and not yet credited; all
steps of messages, handlers, errors and restarts are stutters.

**Verification.**  `VerInv` adds four facts to the properties.  A record cites the profile
its author has (`RecordCitesProfile`, the foreign key), so that an answer about a profile
the writer has replaced finds no row to make valid: `AnswersForTheStoredProfile` is that
fact after each step.  A record that counts as current is of a confirmation that counts (`CurrentIsConfirmed`), from which
`AdmissionNeedsVerification` follows, an action property.  While the verifier checks a
record, its author has no other (`RecordUnderCheck`): the record may be gone with its
profile when the answer arrives, but no new one can have appeared, so withdrawing the
confirmation in `Drop` takes it from nobody else, and `Fail` counts from the number
that was read.  A candidate under way has a usable name (`CandidateNamed`).  The
proof is uniform: `TaskStep` for steps that leave the tables alone, `StoreStep` for
profiles written by either task, `RecordStep` for the verifier's updates.

**Queries.**  `QueryInv` holds for any subscriptions, numbers of requests and permits,
and capacities (`ReqQueryAssumption`).  Its heart is `CoveredQuery`: what a query that
may still succeed owes its client has been received, is in the channel, or is still to be
read, as rows at hand or by a later filter (`Rest`); what was committed since it asked may
also be on its way with the feed, unless the connection lost it there.  The invariant is
preserved because a filter is read from what is stored *now*, a superset of what was
stored before, and because a commit enters `unsent` in the same step.  `EoseComplete` and
`NoGapTheorem` are the two ends of it: with the EOSE received nothing is in the channel
(`Ordered`: it is the last item of its query), with everything empty nothing is on its
way.  As results are told
apart by their id alone, `Ordered` speaks of the last request of an id that was free when it
came (`clean`).  `PunctualQuery` bounds the rows sent to nobody by the position of the row counter,
for `AbandonedStops`.  `Tracked` with `Maps` says that the loop's two maps are equal, of
which `AbandonedWhenUnwanted` is a part.  Steps of a thread go through `MoveLemma`, and
then `SilentStep` or `SentStep`; requests through `RequestStep`; what reaches the client
through `DeliveryStep`.

**Publishing.**  The identity of a connection travels: it is proved in `Auth`, copied into
every submission, looked at again by the writer and by `allowed_to_send`.  `PubInv` says of
each place where it is kept that it is a key that signed for that very connection
(`Trust`), on top of what each task, connection and channel is doing (`Control`,
`Connections`, `Channels`, `Records`); `Safe` is the two access properties, which speak
of history and follow from `Trust` at the step that records it.  `OnlyEntitledPublish` and
`OnlyEntitledReceive` therefore hold for every configuration.  They state the rules of
kinds.json declaratively (`MayPublish`, `MayReceive`: script, deny rule, allow rule,
privileged, require_auth, direct messages) for some key proved over the connection or for
none, with the reading of lists that the code has: a list that names the author of an event
speaks for everybody (section 6).  `AcceptingAnswersTrue` assumes `Truthful`: no configured
or external text begins with "duplicate: ", since the answer to an event says true for that
prefix (see section 6).

`WindowsHold` proves `RateRespected` for any rules.  A limiter keeps a bucket of times and
forgets the leading ones that have left the window, so the invariant `Rates` is not that
the bucket equals the history: it may hold more, because an event counts with every rule
asked before the one that refuses it.  It says that the admissions still in the window
have places of their own in the bucket, at the times they were admitted (`Placed`, an
injection).  Forgetting expired times shifts the places (`WithoutFirst`, `ShiftedBack`) and
takes none of them; a check that passes finds fewer times than the limit, hence fewer
admissions.

**Migration.**  A script is data, so what makes it safe to interrupt is stated once, as
`WellOrdered(e, v, s)`: of script `s`, which takes engine `e` from version `v` onwards, it
says what comes before what.  The version is set after all that is due has been created and
nothing due is dropped; a table of tags is dropped only inside a transaction that rebuilds
it; a column is added by one script only, before the version is set.  Each of the 22
scripts is shown to be well-ordered, and INIT_SQL, which sets the version first, to be
`InitOrdered`.  The rest speaks of one statement of one such script:

* `Position`: where the script is tells the version, and the disk has this version or the
  one before; a database cut in INIT_SQL is never touched again.
* `Complete`: a database has what its version is due (`Due`), and during a script also
  what that script has made so far.  `CurrentHasAll` is its last version.
* `New`: a column is there before its script has set the version only if that script was
  begun and cut.  With `Complete`, which rules out that a table is missing,
  `ScriptsRepeat` follows: only an ADD COLUMN of a script that was cut can be refused.
* `Shown`: of each event shown at first and not eclipsed, it or one at least as new is shown
  and is the first of its address, in what the connection sees and on disk.  That is
  stronger than `NothingShownLost`, which is not inductive: `LIMIT 1` keeps the first of all
  rows of an address, which must not be hidden already.  That there is a first is
  well-foundedness of `RowOrder` (`Least`), which `MigrationAssumption` asks to tell events
  created at once apart.
* `Blank` and `Tagged`: a database of version 0 is empty, and the tags of shown events are
  there, except within the transaction of mig_15_to_16 and between m002 and rebuild_tags.

That a database which is found has all of this, for every version it may have, is proved
from the scripts too (`SchemaDue`, `SchemaNew`).

TLC found the parts of `StoreInv`, `QueryInv`, `PayInv`, `VerInv`, `PubInv` and of the
invariant of `Migration` to hold on small instances before they were proved.  Not proved,
and left to TLC: the liveness properties `OthersEnd`, `OthersServe`,
`PaidGetsAdmitted`, `ForgetsTheSilent`, `SubmissionReturns` and `EveryEventAnswered`, since
fairness and `ENABLED` are out of the prover's reach, and the properties of the runs that
expect a violation.

## 6. Findings and known divergences

Five runs refute what a comment or a document says:

1. **An event can delete itself while it is inserted** (`store_repeated`,
   `repo/sqlite.rs:189`).  The `DELETE` for parameterized events joins event and tag,
   so an event with its d value in two d tags occupies two rows of the join; `OFFSET
   1` keeps the first and the second has the same id deleted.  The event is
   broadcast and acknowledged, and gone.
2. **Queries pre-empt one another without a checkpoint** (`req_preempted`,
   `repo/sqlite.rs:430`).  `try_lock` on `checkpoint_in_progress` also fails while
   another query holds the lock for an instant; the query ends without EOSE.
3. **A connection can stall for ever** (`req_stalled`, `repo/sqlite.rs:496`).  After
   the capacity check, another thread's EOSE takes the slot; the thread blocks in
   `blocking_send` with its permit, the connection waits for a permit inside
   query_subscription and does not empty the channel.
4. **A payment can be debited twice** (`payment_twice`, `payment/mod.rs:182`).
   `admit_account` runs whenever a paid invoice is noticed, by a check and again by
   the callback, while the credit happens once.  The balance becomes negative and
   cannot be read as `u64`, so the author's events are refused.
5. **In enabled mode nobody new is verified** (`verification_candidates`,
   `db.rs:406`).  The writer refuses the profile of an author without a record before
   it forwards profiles to the verifier, against docs/user-verification-nip05.md:182.
   With the forwarding moved before the refusal the property holds on the same
   instance.

The models follow the code below too, where it differs from what a document or a reader
expects.  No run refutes these; where a property would, it names the case as an exception,
which is given in brackets.

Store:

* The `DELETE` for addressable events (`repo/sqlite.rs:189`) compares any d tag of the
  stored events with the first d value of the new one, while an address has the first only
  (`distinct_param`, event.rs:186).  An event with several d tags can therefore remove, or be
  removed by, one at another address (`TakenForVersion` in `NothingLost`).
* An event whose deletion came first is stored hidden and write_event returns 0
  (sqlite.rs:221-243), so the author is told "duplicate" with true and nothing is
  broadcast (db.rs:886-888; `WriteDeleted`).
* A deletion that spells the id in upper case hides an event that is there, but not one
  that comes later: the look-up compares texts (`DeletionOnRecord` in `DeletedStaysHidden`).

Connections and queries:

* Rows and EOSE carry the subscription id only (sqlite.rs:497-500, 531-534).  When a client
  uses an id again before the old query has ended, it may take the old EOSE for the new
  one's (`clean` in `EoseMeansComplete`).
* A REQ equal to a registered subscription gets no EOSE (`ReqIgnored`), and a query
  without a database connection answers EOSE with no rows (`StartBlind`, `blind`).
* `ws_stream.send(..).await` has no time limit (server.rs:1246-1260): a client that does not
  read stops its own connection (`Stick`, `ClientReads`), and nobody else's.

Payments:

* The cln_rest processor registers no webhook, and the only endpoint is `/lnbits`
  (server.rs): a payment is noticed when its author is checked again.  Neither processor
  bounds its requests to the node (`PaidGetsAdmitted` starts at the callback or visit and
  ends with a silent node).
* An invoice's amount is the admission cost, which `admit_account` debits, so with
  `cost_per_event` > 0 an admitted author has nothing to pay for events with.
* A visit of `/account` by an admitted author without open invoice creates one.
* The direct message of sign-up is broadcast without its tag index, so live
  subscriptions by tag do not see it.

Verification:

* docs/user-verification-nip05.md:44-45, 103 and 149 let an earlier verification count until
  it expires, next to a newer one.  The foreign key of `user_verification` deletes the
  record with the replaced profile (`repo/sqlite_migration.rs:95`), so it ends at once
  (`Store`).  No property takes either side.
* A passive verifier whose web request outruns the writer finds the profile not yet
  stored, and drops the candidate with an error (`Create`).
* The five seconds of nip05.rs:225 end with the headers; the body (nip05.rs:270) is awaited
  without limit, and one server can stop the verifier (`Stall` in `ForgetsTheSilent`).

Access and publishing:

* An identifier in an `allow` list is met by the author of the event as well as by the
  authenticated key (kind_filters.rs:21), in write rules and in read rules: anybody may
  publish the event of a listed author unless `require_auth` is set, and the event goes to everybody,
  where KIND_FILTERS.md:96-100 and 130 speak of listed readers (`MayPublish`, `MayReceive`).
* The admission service (nauthz.rs:95-104, db.rs:437-446) and the script of a kind are
  awaited without limit by the one writer; the comment at kind_filters.rs:257 speaks of 5
  seconds, which lines 258-261 do not have (`Stall`, `WriterWaits` in `SubmissionReturns`
  and `EveryEventAnswered`).
* An answer is dropped when the connection's channel is full, and a debit that fails ends
  the writer (both exceptions of `EveryEventAnswered`); `events_per_minute = 0` stops it at
  start (db.rs:193).
* A second AUTH over a connection is answered OK and changes nothing.
* A configured `errors` text or a reply of the admission service that begins with
  "duplicate:" is answered with OK true, though KIND_FILTERS.md:439-440 says every
  rejection is OK false (`Truthful` in `AcceptingAnswersTrue`).
* An event counts in every limiter it passes, also when a later one refuses it, and a
  failing look-up of the NIP-05 record (db.rs:415) leaves the event without any answer.

Filters:

* README.md:24 and the comments at repo/sqlite.rs:987 and 1010 promise prefix search; the
  queries compare for equality, only the live match looks at beginnings.
* Ids and keys in upper case are found by queries and match no live event.
* PostgreSQL joins the conditions on several tags by OR, against subscription.rs:324, and
  returns at most 1000 rows.
* Conditions of the wrong type are dropped, so the filter matches more, while a tag name of
  several characters makes it match nothing.

Migration:

* The scripts abort when the database is newer than the program, but the panic is swallowed
  by `.ok()` (db.rs:60-65) and the relay serves.
* A database cut in the middle of the first script claims to be current and is never
  completed (`CurrentIsComplete`).
* PostgreSQL interrupted between m002 and `rebuild_tags` never rebuilds the tags
  (`TagsSurvive`).
* mig_1_to_2, mig_6_to_7 and mig_16_to_17 add a column and set the version in statements of
  their own: cut between the two they are refused at every later start, and the relay serves
  the old schema (`ScriptsCanBeRepeated`).
* mig_11_to_12 keeps one row of each address, LIMIT 1 over all rows in order of age.  Of
  versions created at once it hides all but one, and when the one it keeps was hidden
  already, the address has nothing left to show (`Eclipsed` in `NothingShownLost`).
* The DROP and CREATE of mig_15_to_16 (lines 708-709) have no IF EXISTS.  They are modelled
  as possible in every state, which they are: the script is one transaction, and the table
  is there in every database that reaches it (`Complete`).

PostgreSQL's write_event, read but not modelled: earlier deletions are looked up by
`t.value`, which is NULL for lower-case hex (postgres.rs:277), and a deletion without a
usable e tag yields `id IN ()`, an error of syntax.

## 7. Not modelled, and why

* Parsing, ids, signatures, delegation strings, JSON: functions on strings.
  Content is a constant; an id determines its event, and an event is valid or not.
* Pings, frames that do not parse, and the limit on subscriptions per minute: they end or
  answer in text and touch no other state.
* PostgreSQL's write_event and query_subscription.  Their transactions run several
  statements under READ COMMITTED, from two tasks without a common lock, so a model needs
  the visibility of each statement's rows, a database engine rather than this program.
* LIMIT and the choice of an index in queries: which rows qualify does not depend on them.
* The maintenance pool's other work (WAL size, metrics) and the sharing of connections
  between pools: the verifier alone waits for a lock with a connection in hand.
* The /invoice HTTP request, which waits for a message that may be lost, and the texts of
  the direct messages of sign-up.
* NIP-05 disabled mode (the verifier does not run and the writer does not look), the
  waiting times of the verifier, profiles that expire or are deleted.
* Start-up, TLS, pages, metrics, logging, configuration files: I/O and wording.

## 8. Plan

What would extend this development, in order:

1. `PostgresStore`: two writers under READ COMMITTED against `RelayStore`, once the
   visibility of statements is settled.
2. `Payment`: the /invoice request as a waiting reader of the payment channel.
3. `Publish` and `ReqQuery` over one connection: an identity proved while a query runs.
