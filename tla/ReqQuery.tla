------------------------------ MODULE ReqQuery ------------------------------
(***************************************************************************)
(* One client connection and the database queries its REQ messages start:  *)
(* the select loop of nostr_server, the blocking threads of                *)
(* query_subscription, the WAL checkpoint that pre-empts them, and the     *)
(* writer whose broadcasts arrive meanwhile.                               *)
(*                                                                         *)
(* The loop is one task: while it waits for a reader permit it receives    *)
(* nothing.  A thread reads each filter from a snapshot of the database    *)
(* and pushes rows through a bounded channel that the loop empties.        *)
(*                                                                         *)
(* What the relay sends names a subscription id, never a request: the      *)
(* client takes it for an answer to its last request of that id.  Sending  *)
(* waits, without a timeout, for a client that does not read.              *)
(*                                                                         *)
(* Left out: other connections (they take and return permits), the NIP-05  *)
(* verifier's writes, limits of filters other than zero in all of them,    *)
(* removal of stored events, the delay of the subscription rate limiter.   *)
(***************************************************************************)
EXTENDS Naturals, Sequences, FiniteSets

CONSTANTS
    Event,          \* events the writer may commit
    Sendable,       \* those allowed_to_send lets this client have
    SubId, LongId,  \* subscription ids, and those longer than the maximum
    Sub,            \* subscriptions the client may ask for
    Content,        \* the content of each
    MaxSubs,        \* max_subs of the connection
    MaxRequests,    \* bound on REQ messages
    Permits,        \* permits of reader_threads_ready (max_conn)
    QueueCap,       \* capacity of the query channel
    BroadcastCap,   \* capacity of the broadcast channel
    CheckEvery,     \* rows between two looks at the abandon channel
    EOSE

ASSUME ReqQueryAssumption ==
    /\ Sendable \subseteq Event
    /\ LongId \subseteq SubId
    /\ EOSE \notin Event
    /\ MaxSubs \in Nat /\ MaxRequests \in Nat
    /\ {Permits, QueueCap, BroadcastCap, CheckEvery} \subseteq Nat \ {0}
    /\ Content \in [Sub -> [id : SubId, filters : Seq(SUBSET Event),
                            historical : BOOLEAN, scraper : BOOLEAN]]

VARIABLES
    stored,         \* committed events
    unsent,         \* committed, not yet broadcast
    bcast,          \* broadcast events this connection has not received
    lagged,         \* broadcast events it lost by lagging (history)
    conn,           \* "select", "permit" (awaiting one) or "closed"
    subscriptions,  \* id -> request whose subscription is registered
    running,        \* id -> request whose query the held handle abandons
    query,          \* the requests in order, each with its thread
    results,        \* the query channel: items under subscription ids
    checkpoint,     \* a checkpoint holds checkpoint_in_progress
    client          \* what the client has for each request (history)

writer == <<stored, unsent, lagged>>
vars == <<writer, bcast, conn, subscriptions, running, query, results, checkpoint, client>>

IdOf(s) == Content[s].id
Filters(s) == Content[s].filters
Interested(s) == UNION {Filters(s)[i] : i \in DOMAIN Filters(s)}

\* A request that registers no subscription is in one of the Unserved phases, one that
\* only registers it is live.
Unserved == {"ignored", "refused", "scraper"}
Unqueried == Unserved \cup {"live"}
Ended == {"done", "shed", "cancelled", "slow", "preempted", "failed"}
Executing == {"spawned", "entering", "reading", "probing", "sending", "checked"}
Phase == Unqueried \cup {"permit"} \cup Executing \cup {"ending"} \cup Ended

Requests == DOMAIN query
PhaseOf(q) == query[q].phase
SubOf(q) == query[q].sub
Named(q) == IdOf(SubOf(q))
HasThread(q) == PhaseOf(q) \in Executing \cup {"permit", "ending"}

\* The last request of its id that was served: the client's idea of whom an answer under
\* that id is meant for.
Latest(q) ==
    /\ PhaseOf(q) \notin Unserved
    /\ \A p \in Requests : p > q /\ Named(p) = Named(q) => PhaseOf(p) \in Unserved

\* Nothing of an earlier query is to come under the id.
Settled(i) ==
    /\ \A q \in Requests : HasThread(q) => Named(q) # i
    /\ \A k \in DOMAIN results : results[k].id # i

\* Threads that hold checkpoint_in_progress, if only for a moment.  (A thread stalled
\* by a full channel also takes it for a moment twice a second; that is left out.)
Locking == {q \in Requests : PhaseOf(q) \in {"entering", "probing"}}
Locked == checkpoint \/ Locking # {}

\* Mutant: the permit is kept until the EOSE is sent.
HoldersUntilEose == {q \in Requests : PhaseOf(q) \in Executing \cup {"ending"}}

Holders == {q \in Requests : PhaseOf(q) \in Executing}

Full == Len(results) >= QueueCap

With(f, i, x) == [j \in DOMAIN f \cup {i} |-> IF j = i THEN x ELSE f[j]]
Without(f, i) == [j \in DOMAIN f \ {i} |-> f[j]]

TypeOK ==
    /\ stored \subseteq Event /\ unsent \subseteq stored /\ lagged \subseteq stored
    /\ bcast \in Seq(stored)
    /\ conn \in {"select", "permit", "closed"}
    /\ DOMAIN subscriptions \subseteq SubId
    /\ DOMAIN running \subseteq SubId
    /\ \A i \in DOMAIN subscriptions : subscriptions[i] \in Requests
    /\ \A i \in DOMAIN running : running[i] \in Requests
    /\ query \in Seq([sub : Sub, phase : Phase, filter : Nat, rows : SUBSET Event,
                      count : Nat, abandoned : BOOLEAN])
    /\ results \in Seq([id : SubId, item : Event \cup {EOSE}])
    /\ checkpoint \in BOOLEAN
    /\ client \in Seq([asked : SUBSET Event, got : SUBSET Event, eose : BOOLEAN,
                       blind : BOOLEAN, clean : BOOLEAN, late : Nat])
    /\ Len(client) = Len(query)
    /\ Len(results) <= QueueCap
    /\ Len(bcast) <= BroadcastCap
    /\ Cardinality(Holders) <= Permits

Init ==
    /\ stored = {} /\ unsent = {} /\ lagged = {}
    /\ bcast = <<>>
    /\ conn = "select"
    /\ subscriptions = <<>> /\ running = <<>>
    /\ query = <<>>
    /\ results = <<>>
    /\ checkpoint = FALSE
    /\ client = <<>>

-----------------------------------------------------------------------------
(* The writer commits an event, and broadcasts it before it takes the next. *)

Commit(e) ==
    /\ e \notin stored
    /\ unsent = {}
    /\ stored' = stored \cup {e}
    /\ unsent' = unsent \cup {e}
    /\ UNCHANGED <<lagged, bcast, conn, subscriptions, running, query, results,
                   checkpoint, client>>

\* A full broadcast channel overwrites its oldest event.
Broadcast(e) ==
    /\ e \in unsent
    /\ unsent' = unsent \ {e}
    /\ IF conn = "closed" THEN UNCHANGED <<bcast, lagged>>
       ELSE IF Len(bcast) < BroadcastCap
       THEN bcast' = Append(bcast, e) /\ UNCHANGED lagged
       ELSE bcast' = Append(Tail(bcast), e) /\ lagged' = lagged \cup {Head(bcast)}
    /\ UNCHANGED <<stored, conn, subscriptions, running, query, results, checkpoint, client>>

-----------------------------------------------------------------------------
(* The connection: REQ. *)

HasSubscription(s) ==
    \E i \in DOMAIN subscriptions : SubOf(subscriptions[i]) = s

Refused(s) ==
    \/ IdOf(s) \in LongId
    \/ /\ IdOf(s) \notin DOMAIN subscriptions
       /\ Cardinality(DOMAIN subscriptions) >= MaxSubs

Request(s, phase) ==
    [sub |-> s, phase |-> phase, filter |-> 0, rows |-> {}, count |-> 0,
     abandoned |-> FALSE]

NoOneThere == [asked |-> {}, got |-> {}, eose |-> FALSE, blind |-> FALSE, clean |-> FALSE,
               late |-> 0]

NoAnswerYet == [NoOneThere EXCEPT !.asked = stored]

MayAsk == conn = "select" /\ Len(query) < MaxRequests

\* An identical subscription exists: the request is dropped without an answer.
ReqIgnored(s) ==
    /\ MayAsk
    /\ HasSubscription(s)
    /\ query' = Append(query, Request(s, "ignored"))
    /\ client' = Append(client, NoAnswerYet)
    /\ UNCHANGED <<writer, bcast, conn, subscriptions, running, results, checkpoint>>

\* A scraper gets an EOSE and no subscription.
ReqScraper(s) ==
    /\ MayAsk
    /\ ~HasSubscription(s)
    /\ Content[s].scraper
    /\ query' = Append(query, Request(s, "scraper"))
    /\ client' = Append(client, [NoAnswerYet EXCEPT !.eose = TRUE])
    /\ UNCHANGED <<writer, bcast, conn, subscriptions, running, results, checkpoint>>

\* The id is too long, or one subscription too many: a notice is sent.
ReqRefused(s) ==
    /\ MayAsk
    /\ ~HasSubscription(s) /\ ~Content[s].scraper
    /\ Refused(s)
    /\ query' = Append(query, Request(s, "refused"))
    /\ client' = Append(client, NoAnswerYet)
    /\ UNCHANGED <<writer, bcast, conn, subscriptions, running, results, checkpoint>>

\* Tell the queries of the requests Q that their results are unwanted; one that has
\* ended has dropped its receiver.
Abandon(Q) ==
    [q \in Requests |-> [query[q] EXCEPT !.abandoned = @ \/ (q \in Q /\ HasThread(q))]]

Replaced(i) == {running[j] : j \in DOMAIN running \cap {i}}

\* Mutant: the query of the subscription that is replaced runs on.
ReqReplacesSilently(s) ==
    LET q == Len(query) + 1 IN
    /\ MayAsk
    /\ ~HasSubscription(s) /\ ~Content[s].scraper /\ ~Refused(s)
    /\ subscriptions' = With(subscriptions, IdOf(s), q)
    /\ running' = With(running, IdOf(s), q)
    /\ conn' = IF Content[s].historical THEN "permit" ELSE "select"
    /\ query' = Append(query, Request(s, IF Content[s].historical THEN "permit" ELSE "live"))
    /\ client' = Append(client, [NoAnswerYet EXCEPT !.clean = Settled(IdOf(s))])
    /\ UNCHANGED <<writer, bcast, results, checkpoint>>

\* The subscription is registered, the query of the one it replaces is abandoned,
\* and unless every filter has limit 0 the loop goes to wait for a permit.
ReqAccepted(s) ==
    LET q == Len(query) + 1 IN
    /\ MayAsk
    /\ ~HasSubscription(s) /\ ~Content[s].scraper /\ ~Refused(s)
    /\ subscriptions' = With(subscriptions, IdOf(s), q)
    /\ running' = With(running, IdOf(s), q)
    /\ conn' = IF Content[s].historical THEN "permit" ELSE "select"
    /\ query' = Append(Abandon(Replaced(IdOf(s))),
                       Request(s, IF Content[s].historical THEN "permit" ELSE "live"))
    /\ client' = Append(client, [NoAnswerYet EXCEPT !.clean = Settled(IdOf(s))])
    /\ UNCHANGED <<writer, bcast, results, checkpoint>>

Req(s) == ReqIgnored(s) \/ ReqScraper(s) \/ ReqRefused(s) \/ ReqAccepted(s)

\* The thread is spawned and the loop goes on.
TakePermit ==
    /\ conn = "permit"
    /\ Cardinality(Holders) < Permits
    /\ query' = [query EXCEPT ![Len(query)].phase = "spawned"]
    /\ conn' = "select"
    /\ UNCHANGED <<writer, bcast, subscriptions, running, results, checkpoint, client>>

-----------------------------------------------------------------------------
(* The connection: CLOSE, the end of the connection, and what it sends. *)

Close(i) ==
    /\ conn = "select"
    /\ i \in DOMAIN running \cup DOMAIN subscriptions
    /\ query' = Abandon(Replaced(i))
    /\ running' = Without(running, i)
    /\ subscriptions' = Without(subscriptions, i)
    /\ UNCHANGED <<writer, bcast, conn, results, checkpoint, client>>

\* The client leaves or times out, or the relay shuts down: cleanup abandons every
\* running query, the channels are dropped with the task.
Disconnect ==
    /\ conn = "select"
    /\ conn' = "closed"
    /\ query' = Abandon({running[i] : i \in DOMAIN running})
    /\ running' = <<>> /\ subscriptions' = <<>>
    /\ bcast' = <<>> /\ results' = <<>>
    /\ client' = [q \in Requests |-> NoOneThere]
    /\ UNCHANGED <<writer, checkpoint>>

Received(c, item) ==
    IF item = EOSE THEN [c EXCEPT !.eose = TRUE]
    ELSE [c EXCEPT !.got = @ \cup ({item} \cap Sendable)]

\* ws_stream.send(..).await returns when the client reads, which may be never.
SendResult ==
    /\ conn = "select"
    /\ results # <<>>
    /\ LET r == Head(results) IN
       client' = [q \in Requests |-> IF Latest(q) /\ Named(q) = r.id
                                     THEN Received(client[q], r.item) ELSE client[q]]
    /\ results' = Tail(results)
    /\ UNCHANGED <<writer, bcast, conn, subscriptions, running, query, checkpoint>>

Listening(e) ==
    {q \in {subscriptions[i] : i \in DOMAIN subscriptions} : e \in Interested(SubOf(q))}

\* Mutant: a broadcast is passed on only once the stored events have been sent.
SendBroadcastAfterEose ==
    /\ conn = "select"
    /\ bcast # <<>>
    /\ LET e == Head(bcast)
           to == {q \in Listening(e) : client[q].eose} IN
       client' = [q \in Requests |->
                     [client[q] EXCEPT !.got = @ \cup {f \in {e} \cap Sendable : q \in to}]]
    /\ bcast' = Tail(bcast)
    /\ UNCHANGED <<writer, conn, subscriptions, running, query, results, checkpoint>>

SendBroadcast ==
    /\ conn = "select"
    /\ bcast # <<>>
    /\ LET e == Head(bcast) IN
       client' = [q \in Requests |->
                     [client[q] EXCEPT !.got =
                          @ \cup {f \in {e} \cap Sendable : q \in Listening(e)}]]
    /\ bcast' = Tail(bcast)
    /\ UNCHANGED <<writer, conn, subscriptions, running, query, results, checkpoint>>

-----------------------------------------------------------------------------
(* The thread of request q. *)

outside == <<writer, bcast, conn, subscriptions, running, checkpoint>>

Become(q, phase) ==
    /\ query' = [query EXCEPT ![q].phase = phase]
    /\ UNCHANGED <<outside, results, client>>

\* The thread returns without an EOSE; its locals are gone.
Return(q, phase) ==
    /\ query' = [query EXCEPT ![q] = Request(SubOf(q), phase)]
    /\ UNCHANGED <<outside, results, client>>

\* blocking_lock: new readers wait for a checkpoint.
Enter(q) ==
    /\ PhaseOf(q) = "spawned"
    /\ ~Locked
    /\ Become(q, "entering")

\* The lock is released.  Having queued too long, or abandoned, the query stops.
Shed(q) ==
    /\ PhaseOf(q) = "entering"
    /\ Return(q, "shed")

Start(q) ==
    /\ PhaseOf(q) = "entering"
    /\ IF query[q].abandoned THEN Return(q, "cancelled") ELSE Become(q, "reading")

\* No database connection: the query ends as if it had found nothing.
StartBlind(q) ==
    /\ PhaseOf(q) = "entering"
    /\ ~query[q].abandoned
    /\ query' = [query EXCEPT ![q].phase = "ending"]
    /\ client' = [client EXCEPT ![q].blind = (conn # "closed")]
    /\ UNCHANGED <<outside, results>>

\* The next filter's statement starts, on a snapshot of its own.
NextFilter(q) ==
    LET k == query[q].filter + 1 IN
    /\ PhaseOf(q) = "reading"
    /\ query[q].rows = {}
    /\ k <= Len(Filters(SubOf(q)))
    /\ query' = [query EXCEPT ![q].filter = k,
                              ![q].rows = stored \cap Filters(SubOf(q))[k]]
    /\ UNCHANGED <<outside, results, client>>

\* All filters are done: the permit is dropped.
Finish(q) ==
    /\ PhaseOf(q) = "reading"
    /\ query[q].rows = {}
    /\ query[q].filter = Len(Filters(SubOf(q)))
    /\ Become(q, "ending")

\* Preparing or stepping the statement fails: no EOSE.
Fail(q) ==
    /\ PhaseOf(q) = "reading"
    /\ Return(q, "failed")

AtCheck(q) == PhaseOf(q) = "reading" /\ query[q].rows # {} /\ query[q].count = 0

\* A row, every CheckEvery: try_lock, held for a moment when it succeeds.
Probe(q) ==
    /\ AtCheck(q)
    /\ ~Locked
    /\ Become(q, "probing")

CountRow(q, phase) ==
    /\ query' = [query EXCEPT ![q].phase = phase,
                              ![q].count = (@ + 1) % CheckEvery]
    /\ UNCHANGED <<outside, results, client>>

\* Mutant: the abandon channel is looked at only before the first row.
ProbedWithoutCheck(q) ==
    /\ PhaseOf(q) = "probing"
    /\ CountRow(q, "sending")

Probed(q) ==
    /\ PhaseOf(q) = "probing"
    /\ IF query[q].abandoned THEN Return(q, "cancelled") ELSE CountRow(q, "sending")

NextRow(q) ==
    /\ PhaseOf(q) = "reading" /\ query[q].rows # {} /\ query[q].count # 0
    /\ CountRow(q, "sending")

\* Mutant: the query ends as if it had read all its rows.
PreemptedAnswers(q) ==
    /\ AtCheck(q) \/ (PhaseOf(q) = "sending" /\ Full)
    /\ Locked
    /\ Become(q, "ending")

\* try_lock fails, here or while the channel is full: the query is aborted.
Preempted(q) ==
    /\ AtCheck(q) \/ (PhaseOf(q) = "sending" /\ Full)
    /\ Locked
    /\ Return(q, "preempted")

\* The channel has room.  Another thread may take it before this one sends.
SeeRoom(q) ==
    /\ PhaseOf(q) = "sending"
    /\ ~Full
    /\ Become(q, "checked")

SlowClient(q) ==
    /\ PhaseOf(q) = "sending"
    /\ Full
    /\ Return(q, "slow")

\* blocking_send: waits for room; into a dropped channel it returns at once.
Send(q, item) ==
    \/ /\ conn = "closed"
       /\ UNCHANGED <<results, client>>
    \/ /\ conn # "closed"
       /\ ~Full
       /\ results' = Append(results, [id |-> Named(q), item |-> item])
       /\ client' = [client EXCEPT ![q].late = IF query[q].abandoned THEN @ + 1 ELSE @]

\* Mutant: a row is sent without waiting for room.
SendRowAnyway(q) ==
    /\ PhaseOf(q) = "checked"
    /\ \E e \in query[q].rows :
         /\ results' = Append(results, [id |-> Named(q), item |-> e])
         /\ query' = [query EXCEPT ![q].phase = "reading", ![q].rows = @ \ {e}]
    /\ UNCHANGED <<outside, client>>

SendRow(q) ==
    /\ PhaseOf(q) = "checked"
    /\ \E e \in query[q].rows :
         /\ Send(q, e)
         /\ query' = [query EXCEPT ![q].phase = "reading", ![q].rows = @ \ {e}]
    /\ UNCHANGED outside

SendEose(q) ==
    /\ PhaseOf(q) = "ending"
    /\ Send(q, EOSE)
    /\ query' = [query EXCEPT ![q] = Request(SubOf(q), "done")]
    /\ UNCHANGED outside

Step(q) ==
    \/ Enter(q) \/ Shed(q) \/ Start(q) \/ StartBlind(q)
    \/ NextFilter(q) \/ Finish(q) \/ Fail(q)
    \/ Probe(q) \/ Probed(q) \/ NextRow(q) \/ Preempted(q)
    \/ SeeRoom(q) \/ SlowClient(q)
    \/ SendRow(q) \/ SendEose(q)

-----------------------------------------------------------------------------

CheckpointBegins ==
    /\ ~Locked
    /\ checkpoint' = TRUE
    /\ UNCHANGED <<writer, bcast, conn, subscriptions, running, query, results, client>>

CheckpointEnds ==
    /\ checkpoint
    /\ checkpoint' = FALSE
    /\ UNCHANGED <<writer, bcast, conn, subscriptions, running, query, results, client>>

Next ==
    \/ \E e \in Event : Commit(e) \/ Broadcast(e)
    \/ \E s \in Sub : Req(s)
    \/ \E i \in SubId : Close(i)
    \/ TakePermit \/ Disconnect \/ SendResult \/ SendBroadcast
    \/ \E q \in Requests : Step(q)
    \/ CheckpointBegins \/ CheckpointEnds

Spec == Init /\ [][Next]_vars

\* What the runtime owes: a permit that is free is taken; threads run; the lock is
\* handed out in order, so a thread does get it; a checkpoint ends.
Fairness ==
    /\ WF_vars(TakePermit) /\ WF_vars(CheckpointEnds)
    /\ \A q \in 1..MaxRequests :
         /\ WF_vars(q \in Requests /\ Step(q))
         /\ SF_vars(q \in Requests /\ Enter(q))

\* Assumed of the client, as nothing in the relay enforces it: it reads, or its
\* connection breaks, so that the loop comes back from every message it sends; select!
\* picks a ready branch at random, so the query channel then has its turn.  Nothing
\* obliges the client to ask, or the writer to commit.
ClientReads == WF_vars(SendResult)

FairSpec == Spec /\ Fairness /\ ClientReads

-----------------------------------------------------------------------------
(* Properties. *)

Wanted == {subscriptions[i] : i \in DOMAIN subscriptions}

\* A query is told to stop when, and only when, its subscription was closed or
\* replaced or its connection ended: the loop's two maps never drift apart.
AbandonedIffUnwanted ==
    \A q \in Requests : HasThread(q) => (query[q].abandoned <=> q \notin Wanted)

\* An EOSE under an id tells the client that it has every matching event stored when
\* it last asked: an aborted query never looks like a finished one.  Exceptions: a query
\* without a database connection, the EOSE a scraper gets, and an id used again before
\* its last query was over, whose EOSE looks like that of the new one.
EoseMeansComplete ==
    \A q \in Requests :
        /\ client[q].eose /\ client[q].clean /\ ~client[q].blind
        => client[q].asked \cap Interested(SubOf(q)) \cap Sendable \subseteq client[q].got

\* Stored query and live feed leave no gap: once everything under way has arrived,
\* a subscriber whose query completed has every committed event it asked for,
\* except what the connection lost by lagging.
NoGap ==
    \A q \in Wanted :
        /\ PhaseOf(q) = "done" /\ ~client[q].blind
        /\ results = <<>> /\ bcast = <<>> /\ unsent = {}
        => (stored \cap Interested(SubOf(q)) \cap Sendable) \ lagged \subseteq client[q].got

\* A client that gave up a query gets no more than one batch of rows and the EOSE
\* beyond what was in the channel.
AbandonedStopsSoon == \A q \in Requests : client[q].late <= CheckEvery + 1

\* A query that was accepted ends, with an EOSE or by one of the aborts.
QueriesEnd ==
    \A q \in 1..MaxRequests :
        (q \in Requests /\ HasThread(q)) ~> (q \in Requests /\ PhaseOf(q) \in Ended)

\* The loop waits for a permit, and every permit is held by a thread of this connection
\* that waits for the loop to empty the channel.
CircularWait ==
    /\ conn = "permit" /\ Full
    /\ Cardinality(Holders) = Permits
    /\ \A q \in Holders : PhaseOf(q) = "checked"

\* For a client that reads, the circular wait is the only way in which a query does not
\* end: no other order of threads, checkpoints, replacements and the loop's own waiting
\* leaves one behind.
OthersEnd ==
    \A q \in 1..MaxRequests :
        (q \in Requests /\ HasThread(q))
            ~> (CircularWait \/ (q \in Requests /\ PhaseOf(q) \in Ended))

\* Nor does anything else keep a connection waiting for a permit from serving again.
OthersServe == conn = "permit" ~> (CircularWait \/ conn # "permit")

\* A query is pre-empted only by a checkpoint.
PreemptedByCheckpoint ==
    [][\A q \in Requests :
           PhaseOf(q) # "preempted" /\ PhaseOf(q)' = "preempted" => checkpoint]_vars

=============================================================================
