------------------------------- MODULE Publish -------------------------------
(***************************************************************************)
(* Publishing: the connections' handling of EVENT and AUTH messages, the   *)
(* channel to the database writer, the writer's admission pipeline with    *)
(* its rate limits, and the answers and broadcasts that come back.         *)
(*                                                                         *)
(* Every connection is a task of its own, and so is the writer.  A         *)
(* connection that submits to a full channel waits inside its loop and     *)
(* receives nothing.  The writer never waits for a connection: it drops an *)
(* answer for which the connection's channel has no room.                  *)
(*                                                                         *)
(* Three waits of this code have no bound: a connection's for its client   *)
(* to read (and for a script of a read rule), and the writer's for the     *)
(* admission service and for a script of a write rule.  Each may last for  *)
(* ever here (Stick, Stall).                                               *)
(*                                                                         *)
(* External or modelled elsewhere: the store is the set of events ever     *)
(* written (module EventStore has its tables); what accounts, NIP-05       *)
(* records and the admission service answer is any of their answers        *)
(* (modules Payment and Verification); the limiters of the governor crate  *)
(* may refuse at any time; every client subscribes to everything (modules  *)
(* ReqQuery and FilterMatch have subscriptions).                           *)
(***************************************************************************)
EXTENDS KindFilter, FiniteSets, SequencesExt

CONSTANTS
    Conn,         \* connections
    NoConn,
    Ip,           \* Conn -> address of the client
    Event,        \* events clients publish
    Content,      \* Event -> EventFields
    IdOf,         \* Event -> its id, as the text of an e tag
    AuthEvent,    \* AUTH events clients present
    AuthContent,  \* AuthEvent -> AuthFields
    Scenario,     \* the configurations of the relay to consider, each with the messages its
                  \* clients send (events), a bound on their number (sends) and one on
                  \* database errors, lost connections, shutdowns and waits
                  \* that do not end (faults)
    AuthWindow,   \* how far from now an AUTH event may be dated (600 seconds)
    QueueCap,     \* event_persist_buffer
    NoticeCap,    \* 128
    BroadcastCap, \* broadcast_buffer
    MaxTime       \* bound on the clock

AuthFields ==
    [author : Key, kind : Nat, created_at : Nat, valid : BOOLEAN,
     challenge : Conn \cup {NoConn}, relay : {"ours", "other", "none"}]

ASSUME PublishAssumption ==
    /\ {QueueCap, NoticeCap, BroadcastCap} \subseteq Nat \ {0}
    /\ {AuthWindow, MaxTime} \subseteq Nat
    /\ NoConn \notin Conn /\ Unset \notin Status
    /\ Key \cap {"none", "challenge"} = {}
    /\ Event \cap AuthEvent = {}
    /\ \A s \in Scenario : s.sends \in Nat /\ s.faults \in Nat
    /\ Content \in [Event -> EventFields]
    /\ IdOf \in [Event -> Hex]
    /\ AuthContent \in [AuthEvent -> AuthFields]
    /\ \A s \in Scenario : \A k \in DOMAIN s.filters.kinds :
          s.filters.kinds[k].rate_limits
              \in Seq([limit : Nat, window : Nat, scope : {"global", "npub", "ip"}])

VARIABLES
    settings,     \* the configuration, which no step changes
    clock,
    conn,         \* Conn -> phase and, while it submits, the submission
    auth,         \* Conn -> "none", "challenge" or the authenticated key
    notices,      \* Conn -> channel of answers not yet sent
    inbox,        \* Conn -> broadcast events not yet received
    queue,        \* submissions the writer has not taken
    writer,       \* the writer: phase and submission
    buckets,      \* sliding windows: <<kind, rule, key>> -> times
    stored,       \* events written, the hidden ones too
    shutdown,     \* the relay was asked to stop
    told,         \* Conn -> answers the client received (history)
    sent,         \* the event sent last, to whom and when, or Unset (history)
    aired,        \* events broadcast (history)
    owed,         \* <<connection, event>> submitted, and not answered or given up (history)
    admitted,     \* what the rate limits let through, in order (history)
    sends, faults \* counters for the bounds

channels == <<notices, inbox, queue>>
history == <<told, sent, aired, owed, admitted, sends, faults>>
vars == <<settings, clock, conn, auth, channels, writer, buckets, stored, shutdown, history>>

\* proved: the keys proved over the connection by then (history).
Submission == [conn : Conn, event : Event, auth : Key \cup {NoKey}, proved : SUBSET Key]
Answer == [id : Event \cup AuthEvent, status : Status]

Idle == [phase |-> "select", job |-> Unset]
Gone == [phase |-> "closed", job |-> Unset]
Stuck == [phase |-> "stuck", job |-> Unset]
AtTop == [phase |-> "top", job |-> Unset, billed |-> FALSE]
Receiving == [AtTop EXCEPT !.phase = "recv"]
Ended == [AtTop EXCEPT !.phase = "ended"]

IdentityOf(c) == IF auth[c] \in Key THEN auth[c] ELSE NoKey
Serving(c) == conn[c] = Idle
IsEphemeral(e) == Content[e].kind \in 20000..29999

\* The first d tag names a parameterized replaceable event, an empty name without one.
DistinctParam(e) ==
    LET named == SelectSeq(Content[e].tags, LAMBDA t : t # <<>> /\ t[1] = "d")
    IN  IF named = <<>> \/ Len(named[1]) = 1 THEN "" ELSE named[1][2]

\* Of a replaceable kind an author has one event, the latest; of a parameterized one, one
\* for every name.
Supersedes(f, e) ==
    /\ \/ Content[e].kind \in {0, 3, 41} \cup 10000..19999
       \/ Content[e].kind \in 30000..39999 /\ DistinctParam(e) \in ValueSet(Content[f], "d")
    /\ Content[f].author = Content[e].author /\ Content[f].kind = Content[e].kind
    /\ Content[f].created_at >= Content[e].created_at

Superseded(e) == \E f \in stored \ {e} : Supersedes(f, e)

\* A deletion request of the author that names the event is stored.
DeletionStored(e) ==
    \E d \in stored :
        /\ Content[d].kind = 5 /\ Content[e].kind # 5
        /\ Content[d].author = Content[e].author
        /\ IdOf[e] \in ValueSet(Content[d], "e")

\* write_event leaves the tables alone for an event that is stored or has been superseded.
Shadowed(e) == e \in stored \/ Superseded(e)

KindConfig(e) == settings.filters.kinds[Content[e].kind]
Configured(e) == Content[e].kind \in DOMAIN settings.filters.kinds

\* Keys whose holder signed an AUTH event for the challenge of this connection and this
\* relay that was presented over it.
SignersFor(c) ==
    {AuthContent[a].author :
        a \in {b \in AuthEvent : /\ [id |-> b, status |-> "saved"] \in told[c]
                                 /\ AuthContent[b].valid /\ AuthContent[b].kind = 22242
                                 /\ AuthContent[b].challenge = c
                                 /\ AuthContent[b].relay = "ours"}}

-----------------------------------------------------------------------------
(* What reaches a client. *)

\* Mutant: send instead of try_send waits until the connection has room.
NotifyPatiently(c, e, status) ==
    /\ conn[c].phase = "closed" \/ Len(notices[c]) < NoticeCap
    /\ notices' = [notices EXCEPT ![c] = IF conn[c].phase = "closed" THEN @
                                         ELSE Append(@, [id |-> e, status |-> status])]
    /\ UNCHANGED owed

\* try_send to the channel of a connection: without room, or without a receiver, the
\* answer is gone.
Notify(c, e, status) ==
    IF conn[c].phase # "closed" /\ Len(notices[c]) < NoticeCap
    THEN /\ notices' = [notices EXCEPT ![c] = Append(@, [id |-> e, status |-> status])]
         /\ UNCHANGED owed
    ELSE /\ owed' = owed \ {<<c, e>>}
         /\ UNCHANGED notices

\* An answer the connection task gives itself.
Reply(c, id, status) == told' = [told EXCEPT ![c] = @ \cup {[id |-> id, status |-> status]}]

\* The channel keeps the last BroadcastCap events for every receiver.
Broadcast(e) ==
    /\ inbox' = [c \in Conn |->
                    CASE conn[c].phase = "closed" -> <<>>
                      [] conn[c].phase # "closed" /\ Len(inbox[c]) < BroadcastCap
                            -> Append(inbox[c], e)
                      [] OTHER -> Append(Tail(inbox[c]), e)]
    /\ aired' = aired \cup {e}

\* The filter is applied when the event is sent, not when it was queued.
Send(c, e) ==
    sent' = IF AllowedToSend(Content[e], IdentityOf(c), clock, settings.filters,
                             settings.nip42_dms)
            THEN [conn |-> c, event |-> e, at |-> clock] ELSE sent

SendNotice(c) ==
    /\ Serving(c) /\ notices[c] # <<>>
    /\ told' = [told EXCEPT ![c] = @ \cup {Head(notices[c])}]
    /\ notices' = [notices EXCEPT ![c] = Tail(@)]
    /\ owed' = owed \ {<<c, Head(notices[c]).id>>}
    /\ UNCHANGED <<settings, clock, conn, auth, inbox, queue, writer, buckets, stored,
                   shutdown, sent, aired, admitted, sends, faults>>

SendBroadcast(c) ==
    /\ Serving(c) /\ inbox[c] # <<>>
    /\ Send(c, Head(inbox[c]))
    /\ inbox' = [inbox EXCEPT ![c] = Tail(@)]
    /\ UNCHANGED <<settings, clock, conn, auth, notices, queue, writer, buckets, stored,
                   shutdown, told, aired, owed, admitted, sends, faults>>

\* A row of a query, read from the database at some earlier time; only one that was ever
\* visible is read.
SendResult(c, e) ==
    /\ Serving(c) /\ e \in stored \cap aired
    /\ Send(c, e)
    /\ UNCHANGED <<settings, clock, conn, auth, channels, writer, buckets, stored, shutdown,
                   told, aired, owed, admitted, sends, faults>>

\* ws_stream.send(..).await has no timeout, and a script of a read rule none either: with
\* a client that does not read, a ping, a row, an answer or a live event holds the
\* connection inside its loop.  It stays registered with both channels.
Stick(c) ==
    /\ Serving(c) /\ faults < settings.faults
    /\ faults' = faults + 1
    /\ conn' = [conn EXCEPT ![c] = Stuck]
    /\ \/ UNCHANGED <<notices, inbox>>
       \/ notices[c] # <<>> /\ notices' = [notices EXCEPT ![c] = Tail(@)] /\ UNCHANGED inbox
       \/ inbox[c] # <<>> /\ inbox' = [inbox EXCEPT ![c] = Tail(@)] /\ UNCHANGED notices
    /\ UNCHANGED <<settings, clock, auth, queue, writer, buckets, stored, shutdown, told, sent,
                   aired, owed, admitted, sends>>

-----------------------------------------------------------------------------
(* EVENT and AUTH messages. *)

IsValidTimestamp(e) ==
    settings.reject_future = Unset \/ Content[e].created_at <= clock + settings.reject_future

Invalid(e) == \/ ~Content[e].valid
              \/ IsExpired(Content[e], clock)
              \/ ~IsValidTimestamp(e)

EventRefused(c, e) ==
    /\ Invalid(e)
    /\ Reply(c, e, "invalid")
    /\ UNCHANGED <<conn, owed>>

\* The identity is that of the moment of submission.
EventAccepted(c, e) ==
    /\ ~Invalid(e)
    /\ conn' = [conn EXCEPT ![c] =
                   [phase |-> "submitting",
                    job |-> [conn |-> c, event |-> e, auth |-> IdentityOf(c),
                             proved |-> SignersFor(c)]]]
    /\ owed' = owed \cup {<<c, e>>}
    /\ UNCHANGED told

EventMsg(c, e) ==
    /\ Serving(c) /\ sends < settings.sends /\ e \in settings.events
    /\ sends' = sends + 1
    /\ EventRefused(c, e) \/ EventAccepted(c, e)
    /\ UNCHANGED <<settings, clock, auth, channels, writer, buckets, stored, shutdown,
                   sent, aired, admitted, faults>>

\* Mutant: an unbounded channel.
SubmitUnbounded(c) ==
    /\ conn[c].phase = "submitting"
    /\ conn' = [conn EXCEPT ![c] = Idle]
    /\ \/ /\ writer # Ended
          /\ queue' = Append(queue, conn[c].job)
          /\ UNCHANGED owed
       \/ /\ writer = Ended
          /\ owed' = owed \ {<<c, conn[c].job.event>>}
          /\ UNCHANGED queue
    /\ UNCHANGED <<settings, clock, auth, notices, inbox, writer, buckets, stored, shutdown,
                   told, sent, aired, admitted, sends, faults>>

\* event_tx.send(..).await returns when there is room, or with an error, which is
\* ignored, when the writer is gone.
Submit(c) ==
    /\ conn[c].phase = "submitting"
    /\ conn' = [conn EXCEPT ![c] = Idle]
    /\ \/ /\ writer # Ended /\ Len(queue) < QueueCap
          /\ queue' = Append(queue, conn[c].job)
          /\ UNCHANGED owed
       \/ /\ writer = Ended
          /\ owed' = owed \ {<<c, conn[c].job.event>>}
          /\ UNCHANGED queue
    /\ UNCHANGED <<settings, clock, auth, notices, inbox, writer, buckets, stored, shutdown,
                   told, sent, aired, admitted, sends, faults>>

\* Mutant: the challenge in the event is not compared with the one that was sent.
AuthenticatesAnyChallenge(c, a) ==
    /\ AuthContent[a].valid /\ AuthContent[a].kind = 22242
    /\ AuthContent[a].created_at \in (clock - AuthWindow)..(clock + AuthWindow)
    /\ AuthContent[a].relay = "ours"

\* A signed event of kind 22242, dated close to now, naming this connection's
\* challenge and this relay.
Authenticates(c, a) ==
    /\ AuthContent[a].valid /\ AuthContent[a].kind = 22242
    /\ AuthContent[a].created_at \in (clock - AuthWindow)..(clock + AuthWindow)
    /\ AuthContent[a].challenge = c
    /\ AuthContent[a].relay = "ours"

\* A second AUTH is acknowledged without being looked at; the key stays.
Authenticate(c, a) ==
    \/ /\ auth[c] = "challenge" /\ Authenticates(c, a)
       /\ auth' = [auth EXCEPT ![c] = AuthContent[a].author]
       /\ Reply(c, a, "saved")
    \/ /\ auth[c] \in Key
       /\ Reply(c, a, "saved") /\ UNCHANGED auth
    \/ /\ auth[c] = "none" \/ (auth[c] = "challenge" /\ ~Authenticates(c, a))
       /\ Reply(c, a, "restricted") /\ UNCHANGED auth

AuthMsg(c, a) ==
    /\ Serving(c) /\ sends < settings.sends /\ a \in settings.events
    /\ sends' = sends + 1
    /\ \/ ~settings.nip42_auth /\ Reply(c, a, "invalid") /\ UNCHANGED auth
       \/ settings.nip42_auth /\ ~settings.relay_url /\ UNCHANGED <<auth, told>>
       \/ settings.nip42_auth /\ settings.relay_url /\ Authenticate(c, a)
    /\ UNCHANGED <<settings, clock, conn, channels, writer, buckets, stored, shutdown,
                   sent, aired, owed, admitted, faults>>

\* The client leaves, is silent for too long, or the relay shuts down.
Disconnect(c) ==
    /\ Serving(c) /\ (shutdown \/ faults < settings.faults)
    /\ faults' = IF shutdown THEN faults ELSE faults + 1
    /\ conn' = [conn EXCEPT ![c] = Gone]
    /\ notices' = [notices EXCEPT ![c] = <<>>]
    /\ inbox' = [inbox EXCEPT ![c] = <<>>]
    /\ UNCHANGED <<settings, clock, auth, queue, writer, buckets, stored, shutdown, told, sent,
                   aired, owed, admitted, sends>>

-----------------------------------------------------------------------------
(* Sliding-window rate limits. *)

RulesOf(e) ==
    IF Content[e].kind \in DOMAIN settings.filters.kinds
    THEN settings.filters.kinds[Content[e].kind].rate_limits
    ELSE <<>>

\* What a rule of a scope counts by.
KeyOf(scope, e, ip) ==
    CASE scope = "global" -> ""
      [] scope = "npub" -> Content[e].author
      [] scope = "ip" -> ip

BucketOf(job, i) ==
    <<Content[job.event].kind, i, KeyOf(RulesOf(job.event)[i].scope, job.event, Ip[job.conn])>>

\* The times a bucket records.
TimesOf(bucket) == IF bucket \in DOMAIN buckets THEN buckets[bucket] ELSE <<>>

\* The bucket once what has left the window of its rule is removed from the front.
Recent(job, i) ==
    LET times == TimesOf(BucketOf(job, i))
        Over(k) == clock - times[k] >= RulesOf(job.event)[i].window
    IN  SubSeq(times, Cardinality({k \in DOMAIN times : \A l \in 1..k : Over(l)}) + 1, Len(times))

\* Mutant: one event too many.
HasRoomForOneMore(job, i) == Len(Recent(job, i)) <= RulesOf(job.event)[i].limit

HasRoom(job, i) == Len(Recent(job, i)) < RulesOf(job.event)[i].limit

WithinRates(job) == \A i \in DOMAIN RulesOf(job.event) : HasRoom(job, i)

\* The rules are asked in order up to the first that is exceeded; those before it
\* have counted the event by then.
AskRules(job) ==
    LET rules == RulesOf(job.event)
        asked == {i \in DOMAIN rules : \A j \in 1..(i - 1) : HasRoom(job, j)}
    IN  buckets' = [b \in DOMAIN buckets \cup {BucketOf(job, i) : i \in asked} |->
                       IF b \notin {BucketOf(job, i) : i \in asked} THEN buckets[b]
                       ELSE IF HasRoom(job, b[2]) THEN Append(Recent(job, b[2]), clock)
                       ELSE Recent(job, b[2])]

-----------------------------------------------------------------------------
(* The writer. *)

\* What each stage before the rate limits may answer: "pass", the status of a refusal,
\* or "no_answer".  An error of the admission service admits; one of the NIP-05 lookup is
\* the only refusal of which nobody is told.
ListAnswers(e) ==
    IF \/ settings.kind_blacklist # Unset /\ Content[e].kind \in settings.kind_blacklist
       \/ settings.kind_allowlist # Unset /\ Content[e].kind \notin settings.kind_allowlist
       \/ /\ ~settings.pay /\ settings.whitelist # Unset
          /\ Content[e].author \notin settings.whitelist
    THEN {"blocked"} ELSE {"pass"}

OnAccount(e) ==
    settings.pay /\ (settings.whitelist = Unset \/ Content[e].author \notin settings.whitelist)

AccountAnswers(e) == IF OnAccount(e) THEN {"pass", "blocked", "error"} ELSE {"pass"}
Nip05Answers == IF settings.nip05 THEN {"pass", "blocked", "no_answer"} ELSE {"pass"}
ServiceAnswers ==
    {"pass"} \cup IF settings.service = Unset THEN {} ELSE {FromReason(r) : r \in settings.service}

\* Mutant: the identity of the connection now instead of that of the submission.
FilterAnswersNow(job) ==
    {IF r = Unset THEN "pass" ELSE r :
        r \in {Refusal(Content[job.event], IdentityOf(job.conn), clock, settings.filters)}}

FilterAnswers(job) ==
    {IF r = Unset THEN "pass" ELSE r :
        r \in {Refusal(Content[job.event], job.auth, clock, settings.filters)}}

RateLimited(e) ==
    ResolveErrorMessage(Check("rate_limited", "rate-limited"),
                        settings.filters.kinds[Content[e].kind].errors, settings.filters.errors)

LimiterAnswers(e) ==
    IF /\ Content[e].kind \in DOMAIN settings.filters.kinds
       /\ settings.filters.kinds[Content[e].kind].rate_limit
    THEN {"pass", RateLimited(e)} ELSE {"pass"}

\* The first stage that does not pass decides.
Verdict(answers) ==
    LET stops == {i \in DOMAIN answers : answers[i] # "pass"}
    IN  IF stops = {} THEN "pass" ELSE answers[Min(stops)]

Verdicts(job) ==
    {Verdict(<<lists, account, nip05, service, filters, limiter>>) :
        lists \in ListAnswers(job.event), account \in AccountAnswers(job.event),
        nip05 \in Nip05Answers, service \in ServiceAnswers,
        filters \in FilterAnswers(job), limiter \in LimiterAnswers(job.event)}

\* The top of the loop looks for the shutdown signal; inside recv it is not seen.
LoopTop ==
    /\ writer = AtTop
    /\ writer' = IF shutdown THEN Ended ELSE Receiving
    /\ UNCHANGED <<settings, clock, conn, auth, channels, buckets, stored, shutdown, history>>

\* Mutant: the NIP-05 lookup error is not the only case without an answer: a refusal
\* by a rate limit has none either.
RefuseByRateSilently(job) ==
    /\ ~WithinRates(job)
    /\ AskRules(job)
    /\ writer' = AtTop
    /\ UNCHANGED <<notices, owed, admitted>>

RefuseByRate(job) ==
    /\ ~WithinRates(job)
    /\ AskRules(job)
    /\ Notify(job.conn, job.event, RateLimited(job.event))
    /\ writer' = AtTop
    /\ UNCHANGED admitted

Admit(job) ==
    /\ WithinRates(job)
    /\ AskRules(job)
    /\ admitted' = Append(admitted, [conn |-> job.conn, event |-> job.event,
                                     proved |-> job.proved, at |-> clock])
    /\ writer' = [phase |-> "write", job |-> job, billed |-> settings.cost /\ OnAccount(job.event)]
    /\ UNCHANGED <<notices, owed>>

Refuse(job, status) ==
    /\ IF status = "no_answer"
       THEN owed' = owed \ {<<job.conn, job.event>>} /\ UNCHANGED notices
       ELSE Notify(job.conn, job.event, status)
    /\ writer' = AtTop
    /\ UNCHANGED <<buckets, admitted>>

Judge ==
    /\ writer = Receiving /\ queue # <<>>
    /\ queue' = Tail(queue)
    /\ LET job == Head(queue) IN
       \E verdict \in Verdicts(job) :
           \/ verdict # "pass" /\ Refuse(job, verdict)
           \/ verdict = "pass" /\ RefuseByRate(job)
           \/ verdict = "pass" /\ Admit(job)
    /\ UNCHANGED <<settings, clock, conn, auth, inbox, stored, shutdown, told, sent, aired,
                   sends, faults>>

\* The submission may reach a stage that waits for somebody else.
AsksOutside(job) ==
    /\ "pass" \in ListAnswers(job.event)
    /\ \/ settings.service # Unset
       \/ /\ Configured(job.event)
          /\ KindConfig(job.event).write # Unset /\ KindConfig(job.event).write.script # Unset

\* admit_event(..).await and wait_with_output() have no timeout: the writer waits.
Stall ==
    /\ writer = Receiving /\ queue # <<>> /\ AsksOutside(Head(queue))
    /\ faults < settings.faults
    /\ faults' = faults + 1
    /\ queue' = Tail(queue)
    /\ writer' = [phase |-> "outside", job |-> Head(queue), billed |-> FALSE]
    /\ UNCHANGED <<settings, clock, conn, auth, notices, inbox, buckets, stored, shutdown, told,
                   sent, aired, owed, admitted, sends>>

WriteEphemeral(c, e) ==
    /\ IsEphemeral(e)
    /\ Broadcast(e) /\ Notify(c, e, "saved")
    /\ writer' = [writer EXCEPT !.phase = "charge"]
    /\ UNCHANGED <<stored, faults>>

WriteKnown(c, e) ==
    /\ ~IsEphemeral(e) /\ Shadowed(e)
    /\ Notify(c, e, "duplicate")
    /\ writer' = AtTop
    /\ UNCHANGED <<inbox, aired, stored, faults>>

\* The event of a deletion that came first is stored hidden, and write_event reports no
\* row: it is answered like a duplicate, and broadcast to nobody.
WriteDeleted(c, e) ==
    /\ ~IsEphemeral(e) /\ ~Shadowed(e) /\ DeletionStored(e)
    /\ stored' = stored \cup {e}
    /\ Notify(c, e, "duplicate")
    /\ writer' = AtTop
    /\ UNCHANGED <<inbox, aired, faults>>

WriteNew(c, e) ==
    /\ ~IsEphemeral(e) /\ ~Shadowed(e) /\ ~DeletionStored(e)
    /\ stored' = stored \cup {e}
    /\ Broadcast(e) /\ Notify(c, e, "saved")
    /\ writer' = [writer EXCEPT !.phase = "charge"]
    /\ UNCHANGED faults

\* Mutant: the answer is given before write_event is known to have succeeded.
WriteFailsLate(c, e) ==
    /\ ~IsEphemeral(e) /\ faults < settings.faults
    /\ faults' = faults + 1
    /\ Notify(c, e, "saved")
    /\ writer' = AtTop
    /\ UNCHANGED <<inbox, aired, stored>>

WriteFails(c, e) ==
    /\ ~IsEphemeral(e) /\ faults < settings.faults
    /\ faults' = faults + 1
    /\ Notify(c, e, "error")
    /\ writer' = AtTop
    /\ UNCHANGED <<inbox, aired, stored>>

Write ==
    /\ writer.phase = "write"
    /\ LET c == writer.job.conn  e == writer.job.event IN
       \/ WriteEphemeral(c, e) \/ WriteKnown(c, e) \/ WriteDeleted(c, e)
       \/ WriteNew(c, e) \/ WriteFails(c, e)
    /\ UNCHANGED <<settings, clock, conn, auth, queue, buckets, shutdown, told, sent, admitted,
                   sends>>

\* The author is charged; an error leaves db_writer.  Then the limit on all events may
\* put the thread to sleep.
Charge ==
    /\ writer.phase = "charge"
    /\ \/ /\ writer' = AtTop
          /\ UNCHANGED faults
       \/ /\ settings.governed
          /\ writer' = [writer EXCEPT !.phase = "sleep"]
          /\ UNCHANGED faults
       \/ /\ writer.billed /\ faults < settings.faults
          /\ faults' = faults + 1
          /\ writer' = Ended
    /\ UNCHANGED <<settings, clock, conn, auth, channels, buckets, stored, shutdown, told,
                   sent, aired, owed, admitted, sends>>

Wake ==
    /\ writer.phase = "sleep"
    /\ writer' = AtTop
    /\ UNCHANGED <<settings, clock, conn, auth, channels, buckets, stored, shutdown, history>>

\* When the relay stops and all connections are gone, so are the senders.
ChannelCloses ==
    /\ writer = Receiving /\ queue = <<>>
    /\ shutdown /\ \A c \in Conn : conn[c] = Gone
    /\ writer' = Ended
    /\ UNCHANGED <<settings, clock, conn, auth, channels, buckets, stored, shutdown, history>>

-----------------------------------------------------------------------------
(* The surroundings. *)

Tick ==
    /\ clock < MaxTime
    /\ clock' = clock + 1
    /\ UNCHANGED <<settings, conn, auth, channels, writer, buckets, stored, shutdown, history>>

Shutdown ==
    /\ ~shutdown /\ faults < settings.faults
    /\ shutdown' = TRUE
    /\ faults' = faults + 1
    /\ UNCHANGED <<settings, clock, conn, auth, channels, writer, buckets, stored, told, sent,
                   aired, owed, admitted, sends>>

Init ==
    /\ settings \in Scenario
    /\ clock = 0
    /\ conn = [c \in Conn |-> Idle]
    /\ auth = [c \in Conn |-> IF settings.nip42_auth THEN "challenge" ELSE "none"]
    /\ notices = [c \in Conn |-> <<>>]
    /\ inbox = [c \in Conn |-> <<>>]
    /\ queue = <<>>
    /\ writer = AtTop
    /\ buckets = <<>>
    /\ stored = {}
    /\ shutdown = FALSE
    /\ told = [c \in Conn |-> {}]
    /\ sent = Unset
    /\ aired = {} /\ owed = {} /\ admitted = <<>>
    /\ sends = 0 /\ faults = 0

Client(c) ==
    \/ \E e \in Event : EventMsg(c, e)
    \/ \E a \in AuthEvent : AuthMsg(c, a)
    \/ Disconnect(c)

Server(c) ==
    \/ Submit(c)
    \/ SendNotice(c)
    \/ SendBroadcast(c)
    \/ Stick(c)
    \/ \E e \in Event : SendResult(c, e)

Writer == LoopTop \/ Judge \/ Stall \/ Write \/ Charge \/ Wake \/ ChannelCloses

Next ==
    \/ \E c \in Conn : Client(c) \/ Server(c)
    \/ Writer
    \/ Tick \/ Shutdown

Spec == Init /\ [][Next]_vars

-----------------------------------------------------------------------------
(* Fairness: every connection polls its ready branches in random order, and the *)
(* writer is a task that is never starved.  Clients and the services outside owe *)
(* nothing: Stick and Stall are choices of theirs.                               *)

Fairness ==
    /\ \A c \in Conn : WF_vars(Submit(c)) /\ SF_vars(SendNotice(c))
    /\ WF_vars(Writer)

FairSpec == Spec /\ Fairness

-----------------------------------------------------------------------------
(* Properties. *)

TypeOK ==
    /\ settings \in Scenario
    /\ clock \in 0..MaxTime
    /\ \A c \in Conn :
           /\ conn[c] \in {Idle, Gone, Stuck} \cup [phase : {"submitting"}, job : Submission]
           /\ auth[c] \in {"none", "challenge"} \cup Key
           /\ notices[c] \in Seq(Answer) /\ Len(notices[c]) <= NoticeCap
           /\ inbox[c] \in Seq(Event) /\ Len(inbox[c]) <= BroadcastCap
           /\ told[c] \subseteq Answer
    /\ sent \in {Unset} \cup [conn : Conn, event : Event, at : 0..MaxTime]
    /\ queue \in Seq(Submission) /\ Len(queue) <= QueueCap
    /\ writer \in {AtTop, Receiving, Ended}
                  \cup [phase : {"outside", "write", "charge", "sleep"}, job : Submission,
                       billed : BOOLEAN]
    /\ stored \subseteq Event /\ aired \subseteq Event
    /\ owed \subseteq Conn \X Event
    /\ admitted \in Seq([conn : Conn, event : Event, proved : SUBSET Key, at : 0..MaxTime])
    /\ shutdown \in BOOLEAN
    /\ sends \in 0..settings.sends /\ faults \in 0..settings.faults

\* An access rule speaks for k, or for everybody: a list names the key, or the author
\* of the event, whoever holds k.
Names(rule, k, e) ==
    \/ rule.type = "all"
    \/ /\ rule.type = "list"
       /\ \/ k # NoKey /\ k \in rule.ids
          \/ k # NoKey /\ k = ServerKey /\ "private_server_hex" \in rule.ids
          \/ Content[e].author \in rule.ids

Participates(k, e) == k = Content[e].author \/ k \in ValueSet(Content[e], "p")

\* The script and the deny rule of a write or read rule let k through.
NotBarred(rule, k, e) ==
    /\ rule.script # Unset => <<Content[e].author, k>> \in rule.script
    /\ ~Names(rule.deny, k, e)

MayPublish(k, e) ==
    Configured(e) =>
        /\ KindConfig(e).require_auth => k # NoKey
        /\ KindConfig(e).write # Unset =>
               NotBarred(KindConfig(e).write, k, e) /\ Names(KindConfig(e).write.allow, k, e)

\* Allow "*" does not open a privileged kind; a list does, for the keys it names and, as
\* the one exception to what the documentation says of it, for everybody when it names
\* the author.
MayRead(rule, k, e) ==
    /\ NotBarred(rule, k, e)
    /\ \/ Names(rule.allow, k, e) /\ ~(rule.privileged /\ rule.allow.type = "all")
       \/ rule.privileged /\ Participates(k, e)

MayReceive(k, e) ==
    /\ Configured(e) => /\ KindConfig(e).require_auth => k # NoKey
                        /\ KindConfig(e).read # Unset => MayRead(KindConfig(e).read, k, e)
    /\ settings.nip42_dms /\ Content[e].kind \in DirectMessage => Participates(k, e)

\* allowed_to_send stands between every event and the client, whatever path the event
\* takes: some key proved over the very connection, or no key at all, satisfies the read
\* rules of the kind (its script, its deny rule, its allow rule or privileged) and those
\* for direct messages; and no event is sent after it expired, although it may have
\* waited in a channel.  A rule that lists the author of an event opens it to everybody.
SentOnlyToEntitled ==
    sent # Unset =>
        /\ \E k \in SignersFor(sent.conn) \cup {NoKey} : MayReceive(k, sent.event)
        /\ ~IsExpired(Content[sent.event], sent.at)

\* The writer judges a submission by the identity it carries through the channel: what it
\* lets through satisfies the write rules of its kind (require_auth, script, deny and
\* allow) for a key that was proved over the submitting connection when it submitted, or
\* for no key where the rules ask for none; whoever else is connected, and whatever was
\* proved since.  A rule that lists the author of an event speaks for every submitter.
PublishedByEntitled ==
    \A i \in DOMAIN admitted :
        \E k \in admitted[i].proved \cup {NoKey} : MayPublish(k, admitted[i].event)

\* What a rule of the kind counts an admission by.
CountedBy(i, r) ==
    LET a == admitted[i]
    IN  <<Content[a.event].kind, KeyOf(RulesOf(a.event)[r].scope, a.event, Ip[a.conn])>>

\* In no window of a rule are more events let through than its limit, for any author,
\* address or in all, although other rules refuse events in between.
RateRespected ==
    \A i \in DOMAIN admitted : \A r \in DOMAIN RulesOf(admitted[i].event) :
        LET rule == RulesOf(admitted[i].event)[r]
            same == {j \in 1..i : /\ Content[admitted[j].event].kind
                                        = Content[admitted[i].event].kind
                                  /\ CountedBy(j, r) = CountedBy(i, r)
                                  /\ admitted[i].at - admitted[j].at < rule.window}
        IN  Cardinality(same) <= rule.limit

\* An OK that says true is given only for an event that was broadcast, or whose author
\* has replaced it by a later version or deleted it, all of which the store knows; also
\* when the answer is still in the channel.  It takes a configuration none of whose
\* templates begins with "duplicate: ": such a refusal is answered with true, since the
\* prefix of the text decides.
AnswersTrue ==
    \A c \in Conn : \A a \in told[c] \cup ToSet(notices[c]) :
        a.id \in Event /\ a.status \in Accepting =>
            a.id \in aired \/ Superseded(a.id) \/ DeletionStored(a.id)

\* The writer waits for the admission service or a script.
WriterWaits == writer.phase = "outside"

\* A connection that submits to a full channel goes on, also while other connections are
\* stuck with clients that do not read: the writer waits for no client, and when it has
\* ended the channel is closed.  The exception is a writer whom the admission service or
\* a script does not answer: everyone who submits then waits with it.
SubmissionReturns ==
    \A c \in Conn : conn[c].phase = "submitting" ~> conn[c].phase # "submitting" \/ WriterWaits

Owed(c) == {e \in Event : <<c, e>> \in owed}

\* Whoever submits an event is told what became of it, also while other connections are
\* stuck, unless the answer was given up for lack of room, this connection is closed or
\* stuck with its own client, the writer has ended or waits for somebody who does not
\* answer.
EveryEventAnswered ==
    \A c \in Conn : Owed(c) # {} ~> \/ Owed(c) = {} \/ conn[c] \in {Gone, Stuck}
                                    \/ writer = Ended \/ WriterWaits

=============================================================================
