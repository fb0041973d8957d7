--------------------------- MODULE ReqQuery_proofs ---------------------------
(***************************************************************************)
(* Theorems about queries, for any subscriptions, any number of requests,  *)
(* events and permits, and any capacities: what an EOSE promises, that     *)
(* the stored part and the live part of a subscription leave no gap, and   *)
(* that a query is abandoned exactly when nobody wants it.                 *)
(***************************************************************************)
EXTENDS ReqQuery, SequenceTheorems, FiniteSetTheorems, TLAPS

-----------------------------------------------------------------------------
(* Sequences. *)

LEMMA Domains == \A S : \A s \in Seq(S) : /\ Len(s) \in Nat /\ DOMAIN s = 1..Len(s)
                                          /\ \A i \in DOMAIN s : s[i] \in S
BY LenProperties, ElementOfSeq

LEMMA Updated ==
    ASSUME NEW S, NEW s \in Seq(S), NEW i \in DOMAIN s, NEW x \in S
    PROVE  /\ [s EXCEPT ![i] = x] \in Seq(S)
           /\ Len([s EXCEPT ![i] = x]) = Len(s)
           /\ DOMAIN [s EXCEPT ![i] = x] = DOMAIN s
           /\ [s EXCEPT ![i] = x][i] = x
           /\ \A j \in DOMAIN s : j # i => [s EXCEPT ![i] = x][j] = s[j]
BY Domains, ExceptSeq

LEMMA Rebuilt ==
    ASSUME NEW S, NEW s \in Seq(S), NEW R, NEW t, t = [i \in DOMAIN s |-> t[i]],
           \A i \in DOMAIN s : t[i] \in R
    PROVE  t \in Seq(R) /\ Len(t) = Len(s) /\ DOMAIN t = DOMAIN s
<1>1. DOMAIN s = 1..Len(s) /\ Len(s) \in Nat
  BY Domains
<1>2. t \in [1..Len(s) -> R]
  BY <1>1
<1>3. t \in Seq(R)
  BY <1>1, <1>2, IsASeq
<1>4. DOMAIN t = 1..Len(t) /\ Len(t) \in Nat
  BY <1>3, Domains
<1> QED
  BY <1>1, <1>2, <1>3, <1>4, LenProperties

LEMMA Extended ==
    ASSUME NEW S, NEW s \in Seq(S), NEW x \in S
    PROVE  /\ Append(s, x) \in Seq(S)
           /\ Len(Append(s, x)) = Len(s) + 1
           /\ DOMAIN Append(s, x) = DOMAIN s \cup {Len(s) + 1}
           /\ Len(s) + 1 \notin DOMAIN s
           /\ Append(s, x)[Len(s) + 1] = x
           /\ \A i \in DOMAIN s : Append(s, x)[i] = s[i]
<1>1. DOMAIN s = 1..Len(s) /\ Len(s) \in Nat
  BY Domains
<1>2. Append(s, x) \in Seq(S) /\ Len(Append(s, x)) = Len(s) + 1
  BY AppendProperties
<1>3. DOMAIN Append(s, x) = 1..(Len(s) + 1)
  BY <1>2, Domains
<1> QED
  BY <1>1, <1>2, <1>3, AppendProperties

LEMMA Popped ==
    ASSUME NEW S, NEW s \in Seq(S), s # <<>>
    PROVE  /\ Head(s) \in S /\ Head(s) = s[1] /\ 1 \in DOMAIN s
           /\ Tail(s) \in Seq(S) /\ Len(Tail(s)) = Len(s) - 1
           /\ \A i \in DOMAIN Tail(s) : i + 1 \in DOMAIN s /\ Tail(s)[i] = s[i + 1]
           /\ \A i \in DOMAIN s : i = 1 \/ (i - 1 \in DOMAIN Tail(s) /\ Tail(s)[i - 1] = s[i])
<1>1. s \in Seq(S) /\ Len(s) \in Nat /\ DOMAIN s = 1..Len(s)
  BY Domains
<1>2. /\ Head(s) \in S /\ Tail(s) \in Seq(S) /\ Len(Tail(s)) = Len(s) - 1
      /\ \A i \in 1..Len(Tail(s)) : Tail(s)[i] = s[i + 1]
  BY <1>1, HeadTailProperties
<1>3. Len(s) > 0 /\ Head(s) = s[1]
  BY <1>1, EmptySeq
<1>4. DOMAIN Tail(s) = 1..(Len(s) - 1)
  BY <1>2, Domains
<1> QED
  BY <1>1, <1>2, <1>3, <1>4

-----------------------------------------------------------------------------
(* The invariant. *)

QueryRecord ==
    [sub : Sub, phase : Phase, filter : Nat, rows : SUBSET Event, count : Nat,
     abandoned : BOOLEAN]
ClientRecord ==
    [asked : SUBSET Event, got : SUBSET Event, eose : BOOLEAN, blind : BOOLEAN,
     clean : BOOLEAN, late : Nat]
Item == [id : SubId, item : Event \cup {EOSE}]

Feeds ==
    /\ stored \subseteq Event /\ unsent \subseteq stored /\ lagged \subseteq stored
    /\ bcast \in Seq(stored) /\ Len(bcast) <= BroadcastCap

Maps ==
    /\ DOMAIN subscriptions \subseteq SubId
    /\ \A i \in DOMAIN subscriptions : subscriptions[i] \in Requests
    /\ running = subscriptions

Queries ==
    /\ query \in Seq(QueryRecord)
    /\ client \in Seq(ClientRecord) /\ Len(client) = Len(query)
    /\ results \in Seq(Item)
    /\ Len(results) <= QueueCap
    /\ conn \in {"select", "permit", "closed"} /\ checkpoint \in BOOLEAN
    /\ IsFiniteSet(Holders) /\ Cardinality(Holders) <= Permits

\* The two maps of the loop hold the same, and tell which queries are wanted: for each
\* id the last request.
Tracked ==
    /\ \A i \in DOMAIN subscriptions : IdOf(SubOf(subscriptions[i])) = i
    /\ \A q \in Wanted : Latest(q)
    /\ \A q \in Requests : /\ q \in Wanted => ~query[q].abandoned
                           /\ HasThread(q) /\ q \notin Wanted => query[q].abandoned

\* The loop waits for the last request; when it has ended nobody waits for anything.
Waiting ==
    /\ conn = "permit" => Len(query) \in Requests /\ PhaseOf(Len(query)) = "permit"
    /\ conn = "closed" => /\ subscriptions = <<>> /\ results = <<>> /\ bcast = <<>>
                          /\ \A q \in Requests : client[q].asked = {}

\* When nothing of an earlier query was under way, all that comes under the id is of the
\* last request, and its EOSE comes last.
OrderedQuery(q) ==
    /\ \A p \in Requests : HasThread(p) /\ Named(p) = Named(q) => p = q
    /\ \A i, j \in DOMAIN results :
           i < j /\ results[i].id = Named(q) /\ results[j].id = Named(q)
               => results[i].item # EOSE
    /\ \A i \in DOMAIN results :
           results[i].id = Named(q) /\ results[i].item = EOSE => PhaseOf(q) = "done"
    /\ client[q].eose => /\ PhaseOf(q) = "done"
                         /\ \A i \in DOMAIN results : results[i].id # Named(q)

Ordered == \A q \in Requests : Latest(q) /\ client[q].clean => OrderedQuery(q)

\* Matching events of a subscription, and those of the filters after the k-th.
Topics == [s \in Sub |-> Interested(s)]
Rest ==
    [s \in Sub |-> [k \in Nat |->
        UNION {Filters(s)[j] : j \in {i \in DOMAIN Filters(s) : i > k}}]]

InChannel(q) == {e \in Event : \E i \in DOMAIN results : /\ results[i].id = Named(q)
                                                         /\ results[i].item = e}
Unread(q) ==
    IF PhaseOf(q) \in Executing \cup {"permit"}
    THEN query[q].rows \cup Rest[query[q].sub][query[q].filter] ELSE {}
Coming(q) == client[q].got \cup InChannel(q) \cup Unread(q)
Feed == {bcast[i] : i \in DOMAIN bcast} \cup unsent

Answering == Executing \cup {"permit", "ending", "done"}

\* What the last query of an id owes while it may succeed is received, on its way or still
\* to be read; of what was stored since it asked, on its way or in the feed, unless it was
\* lost there.
CoveredQuery(q) ==
    /\ client[q].asked \subseteq stored
    /\ Latest(q) /\ PhaseOf(q) \in Answering /\ ~client[q].blind =>
           \A e \in Topics[query[q].sub] \cap Sendable :
               /\ e \in client[q].asked => e \in Coming(q)
               /\ q \in Wanted /\ e \in stored /\ e \notin lagged
                      => e \in Coming(q) \/ e \in Feed

\* Rows sent after the query was abandoned: fewer than it has counted since it looked.
PunctualQuery(q) ==
    LET counted == IF query[q].count = 0 THEN CheckEvery ELSE query[q].count
        late    == client[q].late
    IN  /\ query[q].count < CheckEvery
        /\ HasThread(q) /\ ~query[q].abandoned => late = 0
        /\ PhaseOf(q) \in {"permit", "spawned", "entering"} => late = 0
        /\ PhaseOf(q) = "probing" => query[q].count = 0
        /\ PhaseOf(q) \in {"sending", "checked"} => late < counted
        /\ PhaseOf(q) \in {"reading", "probing"} => late <= counted
        /\ PhaseOf(q) = "ending" => late <= CheckEvery
        /\ late <= CheckEvery + 1

Covered == \A q \in Requests : CoveredQuery(q)
Punctual == \A q \in Requests : PunctualQuery(q)

QueryInv ==
    /\ Feeds /\ Maps /\ Queries /\ Tracked /\ Waiting /\ Ordered /\ Covered /\ Punctual
    /\ EoseMeansComplete

-----------------------------------------------------------------------------
(* What the invariant says of one request. *)

LEMMA Constants ==
    /\ Permits \in Nat /\ QueueCap \in Nat /\ BroadcastCap \in Nat \ {0}
    /\ CheckEvery \in Nat \ {0} /\ MaxRequests \in Nat
    /\ \A e \in Event : e # EOSE
BY ReqQueryAssumption

LEMMA RestFacts ==
    ASSUME NEW s \in Sub
    PROVE  /\ Topics[s] = Interested(s) /\ Topics[s] \subseteq Event
           /\ Rest[s][0] = Topics[s]
           /\ Rest[s][Len(Filters(s))] = {}
           /\ \A k \in Nat : k + 1 <= Len(Filters(s)) =>
                  Rest[s][k] \subseteq Filters(s)[k + 1] \cup Rest[s][k + 1]
<1>1. Filters(s) \in Seq(SUBSET Event)
  BY ReqQueryAssumption DEF Filters
<1>2. Len(Filters(s)) \in Nat /\ DOMAIN Filters(s) = 1..Len(Filters(s))
      /\ \A i \in DOMAIN Filters(s) : Filters(s)[i] \subseteq Event
  BY <1>1, Domains
<1>3. \A k \in Nat : Rest[s][k] = UNION {Filters(s)[j] : j \in {i \in DOMAIN Filters(s) : i > k}}
  BY DEF Rest
<1>4. Topics[s] = UNION {Filters(s)[j] : j \in DOMAIN Filters(s)} /\ Topics[s] = Interested(s)
  BY DEF Topics, Interested
<1>5. Rest[s][0] = Topics[s]
  <2>1. {i \in DOMAIN Filters(s) : i > 0} = DOMAIN Filters(s)
    BY <1>2
  <2> QED
    BY <1>3, <1>4, <2>1
<1>6. Rest[s][Len(Filters(s))] = {}
  <2>1. {i \in DOMAIN Filters(s) : i > Len(Filters(s))} = {}
    BY <1>2
  <2> QED
    BY <1>2, <1>3, <2>1
<1>7. ASSUME NEW k \in Nat, k + 1 <= Len(Filters(s)), NEW e \in Rest[s][k]
      PROVE  e \in Filters(s)[k + 1] \cup Rest[s][k + 1]
  <2>1. PICK j \in DOMAIN Filters(s) : j > k /\ e \in Filters(s)[j]
    BY <1>3, <1>7
  <2>2. j = k + 1 \/ j > k + 1
    BY <1>2, <2>1
  <2>3. j > k + 1 => e \in Rest[s][k + 1]
    BY <1>3, <2>1
  <2> QED
    BY <2>1, <2>2, <2>3
<1> QED
  BY <1>2, <1>4, <1>5, <1>6, <1>7

LEMMA Requested ==
    ASSUME QueryInv
    PROVE  /\ Len(query) \in Nat /\ Requests = 1..Len(query) /\ DOMAIN client = Requests
           /\ \A q \in Requests : query[q] \in QueryRecord /\ client[q] \in ClientRecord
BY Domains DEF QueryInv, Queries, Requests

LEMMA RecordTypes ==
    ASSUME NEW r \in QueryRecord
    PROVE  /\ r.sub \in Sub /\ r.phase \in Phase /\ r.filter \in Nat /\ r.rows \subseteq Event
           /\ r.count \in Nat /\ r.abandoned \in BOOLEAN
BY DEF QueryRecord

LEMMA InitLemma == Init => QueryInv
<1> SUFFICES ASSUME Init PROVE QueryInv
  OBVIOUS
<1> USE DEF Init
<1>1. Requests = {} /\ DOMAIN subscriptions = {} /\ DOMAIN results = {} /\ Holders = {}
  BY DEF Requests, Holders
<1>2. Feeds
  BY EmptySeq, Constants DEF Feeds
<1>3. Maps
  BY <1>1 DEF Maps
<1>4. Queries
  <2>1. <<>> \in Seq(QueryRecord) /\ <<>> \in Seq(ClientRecord)
        /\ <<>> \in Seq(Item)
    BY EmptySeq
  <2>2. IsFiniteSet(Holders) /\ Cardinality(Holders) = 0
    BY <1>1, FS_EmptySet
  <2>3. Len(query) = 0 /\ Len(client) = 0 /\ Len(results) = 0
    OBVIOUS
  <2>4. Len(results) <= QueueCap /\ Cardinality(Holders) <= Permits
    BY <2>2, <2>3, Constants
  <2>5. /\ query \in Seq(QueryRecord) /\ client \in Seq(ClientRecord)
        /\ results \in Seq(Item)
    BY <2>1
  <2>6. conn \in {"select", "permit", "closed"} /\ checkpoint \in BOOLEAN
    OBVIOUS
  <2> HIDE DEF Init
  <2> QED
    BY <2>2, <2>3, <2>4, <2>5, <2>6 DEF Queries
<1>5. Tracked /\ Waiting /\ Ordered /\ Covered /\ Punctual /\ EoseMeansComplete
  BY <1>1 DEF Tracked, Wanted, Waiting, Ordered, Covered, Punctual, EoseMeansComplete
<1> QED
  BY <1>2, <1>3, <1>4, <1>5 DEF QueryInv

\* A request nothing happens to.
LEMMA CoveredFrame ==
    ASSUME NEW p, CoveredQuery(p), query'[p] = query[p], client'[p] = client[p],
           Latest(p)' => Latest(p),
           UNCHANGED <<writer, bcast, subscriptions>>,
           InChannel(p) \subseteq InChannel(p)'
    PROVE  CoveredQuery(p)'
<1>1. Feed' = Feed /\ Wanted' = Wanted
  BY DEF Feed, Wanted, writer
<1>2. PhaseOf(p)' = PhaseOf(p) /\ Unread(p)' = Unread(p)
  BY DEF PhaseOf, Unread
<1>3. Coming(p) \subseteq Coming(p)'
  BY <1>2 DEF Coming
<1> QED
  BY <1>1, <1>2, <1>3 DEF CoveredQuery, writer

LEMMA PunctualFrame ==
    ASSUME NEW p, PunctualQuery(p), query'[p] = query[p], client'[p].late = client[p].late
    PROVE  PunctualQuery(p)'
BY DEF PunctualQuery, PhaseOf, HasThread

\* No request is served, or stops being served, but by being made.
LEMMA LatestFrame ==
    ASSUME Requests' = Requests,
           \A p \in Requests : /\ query'[p].sub = query[p].sub
                               /\ query'[p].phase \in Unserved <=> query[p].phase \in Unserved
    PROVE  \A p \in Requests : (Latest(p)' <=> Latest(p)) /\ Named(p)' = Named(p)
<1>1. \A p \in Requests : Named(p)' = Named(p)
  BY DEF Named, SubOf, IdOf
<1>2. \A p \in Requests : PhaseOf(p)' \in Unserved <=> PhaseOf(p) \in Unserved
  BY DEF PhaseOf
<1> QED
  BY <1>1, <1>2 DEF Latest

\* A step that changes no query gives no client an EOSE, and takes nothing away from it.
LEMMA CompleteFrame ==
    ASSUME EoseMeansComplete, Requests' = Requests,
           \A p \in Requests :
               /\ query'[p].sub = query[p].sub
               /\ client'[p].eose => client[p].eose
               /\ client'[p].clean => client[p].clean
               /\ client[p].blind => client'[p].blind
               /\ client'[p].asked \subseteq client[p].asked
               /\ client[p].got \subseteq client'[p].got
    PROVE  EoseMeansComplete'
BY DEF EoseMeansComplete, SubOf, Interested, Filters

\* What comes under an id, when the results are as before and the queries only go on.
LEMMA OrderedFrame ==
    ASSUME Ordered, Requests' = Requests, results' = results,
           \A p \in Requests :
               /\ Latest(p)' => Latest(p)
               /\ query'[p].sub = query[p].sub
               /\ HasThread(p)' => HasThread(p)
               /\ query[p].phase = "done" => query'[p].phase = "done"
               /\ client'[p].eose => client[p].eose
               /\ client'[p].clean => client[p].clean
    PROVE  Ordered'
<1>1. \A p \in Requests : Named(p)' = Named(p)
  BY DEF Named, SubOf, IdOf
<1>2. ASSUME NEW q \in Requests, Latest(q)', client'[q].clean PROVE OrderedQuery(q)'
  <2>1. OrderedQuery(q)
    BY <1>2 DEF Ordered
  <2>2. \A p \in Requests' : HasThread(p)' /\ Named(p)' = Named(q)' => p = q
    BY <1>1, <2>1 DEF OrderedQuery
  <2>3. PhaseOf(q) = "done" => PhaseOf(q)' = "done"
    BY DEF PhaseOf
  <2>4. Named(q)' = Named(q)
    BY <1>1
  <2> QED
    BY <2>1, <2>2, <2>3, <2>4 DEF OrderedQuery
<1> QED
  BY <1>2 DEF Ordered

-----------------------------------------------------------------------------
(* Steps of a thread. *)

\* The thread of q goes on, or returns.
Moves(q, r) ==
    /\ q \in Requests /\ r \in QueryRecord
    /\ query' = [query EXCEPT ![q] = r]
    /\ r.sub = query[q].sub
    /\ PhaseOf(q) \in Executing \cup {"ending"}
    /\ r.phase \in Executing => PhaseOf(q) \in Executing
    /\ \/ r.phase \in Executing \cup {"ending"} /\ r.abandoned = query[q].abandoned
       \/ r.phase \in Ended /\ ~r.abandoned

LEMMA MoveLemma ==
    ASSUME QueryInv, NEW q, NEW r, Moves(q, r), UNCHANGED outside
    PROVE  /\ Feeds' /\ Maps' /\ Tracked'
           /\ Requests' = Requests /\ Len(query') = Len(query)
           /\ query' \in Seq(QueryRecord)
           /\ IsFiniteSet(Holders') /\ Cardinality(Holders') <= Permits
           /\ query'[q] = r
           /\ \A p \in Requests : p # q => query'[p] = query[p]
           /\ conn = "permit" => Len(query) \in Requests' /\ PhaseOf(Len(query))' = "permit"
           /\ \A p \in Requests : /\ Latest(p)' <=> Latest(p)
                                  /\ query'[p].sub = query[p].sub /\ Named(p)' = Named(p)
                                  /\ HasThread(p)' => HasThread(p)
                                  /\ query[p].phase = "done" => query'[p].phase = "done"
<1> USE DEF outside, writer
<1>1. query \in Seq(QueryRecord) /\ q \in DOMAIN query /\ r \in QueryRecord
  BY DEF QueryInv, Queries, Moves, Requests
<1>2. query' = [query EXCEPT ![q] = r]
  BY DEF Moves
<1>3. /\ query' \in Seq(QueryRecord) /\ Len(query') = Len(query) /\ DOMAIN query' = DOMAIN query
      /\ query'[q] = r /\ \A p \in DOMAIN query : p # q => query'[p] = query[p]
  BY <1>1, <1>2, Updated
<1>4. Requests' = Requests
  BY <1>3 DEF Requests
<1>5. Feeds' /\ Maps'
  BY <1>4 DEF QueryInv, Feeds, Maps
<1>6. \A p \in Requests : query'[p].sub = query[p].sub
  BY <1>3 DEF Moves, Requests
<1>61. ASSUME NEW p \in Requests
       PROVE  /\ query'[p].phase \in Unserved <=> query[p].phase \in Unserved
              /\ HasThread(p)' => HasThread(p)
              /\ query[p].phase = "done" => query'[p].phase = "done"
  <2>1. CASE p # q
    BY <1>3, <2>1 DEF Requests, HasThread, PhaseOf
  <2>2. CASE p = q
    BY <1>3, <2>2 DEF Requests, Moves, HasThread, PhaseOf, Unserved, Executing, Ended
  <2> QED
    BY <2>1, <2>2
<1>62. \A p \in Requests : (Latest(p)' <=> Latest(p)) /\ Named(p)' = Named(p)
  BY <1>4, <1>6, <1>61, LatestFrame
<1>7. Tracked'
  <2>1. \A i \in DOMAIN subscriptions : IdOf(SubOf(subscriptions[i]))' = i
    BY <1>6 DEF QueryInv, Tracked, Maps, IdOf, SubOf
  <2>2. Wanted' = Wanted
    BY DEF Wanted
  <2>4. \A p \in Wanted : p \in Requests /\ Latest(p)'
    BY <1>62 DEF QueryInv, Tracked, Maps, Wanted
  <2>3. ASSUME NEW p \in Requests
        PROVE  /\ p \in Wanted => ~query'[p].abandoned
               /\ HasThread(p)' /\ p \notin Wanted => query'[p].abandoned
    <3>1. CASE p # q
      BY <1>3, <3>1 DEF QueryInv, Tracked, HasThread, PhaseOf, Requests
    <3>2. CASE p = q
      BY <1>3, <3>2 DEF QueryInv, Tracked, HasThread, PhaseOf, Moves, Ended, Executing
    <3> QED
      BY <3>1, <3>2
  <2> QED
    BY <1>4, <2>1, <2>2, <2>3, <2>4 DEF Tracked
<1>8. Holders' \subseteq Holders
  BY <1>3, <1>4 DEF Holders, PhaseOf, Moves, Requests
<1>9. IsFiniteSet(Holders') /\ Cardinality(Holders') <= Permits
  <2>1. /\ IsFiniteSet(Holders') /\ Cardinality(Holders') <= Cardinality(Holders)
        /\ Cardinality(Holders') \in Nat /\ Cardinality(Holders) \in Nat
    BY <1>8, FS_Subset, FS_CardinalityType DEF QueryInv, Queries
  <2> QED
    BY <2>1, Constants DEF QueryInv, Queries
<1>10. conn = "permit" => Len(query) \in Requests' /\ PhaseOf(Len(query))' = "permit"
  BY <1>3, <1>4 DEF QueryInv, Waiting, Moves, PhaseOf, Requests, Executing
<1> QED
  BY <1>3, <1>4, <1>5, <1>6, <1>61, <1>62, <1>7, <1>9, <1>10 DEF Requests

\* The rows are counted modulo CheckEvery.
LEMMA Counting ==
    \A c \in Nat, n \in Nat \ {0} : c < n => (c + 1) % n = IF c + 1 = n THEN 0 ELSE c + 1
OBVIOUS

LEMMA ResultTypes ==
    ASSUME QueryInv
    PROVE  \A i \in DOMAIN results : /\ results[i].id \in SubId
                                     /\ results[i].item \in Event \cup {EOSE}
<1>1. \A i \in DOMAIN results : results[i] \in Item
  BY Domains DEF QueryInv, Queries
<1> QED
  BY <1>1 DEF Item

\* A step of the thread that sends nothing.
LEMMA SilentStep ==
    ASSUME QueryInv, NEW q, NEW r, Moves(q, r), UNCHANGED <<outside, results, client>>,
           CoveredQuery(q)', PunctualQuery(q)'
    PROVE  QueryInv'
<1>1. /\ Feeds' /\ Maps' /\ Tracked' /\ Requests' = Requests /\ Len(query') = Len(query)
      /\ query' \in Seq(QueryRecord)
      /\ IsFiniteSet(Holders') /\ Cardinality(Holders') <= Permits
      /\ query'[q] = r /\ \A p \in Requests : p # q => query'[p] = query[p]
      /\ conn = "permit" => Len(query) \in Requests' /\ PhaseOf(Len(query))' = "permit"
  BY MoveLemma DEF outside
<1>2. Queries'
  BY <1>1 DEF QueryInv, Queries, outside
<1>3. Waiting'
  BY <1>1 DEF QueryInv, Waiting, outside
<1>5. Ordered' /\ EoseMeansComplete'
  <2>1. \A p \in Requests : /\ Latest(p)' => Latest(p)
                            /\ query'[p].sub = query[p].sub
                            /\ HasThread(p)' => HasThread(p)
                            /\ query[p].phase = "done" => query'[p].phase = "done"
    BY MoveLemma
  <2>2. Ordered'
    BY <1>1, <2>1, OrderedFrame DEF QueryInv
  <2>3. EoseMeansComplete'
    BY <1>1, <2>1, CompleteFrame DEF QueryInv
  <2> QED
    BY <2>2, <2>3
<1>6. \A p \in Requests : InChannel(p)' = InChannel(p) /\ (Latest(p)' <=> Latest(p))
  BY MoveLemma DEF InChannel
<1>7. Covered'
  <2>1. ASSUME NEW p \in Requests, p # q PROVE CoveredQuery(p)'
    BY <1>1, <1>6, <2>1, CoveredFrame DEF QueryInv, Covered, outside
  <2> QED
    BY <1>1, <2>1 DEF Covered
<1>8. Punctual'
  <2>1. ASSUME NEW p \in Requests, p # q PROVE PunctualQuery(p)'
    BY <1>1, <2>1, PunctualFrame DEF QueryInv, Punctual
  <2> QED
    BY <1>1, <2>1 DEF Punctual
<1> QED
  BY <1>1, <1>2, <1>3, <1>5, <1>7, <1>8 DEF QueryInv

\* The thread returns without an EOSE.
LEMMA ReturnStep ==
    ASSUME QueryInv, NEW q \in Requests, PhaseOf(q) \in Executing,
           NEW phase \in Ended \ {"done"}, Return(q, phase)
    PROVE  QueryInv'
<1> DEFINE r == Request(SubOf(q), phase)
<1>1. /\ query[q] \in QueryRecord /\ client[q] \in ClientRecord /\ query[q].sub \in Sub
      /\ query \in Seq(QueryRecord) /\ q \in DOMAIN query
  BY Requested, RecordTypes DEF QueryInv, Queries, Requests
<1>2. r \in QueryRecord
  BY <1>1 DEF Request, SubOf, QueryRecord, Phase
<1>3. query' = [query EXCEPT ![q] = r] /\ UNCHANGED <<outside, results, client>>
  BY DEF Return
<1>4. Moves(q, r)
  BY <1>1, <1>2, <1>3 DEF Moves, Request, SubOf, Ended, Executing
<1>5. query'[q] = r
  BY <1>1, <1>2, <1>3, Updated
<1>6. CoveredQuery(q)'
  <2>1. PhaseOf(q)' \notin Answering
    BY <1>5 DEF PhaseOf, Request, Answering, Ended, Executing
  <2> QED
    BY <1>3, <2>1 DEF QueryInv, Covered, CoveredQuery, outside, writer
<1>7. PunctualQuery(q)'
  <2>1. ~HasThread(q)' /\ PhaseOf(q)' \notin Executing \cup {"permit", "ending"}
    BY <1>5 DEF HasThread, PhaseOf, Request, Ended, Executing
  <2>2. query'[q].count = 0
    BY <1>5 DEF Request
  <2> QED
    BY <1>3, <2>1, <2>2, Constants DEF QueryInv, Punctual, PunctualQuery, Executing
<1> QED
  BY <1>3, <1>4, <1>6, <1>7, SilentStep

\* The thread goes on to another point of its loop, with the same rows before it.
LEMMA AdvanceStep ==
    ASSUME QueryInv, NEW q \in Requests, PhaseOf(q) \in Executing,
           NEW phase \in Executing, NEW n \in Nat,
           query' = [query EXCEPT ![q] = [query[q] EXCEPT !.phase = phase, !.count = n]],
           UNCHANGED <<outside, results, client>>,
           PunctualQuery(q)'
    PROVE  QueryInv'
<1> DEFINE r == [query[q] EXCEPT !.phase = phase, !.count = n]
<1>1. /\ query[q] \in QueryRecord /\ query \in Seq(QueryRecord) /\ q \in DOMAIN query
  BY Requested DEF QueryInv, Queries, Requests
<1>2. /\ r \in QueryRecord /\ r.sub = query[q].sub /\ r.phase = phase
      /\ r.filter = query[q].filter /\ r.rows = query[q].rows
      /\ r.abandoned = query[q].abandoned
  BY <1>1 DEF QueryRecord, Phase
<1>3. Moves(q, r)
  BY <1>2 DEF Moves
<1>4. query'[q] = r
  BY <1>1, <1>2, Updated
<1>m. (Latest(q)' <=> Latest(q)) /\ Named(q)' = Named(q)
  BY <1>3, MoveLemma
<1>5. CoveredQuery(q)'
  <2>1. CoveredQuery(q) /\ PhaseOf(q) \in Answering
    BY DEF QueryInv, Covered, Answering
  <2>2. Unread(q)' = Unread(q) /\ InChannel(q)' = InChannel(q)
    BY <1>2, <1>4, <1>m DEF Unread, InChannel, PhaseOf
  <2>3. Coming(q)' = Coming(q) /\ Feed' = Feed /\ Wanted' = Wanted
    BY <2>2 DEF Coming, Feed, Wanted, outside, writer
  <2> QED
    BY <1>2, <1>4, <1>m, <2>1, <2>3 DEF CoveredQuery, outside, writer
<1> HIDE DEF r
<1> QED
  BY <1>3, <1>5, SilentStep

LEMMA Ending ==
    /\ Ended \ {"done"} = {"shed", "cancelled", "slow", "preempted", "failed"}
    /\ {"spawned", "entering", "reading", "probing", "sending", "checked"} = Executing
BY DEF Ended, Executing

\* Steps that only change the phase, or count a row.
LEMMA PacedStep ==
    ASSUME QueryInv, NEW q \in Requests,
           \/ Enter(q) \/ Shed(q) \/ Start(q) \/ Fail(q) \/ Probe(q) \/ Probed(q)
           \/ NextRow(q) \/ Preempted(q) \/ SeeRoom(q) \/ SlowClient(q)
    PROVE  QueryInv'
<1> DEFINE c == query[q].count
           l == client[q].late
<1>1. /\ query[q] \in QueryRecord /\ query \in Seq(QueryRecord) /\ q \in DOMAIN query
      /\ c \in Nat /\ l \in Nat
  BY Requested DEF QueryInv, Queries, Requests, QueryRecord, ClientRecord
<1>2. PunctualQuery(q) /\ CheckEvery \in Nat \ {0}
  BY Constants DEF QueryInv, Punctual
<1>3. \A phase, n : LET r == [query[q] EXCEPT !.phase = phase, !.count = n] IN
          /\ r.phase = phase /\ r.count = n /\ r.abandoned = query[q].abandoned
          /\ phase \in Executing /\ n \in Nat => r \in QueryRecord
  BY <1>1 DEF QueryRecord, Phase
<1>4. ASSUME NEW phase \in Executing, PhaseOf(q) \in Executing, Become(q, phase),
             \/ PhaseOf(q) = "spawned" /\ phase = "entering"
             \/ PhaseOf(q) = "entering" /\ phase = "reading"
             \/ PhaseOf(q) = "reading" /\ phase = "probing" /\ c = 0
             \/ PhaseOf(q) = "sending" /\ phase = "checked"
      PROVE  QueryInv'
  <2> DEFINE r == [query[q] EXCEPT !.phase = phase, !.count = c]
  <2>1. query' = [query EXCEPT ![q] = r] /\ UNCHANGED <<outside, results, client>>
    BY <1>1, <1>4 DEF Become, QueryRecord
  <2>2. query'[q] = r
    BY <1>1, <1>3, <1>4, <2>1, Updated
  <2>3. query'[q].phase = phase /\ query'[q].count = c
        /\ query'[q].abandoned = query[q].abandoned /\ client' = client
    <3> HIDE DEF c
    <3>1. r.phase = phase /\ r.count = c /\ r.abandoned = query[q].abandoned
      BY <1>3
    <3> QED
      BY <2>1, <2>2, <3>1
  <2>4. /\ c < CheckEvery /\ (~query[q].abandoned => l = 0) /\ l <= CheckEvery + 1
        /\ PhaseOf(q) \in {"spawned", "entering"} => l = 0
        /\ PhaseOf(q) = "reading" => l <= IF c = 0 THEN CheckEvery ELSE c
        /\ PhaseOf(q) = "sending" => l < IF c = 0 THEN CheckEvery ELSE c
    BY <1>2, <1>4 DEF PunctualQuery, HasThread
  <2>5. PunctualQuery(q)'
    BY <1>1, <1>2, <1>4, <2>3, <2>4 DEF PunctualQuery, HasThread, PhaseOf
  <2> QED
    BY <1>1, <1>4, <2>1, <2>5, AdvanceStep
<1>5. ASSUME PhaseOf(q) \in {"probing", "reading"}, CountRow(q, "sending"),
             \/ PhaseOf(q) = "probing" /\ ~query[q].abandoned
             \/ PhaseOf(q) = "reading" /\ c # 0
      PROVE  QueryInv'
  <2> DEFINE n == (c + 1) % CheckEvery
             r == [query[q] EXCEPT !.phase = "sending", !.count = n]
  <2>1. query' = [query EXCEPT ![q] = r] /\ UNCHANGED <<outside, results, client>>
    BY <1>5 DEF CountRow
  <2>2. c < CheckEvery
    BY <1>2 DEF PunctualQuery
  <2>3. n = IF c + 1 = CheckEvery THEN 0 ELSE c + 1
    BY <1>1, <1>2, <2>2, Counting
  <2>4. n \in Nat /\ "sending" \in Executing /\ PhaseOf(q) \in Executing
    BY <1>1, <1>5, <2>3 DEF Executing
  <2> HIDE DEF n
  <2>5. query'[q] = r
    BY <1>1, <1>3, <2>1, <2>4, Updated
  <2>6. query'[q].phase = "sending" /\ query'[q].count = n
        /\ query'[q].abandoned = query[q].abandoned /\ client' = client
    <3>1. r.phase = "sending" /\ r.count = n /\ r.abandoned = query[q].abandoned
      BY <1>3
    <3> QED
      BY <2>1, <2>5, <3>1
  <2>7. CASE PhaseOf(q) = "probing"
    <3>1. l = 0 /\ c = 0
      BY <1>2, <1>5, <2>7 DEF PunctualQuery, HasThread, Executing
    <3>2. PunctualQuery(q)'
      BY <1>1, <1>2, <2>2, <2>3, <2>6, <3>1 DEF PunctualQuery, HasThread, PhaseOf, Executing
    <3> QED
      BY <2>1, <2>4, <3>2, AdvanceStep
  <2>8. CASE PhaseOf(q) = "reading"
    <3>1. l <= c /\ c # 0 /\ (~query[q].abandoned => l = 0)
      BY <1>2, <1>5, <2>8 DEF PunctualQuery, HasThread, Executing
    <3>2. PunctualQuery(q)'
      BY <1>1, <1>2, <2>2, <2>3, <2>6, <3>1 DEF PunctualQuery, HasThread, PhaseOf, Executing
    <3> QED
      BY <2>1, <2>4, <3>2, AdvanceStep
  <2> QED
    BY <1>5, <2>7, <2>8
<1>6. ASSUME NEW phase \in Ended \ {"done"}, PhaseOf(q) \in Executing, Return(q, phase)
      PROVE  QueryInv'
  BY <1>6, ReturnStep
<1>7. CASE Enter(q) \/ Probe(q) \/ SeeRoom(q)
  BY <1>4, <1>7, Ending DEF Enter, Probe, SeeRoom, AtCheck
<1>8. CASE Start(q) \/ Probed(q) \/ NextRow(q)
  BY <1>4, <1>5, <1>6, <1>8, Ending DEF Start, Probed, NextRow
<1>9. CASE Shed(q) \/ Fail(q) \/ Preempted(q) \/ SlowClient(q)
  BY <1>6, <1>9, Ending DEF Shed, Fail, Preempted, SlowClient, AtCheck
<1> QED
  BY <1>7, <1>8, <1>9

\* No connection could be had: the query is over, and the client is told nothing else.
LEMMA BlindStep ==
    ASSUME QueryInv, NEW q \in Requests, StartBlind(q)
    PROVE  QueryInv'
<1> DEFINE r == [query[q] EXCEPT !.phase = "ending"]
           blind == (conn # "closed")
           d == [client[q] EXCEPT !.blind = blind]
<1>1. /\ query[q] \in QueryRecord /\ query \in Seq(QueryRecord) /\ q \in DOMAIN query
      /\ client[q] \in ClientRecord /\ client \in Seq(ClientRecord) /\ q \in DOMAIN client
      /\ DOMAIN client = Requests
  BY Requested DEF QueryInv, Queries, Requests
<1>2. /\ r \in QueryRecord /\ r.sub = query[q].sub /\ r.phase = "ending"
      /\ r.abandoned = query[q].abandoned /\ r.count = query[q].count
  BY <1>1 DEF QueryRecord, Phase
<1>3. /\ d \in ClientRecord /\ d.blind = blind /\ d.late = client[q].late
      /\ d.asked = client[q].asked /\ d.eose = client[q].eose
      /\ d.clean = client[q].clean /\ d.got = client[q].got
  BY <1>1 DEF ClientRecord
<1>4. /\ PhaseOf(q) = "entering" /\ client' = [client EXCEPT ![q] = d]
      /\ query' = [query EXCEPT ![q] = r]
      /\ UNCHANGED <<outside, results>>
  BY DEF StartBlind
<1> HIDE DEF r, d
<1>5. Moves(q, r)
  BY <1>2, <1>4 DEF Moves, Executing
<1>6. /\ Feeds' /\ Maps' /\ Tracked' /\ Requests' = Requests /\ Len(query') = Len(query)
      /\ query' \in Seq(QueryRecord)
      /\ IsFiniteSet(Holders') /\ Cardinality(Holders') <= Permits
      /\ query'[q] = r /\ \A p \in Requests : p # q => query'[p] = query[p]
      /\ conn = "permit" => Len(query) \in Requests' /\ PhaseOf(Len(query))' = "permit"
      /\ \A p \in Requests : /\ Latest(p)' <=> Latest(p)
                             /\ query'[p].sub = query[p].sub /\ Named(p)' = Named(p)
                             /\ HasThread(p)' => HasThread(p)
                             /\ query[p].phase = "done" => query'[p].phase = "done"
  BY <1>4, <1>5, MoveLemma DEF outside
<1>7. /\ client' \in Seq(ClientRecord) /\ Len(client') = Len(client) /\ DOMAIN client' = Requests
      /\ client'[q] = d /\ \A p \in Requests : p # q => client'[p] = client[p]
  BY <1>1, <1>3, <1>4, Updated
<1>8. \A p \in Requests : /\ client'[p].asked = client[p].asked
                          /\ client'[p].eose = client[p].eose
                          /\ client'[p].late = client[p].late
                          /\ client'[p].clean = client[p].clean
                          /\ client'[p].got = client[p].got
  BY <1>3, <1>7
<1>9. Queries'
  BY <1>4, <1>6, <1>7 DEF QueryInv, Queries, outside
<1>10. Waiting'
  BY <1>4, <1>6, <1>8 DEF QueryInv, Waiting, outside
<1>11. Ordered'
  BY <1>4, <1>6, <1>8, OrderedFrame DEF QueryInv
<1>12. \A p \in Requests : InChannel(p)' = InChannel(p)
  BY <1>4, <1>6 DEF InChannel
<1>13. Covered'
  <2>1. ASSUME NEW p \in Requests, p # q PROVE CoveredQuery(p)'
    BY <1>4, <1>6, <1>7, <1>12, <2>1, CoveredFrame DEF QueryInv, Covered, outside
  <2>2. ASSUME conn # "closed" PROVE CoveredQuery(q)'
    <3>1. client'[q].blind /\ client'[q].asked = client[q].asked /\ stored' = stored
      BY <1>3, <1>4, <1>7, <2>2 DEF outside, writer
    <3> QED
      BY <3>1 DEF QueryInv, Covered, CoveredQuery
  <2>3. ASSUME conn = "closed" PROVE CoveredQuery(q)'
    <3>1. client'[q].asked = {} /\ DOMAIN subscriptions' = {}
      BY <1>4, <1>8, <2>3 DEF QueryInv, Waiting, outside
    <3>2. Wanted' = {}
      BY <3>1 DEF Wanted
    <3> QED
      BY <3>1, <3>2 DEF CoveredQuery
  <2> QED
    BY <1>6, <2>1, <2>2, <2>3 DEF Covered
<1>15. EoseMeansComplete'
  <2>1. CASE conn = "closed"
    BY <1>4, <1>6, <1>8, <2>1 DEF QueryInv, Waiting, EoseMeansComplete, outside
  <2>2. CASE conn # "closed"
    <3>1. \A p \in Requests : client[p].blind => client'[p].blind
      BY <1>3, <1>7, <2>2
    <3> QED
      BY <1>6, <1>8, <3>1, CompleteFrame DEF QueryInv
  <2> QED
    BY <2>1, <2>2
<1>14. Punctual'
  <2>1. ASSUME NEW p \in Requests, p # q PROVE PunctualQuery(p)'
    BY <1>6, <1>8, <2>1, PunctualFrame DEF QueryInv, Punctual
  <2>2. client[q].late = 0 /\ query[q].count < CheckEvery
    BY <1>4 DEF QueryInv, Punctual, PunctualQuery
  <2>3. PunctualQuery(q)'
    BY <1>2, <1>6, <1>8, <2>2, Constants DEF PunctualQuery, PhaseOf, HasThread, Executing
  <2> QED
    BY <1>6, <2>1, <2>3 DEF Punctual
<1> QED
  BY <1>6, <1>9, <1>10, <1>11, <1>13, <1>14, <1>15 DEF QueryInv

\* A filter is read from what is stored now, which includes what was stored before.
LEMMA FilterStep ==
    ASSUME QueryInv, NEW q \in Requests, NextFilter(q)
    PROVE  QueryInv'
<1> DEFINE s == query[q].sub
           k == query[q].filter + 1
           rows == stored \cap Filters(s)[k]
           r == [query[q] EXCEPT !.filter = k, !.rows = rows]
<1>1. /\ query[q] \in QueryRecord /\ query \in Seq(QueryRecord) /\ q \in DOMAIN query
      /\ s \in Sub /\ query[q].filter \in Nat /\ k \in Nat
  BY Requested, RecordTypes DEF QueryInv, Queries, Requests
<1>2. /\ PhaseOf(q) = "reading" /\ query[q].rows = {} /\ k <= Len(Filters(s))
      /\ query' = [query EXCEPT ![q] = r] /\ UNCHANGED <<outside, results, client>>
  BY DEF NextFilter, SubOf
<1>3. rows \subseteq Event /\ stored \subseteq Event
  BY DEF QueryInv, Feeds
<1>4. /\ r \in QueryRecord /\ r.sub = s /\ r.phase = "reading" /\ r.rows = rows
      /\ r.filter = k /\ r.abandoned = query[q].abandoned /\ r.count = query[q].count
  <2> HIDE DEF k, rows, s
  <2> QED
    BY <1>1, <1>2, <1>3 DEF QueryRecord, PhaseOf, s
<1> HIDE DEF r
<1>5. Moves(q, r)
  BY <1>2, <1>4 DEF Moves, Executing
<1>6. query'[q] = r
  BY <1>1, <1>2, <1>4, Updated
<1>m. (Latest(q)' <=> Latest(q)) /\ Named(q)' = Named(q)
  BY <1>2, <1>5, MoveLemma
<1>7. CoveredQuery(q)'
  <2>1. CoveredQuery(q) /\ PhaseOf(q) \in Answering /\ PhaseOf(q) \in Executing
    BY <1>2 DEF QueryInv, Covered, Answering, Executing
  <2>2. Unread(q) \subseteq Filters(s)[k] \cup Rest[s][k]
    BY <1>1, <1>2, RestFacts DEF Unread, Executing
  <2>3. Unread(q)' = rows \cup Rest[s][k]
    BY <1>4, <1>6 DEF Unread, PhaseOf, Executing
  <2>4. Feed' = Feed /\ Wanted' = Wanted /\ InChannel(q)' = InChannel(q)
    BY <1>2, <1>m DEF Feed, Wanted, InChannel, outside, writer
  <2>5. \A e \in stored : e \in Coming(q) => e \in Coming(q)'
    BY <1>2, <2>2, <2>3, <2>4 DEF Coming
  <2>6. client' = client /\ stored' = stored /\ lagged' = lagged /\ query'[q].sub = s
    BY <1>2, <1>4, <1>6 DEF outside, writer
  <2> HIDE DEF s, k, rows
  <2> QED
    BY <1>m, <2>1, <2>4, <2>5, <2>6 DEF CoveredQuery, s
<1>8. PunctualQuery(q)'
  BY <1>2, <1>4, <1>6 DEF QueryInv, Punctual, PunctualQuery, PhaseOf, HasThread
<1> QED
  BY <1>2, <1>5, <1>7, <1>8, SilentStep

\* After the last filter there is nothing left to read.
LEMMA FinishStep ==
    ASSUME QueryInv, NEW q \in Requests, Finish(q)
    PROVE  QueryInv'
<1> DEFINE s == query[q].sub
           r == [query[q] EXCEPT !.phase = "ending"]
<1>1. /\ query[q] \in QueryRecord /\ query \in Seq(QueryRecord) /\ q \in DOMAIN query
      /\ s \in Sub /\ query[q].count \in Nat
      /\ client[q].late \in Nat
  BY Requested, RecordTypes DEF QueryInv, Queries, Requests, ClientRecord
<1>2. /\ PhaseOf(q) = "reading" /\ query[q].rows = {} /\ query[q].filter = Len(Filters(s))
      /\ query' = [query EXCEPT ![q] = r] /\ UNCHANGED <<outside, results, client>>
  BY DEF Finish, SubOf, Become
<1>3. /\ r \in QueryRecord /\ r.sub = s /\ r.phase = "ending"
      /\ r.abandoned = query[q].abandoned /\ r.count = query[q].count
  BY <1>1 DEF QueryRecord, Phase
<1> HIDE DEF r
<1>4. Moves(q, r)
  BY <1>2, <1>3 DEF Moves, Executing
<1>5. query'[q] = r
  BY <1>1, <1>2, <1>3, Updated
<1>m. (Latest(q)' <=> Latest(q)) /\ Named(q)' = Named(q)
  BY <1>2, <1>4, MoveLemma
<1>6. CoveredQuery(q)'
  <2>1. CoveredQuery(q) /\ PhaseOf(q) \in Answering
    BY <1>2 DEF QueryInv, Covered, Answering, Executing
  <2>2. Unread(q) = {}
    BY <1>1, <1>2, RestFacts DEF Unread
  <2>3. Feed' = Feed /\ Wanted' = Wanted /\ InChannel(q)' = InChannel(q)
    BY <1>2, <1>m DEF Feed, Wanted, InChannel, outside, writer
  <2>4. Coming(q) \subseteq Coming(q)'
    BY <1>2, <2>2, <2>3 DEF Coming
  <2>5. client' = client /\ stored' = stored /\ lagged' = lagged /\ query'[q].sub = s
    BY <1>2, <1>3, <1>5 DEF outside, writer
  <2> HIDE DEF s
  <2> QED
    BY <1>m, <2>1, <2>3, <2>4, <2>5 DEF CoveredQuery, s
<1>7. PunctualQuery(q)'
  <2>1. /\ query[q].count < CheckEvery /\ client[q].late <= CheckEvery
        /\ client[q].late <= CheckEvery + 1 /\ (~query[q].abandoned => client[q].late = 0)
    BY <1>1, <1>2, Constants DEF QueryInv, Punctual, PunctualQuery, HasThread, Executing
  <2> QED
    BY <1>2, <1>3, <1>5, <2>1 DEF PunctualQuery, PhaseOf, HasThread, Executing
<1> QED
  BY <1>2, <1>4, <1>6, <1>7, SilentStep

\* A step that sends an item: one row, or the EOSE after which the query is done.
LEMMA SentStep ==
    ASSUME QueryInv, NEW q, NEW r, Moves(q, r), NEW item \in Event \cup {EOSE},
           conn # "closed", Send(q, item), UNCHANGED outside,
           item = EOSE => r.phase = "done",
           CoveredQuery(q)', PunctualQuery(q)'
    PROVE  QueryInv'
<1> DEFINE x == [id |-> Named(q), item |-> item]
           late == IF query[q].abandoned THEN client[q].late + 1 ELSE client[q].late
           d == [client[q] EXCEPT !.late = late]
<1>1. /\ q \in Requests /\ q \in DOMAIN client /\ DOMAIN client = Requests
      /\ client \in Seq(ClientRecord) /\ client[q] \in ClientRecord /\ client[q].late \in Nat
      /\ results \in Seq(Item) /\ x \in Item /\ Len(results) \in Nat
  <2>1. q \in Requests
    BY DEF Moves
  <2>2. results \in Seq(Item)
    BY DEF QueryInv, Queries
  <2>3. Len(results) \in Nat
    BY <2>2, Domains
  <2>5. query[q].sub \in Sub
    BY <2>1, Requested, RecordTypes
  <2>6. Named(q) \in SubId
    BY <2>5, ReqQueryAssumption DEF Named, SubOf, IdOf
  <2>4. x \in Item
    BY <2>6 DEF Item
  <2> QED
    BY <2>1, <2>2, <2>3, <2>4, Requested DEF QueryInv, Queries, ClientRecord
<1>2. ~Full /\ results' = Append(results, x) /\ client' = [client EXCEPT ![q] = d]
  BY DEF Send
<1>3. /\ d \in ClientRecord /\ d.late = late /\ d.asked = client[q].asked
      /\ d.eose = client[q].eose /\ d.got = client[q].got /\ d.blind = client[q].blind
      /\ d.clean = client[q].clean
  <2>1. late \in Nat
    BY <1>1
  <2> HIDE DEF late
  <2> QED
    BY <1>1, <2>1 DEF ClientRecord
<1>4. x.id = Named(q) /\ x.item = item
  OBVIOUS
<1> HIDE DEF d, x
<1>5. /\ Feeds' /\ Maps' /\ Tracked' /\ Requests' = Requests /\ Len(query') = Len(query)
      /\ query' \in Seq(QueryRecord)
      /\ IsFiniteSet(Holders') /\ Cardinality(Holders') <= Permits
      /\ query'[q] = r /\ \A p \in Requests : p # q => query'[p] = query[p]
      /\ conn = "permit" => Len(query) \in Requests' /\ PhaseOf(Len(query))' = "permit"
      /\ \A p \in Requests : /\ Latest(p)' <=> Latest(p)
                             /\ query'[p].sub = query[p].sub /\ Named(p)' = Named(p)
                             /\ HasThread(p)' => HasThread(p)
                             /\ query[p].phase = "done" => query'[p].phase = "done"
  BY MoveLemma
<1>6. /\ client' \in Seq(ClientRecord) /\ Len(client') = Len(client) /\ DOMAIN client' = Requests
      /\ client'[q] = d /\ \A p \in Requests : p # q => client'[p] = client[p]
  BY <1>1, <1>2, <1>3, Updated
<1>7. /\ results' \in Seq(Item) /\ Len(results') = Len(results) + 1
      /\ DOMAIN results' = DOMAIN results \cup {Len(results) + 1}
      /\ Len(results) + 1 \notin DOMAIN results
      /\ results'[Len(results) + 1] = x
      /\ \A i \in DOMAIN results : results'[i] = results[i]
  BY <1>1, <1>2, Extended
<1>8. DOMAIN results = 1..Len(results)
  BY <1>1, Domains
<1>9. Queries'
  <2>1. Len(results') <= QueueCap
    BY <1>1, <1>2, <1>7, Constants DEF Full
  <2> QED
    BY <1>5, <1>6, <1>7, <2>1 DEF QueryInv, Queries, outside
<1>10. Waiting'
  <2>1. conn' = conn
    BY DEF outside
  <2> QED
    BY <1>5, <2>1 DEF Waiting
<1>11. HasThread(q) /\ PhaseOf(q) # "done" /\ query'[q].phase = r.phase
  BY <1>5 DEF Moves, HasThread, Executing
<1>12. \A p \in Requests : /\ client'[p].eose = client[p].eose /\ client'[p].clean = client[p].clean
                           /\ client'[p].asked = client[p].asked /\ client'[p].got = client[p].got
                           /\ client'[p].blind = client[p].blind
  BY <1>3, <1>6
<1>17. EoseMeansComplete'
  BY <1>5, <1>12, CompleteFrame DEF QueryInv
<1>13. Ordered'
  <2>1. ASSUME NEW p \in Requests, Latest(p)', client'[p].clean PROVE OrderedQuery(p)'
    <3>1. Latest(p) /\ client[p].clean
      BY <1>5, <1>12, <2>1
    <3>2. OrderedQuery(p)
      BY <3>1 DEF QueryInv, Ordered
    <3>3. Named(q) = Named(p) => q = p
      BY <1>1, <1>11, <3>2 DEF OrderedQuery
    <3>4. \A i \in DOMAIN results : results[i].id = Named(q) /\ q = p => results[i].item # EOSE
      BY <1>11, <3>2 DEF OrderedQuery
    <3>5. ASSUME NEW i \in DOMAIN results', NEW j \in DOMAIN results', i < j,
                 results'[i].id = Named(p), results'[j].id = Named(p)
          PROVE  results'[i].item # EOSE
      <4>1. i \in DOMAIN results
        BY <1>7, <1>8, <1>1, <3>5
      <4>2. CASE j \in DOMAIN results
        BY <1>7, <3>2, <3>5, <4>1, <4>2 DEF OrderedQuery
      <4>3. CASE j = Len(results) + 1
        BY <1>4, <1>7, <3>3, <3>4, <3>5, <4>1, <4>3
      <4> QED
        BY <1>7, <4>2, <4>3
    <3>6. ASSUME NEW i \in DOMAIN results', results'[i].id = Named(p), results'[i].item = EOSE
          PROVE  query'[p].phase = "done"
      <4>1. CASE i \in DOMAIN results
        BY <1>5, <1>7, <3>2, <3>6, <4>1 DEF OrderedQuery, PhaseOf
      <4>2. CASE i = Len(results) + 1
        BY <1>4, <1>5, <1>7, <3>3, <3>6, <4>2
      <4> QED
        BY <1>7, <4>1, <4>2
    <3>7. ASSUME client'[p].eose
          PROVE  query'[p].phase = "done" /\ \A i \in DOMAIN results' : results'[i].id # Named(p)
      <4>1. /\ query[p].phase = "done" /\ \A i \in DOMAIN results : results[i].id # Named(p)
        BY <1>12, <3>2, <3>7 DEF OrderedQuery, PhaseOf
      <4>2. Named(q) # Named(p)
        BY <1>11, <3>3, <4>1 DEF PhaseOf
      <4> QED
        BY <1>4, <1>5, <1>7, <4>1, <4>2
    <3>8. ASSUME NEW u \in Requests, HasThread(u)', Named(u) = Named(p) PROVE u = p
      BY <1>5, <3>2, <3>8 DEF OrderedQuery
    <3>9. Named(p)' = Named(p) /\ (\A u \in Requests : Named(u)' = Named(u)) /\ Requests' = Requests
      BY <1>5
    <3> QED
      BY <3>5, <3>6, <3>7, <3>8, <3>9 DEF OrderedQuery, PhaseOf
  <2> QED
    BY <1>5, <2>1 DEF Ordered
<1>14. \A p \in Requests : InChannel(p) \subseteq InChannel(p)'
  BY <1>5, <1>7 DEF InChannel
<1>15. Covered'
  <2>1. ASSUME NEW p \in Requests, p # q PROVE CoveredQuery(p)'
    BY <1>5, <1>6, <1>14, <2>1, CoveredFrame DEF QueryInv, Covered, outside
  <2> QED
    BY <1>5, <2>1 DEF Covered
<1>16. Punctual'
  <2>1. ASSUME NEW p \in Requests, p # q PROVE PunctualQuery(p)'
    BY <1>5, <1>6, <2>1, PunctualFrame DEF QueryInv, Punctual
  <2> QED
    BY <1>5, <2>1 DEF Punctual
<1> QED
  BY <1>5, <1>9, <1>10, <1>13, <1>15, <1>16, <1>17 DEF QueryInv

\* What sending does to the record of the client.
LEMMA SentRecord ==
    ASSUME QueryInv, NEW q \in Requests, NEW item, conn # "closed", Send(q, item)
    PROVE  /\ client'[q].late = IF query[q].abandoned THEN client[q].late + 1 ELSE client[q].late
           /\ client'[q].asked = client[q].asked /\ client'[q].got = client[q].got
           /\ client'[q].blind = client[q].blind
           /\ results' = Append(results, [id |-> Named(q), item |-> item])
<1> DEFINE late == IF query[q].abandoned THEN client[q].late + 1 ELSE client[q].late
           d == [client[q] EXCEPT !.late = late]
<1>1. q \in DOMAIN client /\ client[q] \in ClientRecord
  BY Requested
<1>2. client' = [client EXCEPT ![q] = d] /\ results' = Append(results, [id |-> Named(q), item |-> item])
  BY DEF Send
<1>3. d.late = late /\ d.asked = client[q].asked /\ d.got = client[q].got /\ d.blind = client[q].blind
  <2> HIDE DEF late
  <2> QED
    BY <1>1 DEF ClientRecord
<1> HIDE DEF d
<1>4. client'[q] = d
  BY <1>1, <1>2
<1> QED
  BY <1>2, <1>3, <1>4

LEMMA NobodyThere ==
    ASSUME QueryInv, NEW q \in Requests, conn = "closed",
           client' = client, subscriptions' = subscriptions, stored' = stored
    PROVE  CoveredQuery(q)'
<1>1. client'[q].asked = {} /\ DOMAIN subscriptions' = {}
  BY DEF QueryInv, Waiting
<1>2. Wanted' = {}
  BY <1>1 DEF Wanted
<1> QED
  BY <1>1, <1>2 DEF CoveredQuery

\* A row moves from those still to be read into the channel.
LEMMA RowStep ==
    ASSUME QueryInv, NEW q \in Requests, SendRow(q)
    PROVE  QueryInv'
<1>1. PICK e \in query[q].rows :
          /\ Send(q, e)
          /\ query' = [query EXCEPT ![q].phase = "reading", ![q].rows = @ \ {e}]
  BY DEF SendRow
<1> DEFINE rows == query[q].rows \ {e}
           r == [query[q] EXCEPT !.phase = "reading", !.rows = rows]
<1>2. PhaseOf(q) = "checked" /\ UNCHANGED outside
  BY DEF SendRow
<1>3. /\ query[q] \in QueryRecord /\ query \in Seq(QueryRecord) /\ q \in DOMAIN query
      /\ query[q].sub \in Sub /\ query[q].rows \subseteq Event /\ e \in Event
      /\ query[q].count \in Nat /\ client[q].late \in Nat
  BY Requested, RecordTypes DEF QueryInv, Queries, Requests, ClientRecord
<1>4. query' = [query EXCEPT ![q] = r]
  BY <1>1, <1>3 DEF QueryRecord
<1>5. /\ r \in QueryRecord /\ r.sub = query[q].sub /\ r.phase = "reading" /\ r.rows = rows
      /\ r.filter = query[q].filter /\ r.abandoned = query[q].abandoned
      /\ r.count = query[q].count
  <2>1. rows \subseteq Event
    BY <1>3
  <2> HIDE DEF rows
  <2> QED
    BY <1>3, <2>1 DEF QueryRecord, Phase, Executing
<1> HIDE DEF r
<1>6. Moves(q, r)
  BY <1>2, <1>4, <1>5 DEF Moves, Executing
<1>m. /\ Latest(q)' <=> Latest(q)
      /\ Named(q)' = Named(q) /\ Named(q) \in SubId
  <2>1. (Latest(q)' <=> Latest(q)) /\ Named(q)' = Named(q)
    BY <1>2, <1>6, MoveLemma
  <2>2. Named(q) \in SubId
    BY <1>3, ReqQueryAssumption DEF Named, SubOf, IdOf
  <2> QED
    BY <2>1, <2>2
<1>7. query'[q] = r
  BY <1>3, <1>4, <1>5, Updated
<1>8. /\ query[q].count < CheckEvery /\ (~query[q].abandoned => client[q].late = 0)
      /\ client[q].late < IF query[q].count = 0 THEN CheckEvery ELSE query[q].count
  BY <1>2 DEF QueryInv, Punctual, PunctualQuery, HasThread, Executing
<1>9. CASE conn = "closed"
  <2>1. UNCHANGED <<outside, results, client>>
    BY <1>1, <1>2, <1>9 DEF Send
  <2>2. CoveredQuery(q)'
    BY <1>9, <2>1, NobodyThere DEF outside, writer
  <2>3. PunctualQuery(q)'
    BY <1>3, <1>5, <1>7, <1>8, <2>1, Constants
       DEF PunctualQuery, PhaseOf, HasThread, Executing
  <2> QED
    BY <1>6, <2>1, <2>2, <2>3, SilentStep
<1>10. CASE conn # "closed"
  <2>1. /\ client'[q].late = IF query[q].abandoned THEN client[q].late + 1 ELSE client[q].late
        /\ client'[q].asked = client[q].asked /\ client'[q].got = client[q].got
        /\ client'[q].blind = client[q].blind
        /\ results' = Append(results, [id |-> Named(q), item |-> e])
    BY <1>1, <1>10, SentRecord
  <2>2. CoveredQuery(q)'
    <3>1. CoveredQuery(q) /\ PhaseOf(q) \in Answering /\ PhaseOf(q) \in Executing
      BY <1>2 DEF QueryInv, Covered, Answering, Executing
    <3>2. InChannel(q) \subseteq InChannel(q)' /\ e \in InChannel(q)'
      <4> DEFINE x == [id |-> Named(q), item |-> e]
      <4>1. x.id = Named(q) /\ x.item = e /\ x \in Item
        BY <1>3, <1>m DEF Item
      <4>2. results \in Seq(Item)
        BY DEF QueryInv, Queries
      <4> HIDE DEF x
      <4>3. /\ DOMAIN results' = DOMAIN results \cup {Len(results) + 1}
            /\ results'[Len(results) + 1] = x
            /\ \A i \in DOMAIN results : results'[i] = results[i]
        BY <2>1, <4>1, <4>2, Extended DEF x
      <4> QED
        BY <1>3, <1>m, <4>1, <4>3 DEF InChannel
    <3>3. Unread(q) = query[q].rows \cup Rest[query[q].sub][query[q].filter]
      BY <3>1 DEF Unread
    <3>4. Unread(q)' = rows \cup Rest[query[q].sub][query[q].filter]
      BY <1>5, <1>7 DEF Unread, PhaseOf, Executing
    <3>5. Coming(q) \subseteq Coming(q)'
      BY <2>1, <3>2, <3>3, <3>4 DEF Coming
    <3>6. /\ Feed' = Feed /\ Wanted' = Wanted /\ stored' = stored /\ lagged' = lagged
          /\ query'[q].sub = query[q].sub
      BY <1>2, <1>5, <1>7 DEF Feed, Wanted, outside, writer
    <3> QED
      BY <1>m, <2>1, <3>1, <3>5, <3>6 DEF CoveredQuery
  <2>3. PunctualQuery(q)'
    BY <1>3, <1>5, <1>7, <1>8, <2>1, Constants
       DEF PunctualQuery, PhaseOf, HasThread, Executing
  <2> QED
    BY <1>1, <1>2, <1>3, <1>6, <1>10, <2>2, <2>3, Constants, SentStep
<1> QED
  BY <1>9, <1>10

\* The EOSE is sent once nothing is left to read.
LEMMA EoseStep ==
    ASSUME QueryInv, NEW q \in Requests, SendEose(q)
    PROVE  QueryInv'
<1> DEFINE r == Request(SubOf(q), "done")
<1>1. /\ PhaseOf(q) = "ending" /\ UNCHANGED outside /\ Send(q, EOSE)
      /\ query' = [query EXCEPT ![q] = r]
  BY DEF SendEose
<1>2. /\ query[q] \in QueryRecord /\ query \in Seq(QueryRecord) /\ q \in DOMAIN query
      /\ query[q].sub \in Sub /\ client[q].late \in Nat
  BY Requested, RecordTypes DEF QueryInv, Queries, Requests, ClientRecord
<1>3. /\ r \in QueryRecord /\ r.sub = query[q].sub /\ r.phase = "done" /\ r.count = 0
      /\ ~r.abandoned
  BY <1>2 DEF Request, SubOf, QueryRecord, Phase, Ended
<1> HIDE DEF r
<1>4. Moves(q, r)
  BY <1>1, <1>2, <1>3 DEF Moves, Ended, Executing
<1>m. /\ Latest(q)' <=> Latest(q)
      /\ Named(q)' = Named(q) /\ Named(q) \in SubId
  <2>1. (Latest(q)' <=> Latest(q)) /\ Named(q)' = Named(q)
    BY <1>1, <1>4, MoveLemma
  <2>2. Named(q) \in SubId
    BY <1>2, ReqQueryAssumption DEF Named, SubOf, IdOf
  <2> QED
    BY <2>1, <2>2
<1>5. query'[q] = r
  BY <1>1, <1>2, <1>3, Updated
<1>6. client[q].late <= CheckEvery /\ client[q].late <= CheckEvery + 1
  BY <1>1 DEF QueryInv, Punctual, PunctualQuery
<1>7. CASE conn = "closed"
  <2>1. UNCHANGED <<outside, results, client>>
    BY <1>1, <1>7 DEF Send
  <2>2. CoveredQuery(q)'
    BY <1>7, <2>1, NobodyThere DEF outside, writer
  <2>3. PunctualQuery(q)'
    BY <1>2, <1>3, <1>5, <1>6, <2>1, Constants DEF PunctualQuery, PhaseOf, HasThread, Executing
  <2> QED
    BY <1>4, <2>1, <2>2, <2>3, SilentStep
<1>8. CASE conn # "closed"
  <2>1. /\ client'[q].late = IF query[q].abandoned THEN client[q].late + 1 ELSE client[q].late
        /\ client'[q].asked = client[q].asked /\ client'[q].got = client[q].got
        /\ client'[q].blind = client[q].blind
        /\ results' = Append(results, [id |-> Named(q), item |-> EOSE])
    BY <1>1, <1>8, SentRecord
  <2>2. CoveredQuery(q)'
    <3>1. CoveredQuery(q) /\ PhaseOf(q) \in Answering /\ Unread(q) = {}
      BY <1>1 DEF QueryInv, Covered, Answering, Unread, Executing
    <3>2. InChannel(q) \subseteq InChannel(q)'
      <4> DEFINE x == [id |-> Named(q), item |-> EOSE]
      <4>1. x \in Item /\ results \in Seq(Item)
        BY <1>m DEF QueryInv, Queries, Item
      <4> HIDE DEF x
      <4>2. /\ DOMAIN results' = DOMAIN results \cup {Len(results) + 1}
            /\ \A i \in DOMAIN results : results'[i] = results[i]
        BY <2>1, <4>1, Extended DEF x
      <4> QED
        BY <1>m, <4>2 DEF InChannel
    <3>3. Coming(q) \subseteq Coming(q)'
      BY <2>1, <3>1, <3>2 DEF Coming
    <3>4. /\ Feed' = Feed /\ Wanted' = Wanted /\ stored' = stored /\ lagged' = lagged
          /\ query'[q].sub = query[q].sub
      BY <1>1, <1>3, <1>5 DEF Feed, Wanted, outside, writer
    <3> QED
      BY <1>m, <2>1, <3>1, <3>3, <3>4 DEF CoveredQuery
  <2>3. PunctualQuery(q)'
    BY <1>2, <1>3, <1>5, <1>6, <2>1, Constants DEF PunctualQuery, PhaseOf, HasThread, Executing
  <2> QED
    BY <1>1, <1>3, <1>4, <1>8, <2>2, <2>3, SentStep
<1> QED
  BY <1>7, <1>8

-----------------------------------------------------------------------------
(* Steps of the writer and of the checkpoint. *)

LEMMA Widened ==
    ASSUME NEW S, NEW T, S \subseteq T, NEW s \in Seq(S)
    PROVE  s \in Seq(T)
<1>1. Len(s) \in Nat /\ s \in [1..Len(s) -> S]
  BY LenProperties, ElementOfSeq
<1>2. s \in [1..Len(s) -> T]
  BY <1>1
<1> QED
  BY <1>1, <1>2, IsASeq

\* The feed and the checkpoint change, the requests do not.
LEMMA FeedStep ==
    ASSUME QueryInv, UNCHANGED <<conn, subscriptions, running, query, results, client>>,
           checkpoint' \in BOOLEAN, Feeds', stored \subseteq stored', lagged \subseteq lagged',
           conn = "closed" => bcast' = bcast,
           conn # "closed" =>
               \A e \in stored' \ lagged' : e \in Feed' \/ (e \in stored /\ e \notin Feed)
    PROVE  QueryInv'
<1>1. Requests' = Requests /\ Wanted' = Wanted /\ Holders' = Holders
  BY DEF Requests, Wanted, Holders, PhaseOf
<1>0. \A p \in Requests : (Latest(p)' <=> Latest(p)) /\ Named(p)' = Named(p)
  BY <1>1, LatestFrame
<1>2. Maps' /\ Queries' /\ Tracked' /\ Waiting'
  <2>1. Maps'
    BY <1>1 DEF QueryInv, Maps
  <2>2. Queries'
    BY <1>1 DEF QueryInv, Queries
  <2>3. Tracked'
    BY <1>0, <1>1 DEF QueryInv, Tracked, Maps, Wanted, IdOf, SubOf, HasThread, PhaseOf
  <2>4. Waiting'
    BY <1>1 DEF QueryInv, Waiting, PhaseOf
  <2> QED
    BY <2>1, <2>2, <2>3, <2>4
<1>3. Ordered' /\ Punctual'
  <2>1. Ordered'
    BY <1>0, <1>1, OrderedFrame DEF QueryInv, HasThread, PhaseOf
  <2>2. Punctual'
    BY <1>1 DEF QueryInv, Punctual, PunctualQuery, PhaseOf, HasThread
  <2> QED
    BY <2>1, <2>2
<1>4. ASSUME NEW q \in Requests PROVE CoveredQuery(q)'
  <2>1. CoveredQuery(q)
    BY DEF QueryInv, Covered
  <2>2. PhaseOf(q)' = PhaseOf(q) /\ Coming(q)' = Coming(q)
    BY <1>0 DEF PhaseOf, Coming, InChannel, Unread
  <2>3. CASE conn = "closed"
    <3>1. client[q].asked = {} /\ Wanted = {}
      BY <2>3 DEF QueryInv, Waiting, Wanted
    <3> QED
      BY <1>1, <3>1 DEF CoveredQuery
  <2>4. CASE conn # "closed"
    BY <1>0, <1>1, <2>1, <2>2, <2>4 DEF CoveredQuery
  <2> QED
    BY <2>3, <2>4
<1>5. Covered'
  BY <1>1, <1>4 DEF Covered
<1>6. EoseMeansComplete'
  BY <1>1, CompleteFrame DEF QueryInv
<1> QED
  BY <1>2, <1>3, <1>5, <1>6 DEF QueryInv

LEMMA WriterStep ==
    ASSUME QueryInv, NEW e \in Event, Commit(e) \/ Broadcast(e)
    PROVE  QueryInv'
<1>1. Feeds
  BY DEF QueryInv
<1>2. CASE Commit(e)
  <2>1. Feed' = Feed \cup {e} /\ stored' = stored \cup {e} /\ lagged' = lagged
    BY <1>2 DEF Commit, Feed
  <2>2. bcast' \in Seq(stored')
    BY <1>1, <1>2, <2>1, Widened DEF Feeds, Commit
  <2>3. Feeds'
    BY <1>1, <1>2, <2>2 DEF Feeds, Commit
  <2>4. /\ UNCHANGED <<conn, subscriptions, running, query, results, client>>
        /\ checkpoint' \in BOOLEAN /\ bcast' = bcast
    BY <1>2 DEF Commit, QueryInv, Queries
  <2> QED
    BY <2>1, <2>3, <2>4, FeedStep
<1>3. CASE Broadcast(e)
  <2>1. /\ UNCHANGED <<conn, subscriptions, running, query, results, client, stored>>
        /\ checkpoint' \in BOOLEAN /\ unsent' = unsent \ {e} /\ e \in unsent /\ e \in stored
    BY <1>1, <1>3 DEF Broadcast, QueryInv, Queries, Feeds
  <2>2. bcast \in Seq(stored) /\ Len(bcast) \in Nat /\ DOMAIN bcast = 1..Len(bcast)
        /\ Len(bcast) <= BroadcastCap
    BY <1>1, Domains DEF Feeds
  <2>3. CASE conn = "closed"
    <3>1. bcast' = bcast /\ lagged' = lagged
      BY <1>3, <2>3 DEF Broadcast
    <3>2. Feeds'
      BY <1>1, <2>1, <3>1 DEF Feeds
    <3> QED
      BY <2>1, <2>3, <3>1, <3>2, FeedStep
  <2>4. CASE conn # "closed" /\ Len(bcast) < BroadcastCap
    <3>1. bcast' = Append(bcast, e) /\ lagged' = lagged
      BY <1>3, <2>4 DEF Broadcast
    <3>2. /\ bcast' \in Seq(stored) /\ Len(bcast') = Len(bcast) + 1
          /\ DOMAIN bcast' = DOMAIN bcast \cup {Len(bcast) + 1}
          /\ bcast'[Len(bcast) + 1] = e
          /\ \A i \in DOMAIN bcast : bcast'[i] = bcast[i]
      BY <2>1, <2>2, <3>1, Extended
    <3>3. Feeds'
      BY <1>1, <2>1, <2>2, <2>4, <3>1, <3>2, Constants DEF Feeds
    <3>4. Feed \subseteq Feed'
      BY <2>1, <3>2 DEF Feed
    <3> QED
      BY <2>1, <2>4, <3>1, <3>3, <3>4, FeedStep
  <2>5. CASE conn # "closed" /\ ~(Len(bcast) < BroadcastCap)
    <3>1. bcast' = Append(Tail(bcast), e) /\ lagged' = lagged \cup {Head(bcast)}
      BY <1>3, <2>5 DEF Broadcast
    <3>2. bcast # <<>>
      BY <2>2, <2>5, Constants, EmptySeq
    <3>3. /\ Head(bcast) \in stored /\ Head(bcast) = bcast[1]
          /\ Tail(bcast) \in Seq(stored) /\ Len(Tail(bcast)) = Len(bcast) - 1
          /\ \A i \in DOMAIN bcast :
                 i = 1 \/ (i - 1 \in DOMAIN Tail(bcast) /\ Tail(bcast)[i - 1] = bcast[i])
      BY <2>2, <3>2, Popped
    <3>4. /\ bcast' \in Seq(stored) /\ Len(bcast') = Len(Tail(bcast)) + 1
          /\ DOMAIN bcast' = DOMAIN Tail(bcast) \cup {Len(Tail(bcast)) + 1}
          /\ bcast'[Len(Tail(bcast)) + 1] = e
          /\ \A i \in DOMAIN Tail(bcast) : bcast'[i] = Tail(bcast)[i]
      BY <2>1, <3>1, <3>3, Extended
    <3>5. Len(bcast') <= BroadcastCap
      BY <2>2, <3>3, <3>4
    <3>6. Feeds'
      BY <1>1, <2>1, <3>1, <3>3, <3>4, <3>5 DEF Feeds
    <3>7. \A x \in Feed : x \in Feed' \/ x \in lagged'
      <4>1. ASSUME NEW i \in DOMAIN bcast PROVE bcast[i] \in Feed' \/ bcast[i] \in lagged'
        <5>1. CASE i = 1
          BY <3>1, <3>3, <5>1
        <5>2. CASE i # 1
          <6>1. i - 1 \in DOMAIN bcast' /\ bcast'[i - 1] = bcast[i]
            BY <3>3, <3>4, <5>2
          <6> QED
            BY <6>1 DEF Feed
        <5> QED
          BY <5>1, <5>2
      <4>2. \A x \in unsent : x \in Feed'
        BY <2>1, <3>4 DEF Feed
      <4> QED
        BY <4>1, <4>2 DEF Feed
    <3> QED
      BY <2>1, <2>5, <3>1, <3>6, <3>7, FeedStep
  <2> QED
    BY <2>3, <2>4, <2>5
<1> QED
  BY <1>2, <1>3

LEMMA CheckpointStep ==
    ASSUME QueryInv, CheckpointBegins \/ CheckpointEnds
    PROVE  QueryInv'
<1>1. /\ UNCHANGED <<writer, bcast, conn, subscriptions, running, query, results, client>>
      /\ checkpoint' \in BOOLEAN
  BY DEF CheckpointBegins, CheckpointEnds
<1>2. Feed' = Feed /\ stored' = stored /\ lagged' = lagged /\ unsent' = unsent
  BY <1>1 DEF Feed, writer
<1>3. Feeds'
  BY <1>1, <1>2 DEF QueryInv, Feeds
<1> QED
  BY <1>1, <1>2, <1>3, FeedStep

-----------------------------------------------------------------------------
(* Steps of the connection that abandon queries. *)

LEMMA AbandonFacts ==
    ASSUME QueryInv, NEW Q
    PROVE  /\ Abandon(Q) \in Seq(QueryRecord) /\ Len(Abandon(Q)) = Len(query)
           /\ DOMAIN Abandon(Q) = Requests
           /\ \A p \in Requests :
                  /\ Abandon(Q)[p].sub = query[p].sub /\ Abandon(Q)[p].phase = query[p].phase
                  /\ Abandon(Q)[p].filter = query[p].filter
                  /\ Abandon(Q)[p].rows = query[p].rows
                  /\ Abandon(Q)[p].count = query[p].count
                  /\ Abandon(Q)[p].abandoned <=>
                         query[p].abandoned \/ (p \in Q /\ HasThread(p))
<1> DEFINE gone(p) == query[p].abandoned \/ (p \in Q /\ HasThread(p))
           rec(p) == [query[p] EXCEPT !.abandoned = gone(p)]
<1>1. Abandon(Q) = [p \in Requests |-> rec(p)]
  BY DEF Abandon
<1>2. \A p \in Requests : query[p] \in QueryRecord /\ gone(p) \in BOOLEAN
  <2>1. ASSUME NEW p \in Requests PROVE query[p] \in QueryRecord /\ query[p].abandoned \in BOOLEAN
    BY Requested, RecordTypes
  <2> QED
    BY <2>1 DEF HasThread
<1>3. ASSUME NEW p \in Requests
      PROVE  /\ rec(p) \in QueryRecord
             /\ rec(p).sub = query[p].sub /\ rec(p).phase = query[p].phase
             /\ rec(p).filter = query[p].filter /\ rec(p).rows = query[p].rows
             /\ rec(p).count = query[p].count /\ rec(p).abandoned = gone(p)
  <2>1. query[p] \in QueryRecord /\ gone(p) \in BOOLEAN
    BY <1>2
  <2> HIDE DEF gone
  <2> QED
    BY <2>1 DEF QueryRecord
<1> HIDE DEF rec, gone
<1>4. Abandon(Q) \in Seq(QueryRecord) /\ Len(Abandon(Q)) = Len(query)
      /\ DOMAIN Abandon(Q) = DOMAIN query
  <2>1. query \in Seq(QueryRecord)
    BY DEF QueryInv, Queries
  <2>2. Abandon(Q) = [p \in DOMAIN query |-> Abandon(Q)[p]]
    BY <1>1 DEF Requests
  <2>3. \A p \in DOMAIN query : Abandon(Q)[p] \in QueryRecord
    BY <1>1, <1>3 DEF Requests
  <2> QED
    BY <2>1, <2>2, <2>3, Rebuilt
<1>5. \A p \in Requests : Abandon(Q)[p] = rec(p)
  BY <1>1
<1> QED
  BY <1>3, <1>4, <1>5 DEF Requests, gone

\* What a request that is abandoned, or not, keeps of the invariant.
LEMMA KeptStep ==
    ASSUME QueryInv, NEW p \in Requests,
           query'[p].phase = query[p].phase, query'[p].sub = query[p].sub,
           query'[p].filter = query[p].filter, query'[p].rows = query[p].rows,
           query'[p].count = query[p].count,
           query[p].abandoned => query'[p].abandoned,
           client'[p] = client[p],
           p \in Wanted' => p \in Wanted, Latest(p)' => Latest(p),
           UNCHANGED <<writer, bcast, results>>
    PROVE  CoveredQuery(p)' /\ PunctualQuery(p)'
<1>1. CoveredQuery(p) /\ PunctualQuery(p)
  BY DEF QueryInv, Covered, Punctual
<1>2. PhaseOf(p)' = PhaseOf(p) /\ Unread(p)' = Unread(p) /\ InChannel(p)' = InChannel(p)
  BY DEF PhaseOf, Unread, InChannel, Named, SubOf, IdOf
<1>3. Coming(p)' = Coming(p) /\ Feed' = Feed
  BY <1>2 DEF Coming, Feed, writer
<1>4. CoveredQuery(p)'
  BY <1>1, <1>2, <1>3 DEF CoveredQuery, writer
<1>5. PunctualQuery(p)'
  BY <1>1 DEF PunctualQuery, PhaseOf, HasThread
<1> QED
  BY <1>4, <1>5

LEMMA CloseStep ==
    ASSUME QueryInv, NEW i \in SubId, Close(i)
    PROVE  QueryInv'
<1> DEFINE Q == Replaced(i)
           a == Abandon(Q)
<1>1. /\ conn = "select" /\ query' = a
      /\ running' = Without(running, i) /\ subscriptions' = Without(subscriptions, i)
      /\ UNCHANGED <<writer, bcast, conn, results, checkpoint, client>>
  BY DEF Close
<1>2. /\ a \in Seq(QueryRecord) /\ Len(a) = Len(query) /\ DOMAIN a = Requests
      /\ \A p \in Requests :
             /\ a[p].sub = query[p].sub /\ a[p].phase = query[p].phase
             /\ a[p].filter = query[p].filter /\ a[p].rows = query[p].rows
             /\ a[p].count = query[p].count
             /\ a[p].abandoned <=> query[p].abandoned \/ (p \in Q /\ HasThread(p))
  <2> HIDE DEF Q
  <2> QED
    BY AbandonFacts
<1> HIDE DEF a
<1>3. /\ DOMAIN subscriptions' = DOMAIN subscriptions \ {i} /\ running' = subscriptions'
      /\ \A j \in DOMAIN subscriptions' : subscriptions'[j] = subscriptions[j]
  BY <1>1 DEF QueryInv, Maps, Without
<1>4. Requests' = Requests /\ Holders' = Holders
  BY <1>1, <1>2 DEF Requests, Holders, PhaseOf
<1>l. \A p \in Requests : (Latest(p)' <=> Latest(p)) /\ Named(p)' = Named(p)
  BY <1>1, <1>2, <1>4, LatestFrame
<1>5. Q = IF i \in DOMAIN subscriptions THEN {subscriptions[i]} ELSE {}
  BY DEF Replaced, QueryInv, Maps
<1>6. Feeds' /\ Maps'
  BY <1>1, <1>3, <1>4 DEF QueryInv, Feeds, Maps, writer
<1>7. Queries'
  BY <1>1, <1>2, <1>4 DEF QueryInv, Queries
<1>8. Wanted' \subseteq Wanted \ Q
  <2>1. ASSUME NEW j \in DOMAIN subscriptions' PROVE subscriptions'[j] \in Wanted \ Q
    <3>1. subscriptions'[j] = subscriptions[j] /\ j \in DOMAIN subscriptions /\ j # i
      BY <1>3
    <3>2. IdOf(SubOf(subscriptions[j])) = j
      BY <3>1 DEF QueryInv, Tracked
    <3>3. i \in DOMAIN subscriptions => IdOf(SubOf(subscriptions[i])) = i
      BY DEF QueryInv, Tracked
    <3> QED
      BY <1>5, <3>1, <3>2, <3>3 DEF Wanted
  <2> QED
    BY <2>1 DEF Wanted
<1>9. \A p \in Wanted : p \in Wanted' \/ p \in Q
  BY <1>3, <1>5 DEF Wanted
<1>10. Tracked'
  <2>1. \A j \in DOMAIN subscriptions' : query'[subscriptions'[j]].sub = query[subscriptions[j]].sub
    BY <1>1, <1>2, <1>3 DEF QueryInv, Maps
  <2>2. \A j \in DOMAIN subscriptions' : IdOf(query'[subscriptions'[j]].sub) = j
    BY <1>3, <2>1 DEF QueryInv, Tracked, SubOf, IdOf
  <2>4. \A p \in Requests : p \in Wanted' => Latest(p)'
    BY <1>8, <1>l DEF QueryInv, Tracked
  <2>5. \A p \in Wanted' : p \in Requests
    BY <1>8 DEF QueryInv, Maps, Wanted
  <2>3. ASSUME NEW p \in Requests
        PROVE  /\ p \in Wanted' => ~query'[p].abandoned
               /\ HasThread(p)' /\ p \notin Wanted' => query'[p].abandoned
    BY <1>1, <1>2, <1>8, <1>9 DEF QueryInv, Tracked, HasThread, PhaseOf
  <2> QED
    BY <1>4, <2>2, <2>3, <2>4, <2>5 DEF Tracked, IdOf, SubOf
<1>11. Waiting'
  BY <1>1 DEF Waiting
<1>12. Ordered'
  BY <1>1, <1>2, <1>4, <1>l, OrderedFrame DEF QueryInv, HasThread, PhaseOf
<1>15. EoseMeansComplete'
  BY <1>1, <1>2, <1>4, CompleteFrame DEF QueryInv
<1>13. ASSUME NEW p \in Requests PROVE CoveredQuery(p)' /\ PunctualQuery(p)'
  BY <1>1, <1>2, <1>8, <1>l, KeptStep
<1>14. Covered' /\ Punctual'
  BY <1>4, <1>13 DEF Covered, Punctual
<1> QED
  BY <1>6, <1>7, <1>10, <1>11, <1>12, <1>14, <1>15 DEF QueryInv

LEMMA DisconnectStep ==
    ASSUME QueryInv, Disconnect
    PROVE  QueryInv'
<1> DEFINE Q == {running[i] : i \in DOMAIN running}
           a == Abandon(Q)
<1>1. /\ conn' = "closed" /\ query' = a /\ running' = <<>> /\ subscriptions' = <<>>
      /\ bcast' = <<>> /\ results' = <<>> /\ client' = [q \in Requests |-> NoOneThere]
      /\ UNCHANGED <<writer, checkpoint>>
  BY DEF Disconnect
<1>2. /\ a \in Seq(QueryRecord) /\ Len(a) = Len(query) /\ DOMAIN a = Requests
      /\ \A p \in Requests :
             /\ a[p].sub = query[p].sub /\ a[p].phase = query[p].phase
             /\ a[p].filter = query[p].filter /\ a[p].rows = query[p].rows
             /\ a[p].count = query[p].count
             /\ a[p].abandoned <=> query[p].abandoned \/ (p \in Q /\ HasThread(p))
  <2> HIDE DEF Q
  <2> QED
    BY AbandonFacts
<1> HIDE DEF a
<1>3. Requests' = Requests /\ Holders' = Holders
  BY <1>1, <1>2 DEF Requests, Holders, PhaseOf
<1>4. Q = Wanted /\ Wanted' = {} /\ DOMAIN subscriptions' = {} /\ DOMAIN results' = {}
  BY <1>1 DEF QueryInv, Maps, Wanted
<1>5. \A p \in Requests : client'[p] = NoOneThere
  BY <1>1
<1>6. Feeds'
  <2>1. bcast' \in Seq(stored') /\ Len(bcast') = 0
    BY <1>1, EmptySeq
  <2>2. UNCHANGED <<stored, unsent, lagged>>
    BY <1>1 DEF writer
  <2> QED
    BY <2>1, <2>2, Constants DEF QueryInv, Feeds
<1>7. Maps'
  BY <1>1, <1>4 DEF Maps
<1>8. Queries'
  <2>1. client' \in Seq(ClientRecord) /\ Len(client') = Len(query')
    <3>1. query \in Seq(QueryRecord) /\ NoOneThere \in ClientRecord
      BY DEF QueryInv, Queries, NoOneThere, ClientRecord
    <3>2. client' = [q \in DOMAIN query |-> client'[q]]
      BY <1>1 DEF Requests
    <3>3. \A q \in DOMAIN query : client'[q] \in ClientRecord
      BY <1>5, <3>1 DEF Requests
    <3> QED
      BY <1>1, <1>2, <3>1, <3>2, <3>3, Rebuilt
  <2>2. results' \in Seq(Item) /\ Len(results') = 0
    BY <1>1, EmptySeq
  <2>3. Len(results') <= QueueCap
    BY <2>2, Constants
  <2> QED
    BY <1>1, <1>2, <1>3, <2>1, <2>2, <2>3 DEF QueryInv, Queries
<1>9. Tracked'
  <2>1. ASSUME NEW p \in Requests PROVE HasThread(p)' => query'[p].abandoned
    BY <1>1, <1>2, <1>4 DEF QueryInv, Tracked, HasThread, PhaseOf
  <2> QED
    BY <1>3, <1>4, <2>1 DEF Tracked
<1>10. Waiting'
  <2>1. \A p \in Requests : client'[p].asked = {}
    BY <1>5 DEF NoOneThere
  <2> QED
    BY <1>1, <1>3, <2>1 DEF Waiting
<1>11. Ordered'
  <2>1. \A p \in Requests : ~client'[p].eose /\ ~client'[p].clean
    BY <1>5 DEF NoOneThere
  <2> QED
    BY <1>3, <2>1 DEF Ordered
<1>12. Covered'
  <2>1. ASSUME NEW p \in Requests PROVE CoveredQuery(p)'
    BY <1>4, <1>5 DEF CoveredQuery, NoOneThere
  <2> QED
    BY <1>3, <2>1 DEF Covered
<1>13. Punctual'
  <2>1. ASSUME NEW p \in Requests PROVE PunctualQuery(p)'
    <3>1. /\ query'[p].count = query[p].count /\ PhaseOf(p)' = PhaseOf(p)
          /\ client'[p].late = 0 /\ query[p].count \in Nat
      BY <1>1, <1>2, <1>5, Requested, RecordTypes DEF PhaseOf, NoOneThere
    <3>2. query[p].count < CheckEvery /\ (PhaseOf(p) = "probing" => query[p].count = 0)
      BY DEF QueryInv, Punctual, PunctualQuery
    <3> QED
      BY <3>1, <3>2, Constants DEF PunctualQuery
  <2> QED
    BY <1>3, <2>1 DEF Punctual
<1>14. EoseMeansComplete'
  BY <1>3, <1>5 DEF EoseMeansComplete, NoOneThere
<1> QED
  BY <1>6, <1>7, <1>8, <1>9, <1>10, <1>11, <1>12, <1>13, <1>14 DEF QueryInv

-----------------------------------------------------------------------------
(* REQ. *)

\* A request is recorded: nothing is owed to the earlier ones that was not before.
LEMMA RequestStep ==
    ASSUME QueryInv, conn = "select",
           NEW a \in Seq(QueryRecord), Len(a) = Len(query), DOMAIN a = Requests,
           \A p \in Requests :
               /\ a[p].sub = query[p].sub /\ a[p].phase = query[p].phase
               /\ a[p].filter = query[p].filter /\ a[p].rows = query[p].rows
               /\ a[p].count = query[p].count
               /\ query[p].abandoned => a[p].abandoned,
           NEW s \in Sub, NEW phase \in Unqueried \cup {"permit"},
           NEW d \in ClientRecord, d.asked = stored, d.got = {}, ~d.blind, d.late = 0,
           d.clean => Settled(IdOf(s)) /\ ~d.eose,
           query' = Append(a, Request(s, phase)), client' = Append(client, d),
           UNCHANGED <<writer, bcast, results, checkpoint>>,
           conn' = IF phase = "permit" THEN "permit" ELSE "select",
           Maps', Tracked', \A p \in Requests : p \in Wanted' => p \in Wanted
    PROVE  QueryInv'
<1> DEFINE r == Request(s, phase)
<1>n. PICK n : n = Len(query) + 1
  OBVIOUS
<1>1. /\ r \in QueryRecord /\ r.sub = s /\ r.phase = phase /\ r.filter = 0 /\ r.rows = {}
      /\ r.count = 0 /\ ~r.abandoned
  BY DEF Request, QueryRecord, Phase
<1> HIDE DEF r
<1>3. /\ client \in Seq(ClientRecord) /\ Len(client) = Len(query) /\ Len(query) \in Nat
      /\ DOMAIN client = Requests /\ query' = Append(a, r) /\ client' = Append(client, d)
  BY Requested DEF QueryInv, Queries, r
<1>4. /\ query' \in Seq(QueryRecord) /\ Len(query') = n
      /\ DOMAIN query' = Requests \cup {n} /\ n \notin Requests
      /\ query'[n] = r /\ \A p \in Requests : query'[p] = a[p]
  BY <1>n, <1>1, <1>3, Extended
<1>5. /\ client' \in Seq(ClientRecord) /\ Len(client') = n
      /\ client'[n] = d /\ \A p \in Requests : client'[p] = client[p]
  BY <1>n, <1>3, Extended
<1>6. Requests' = Requests \cup {n}
  BY <1>4 DEF Requests
<1>l. \A p \in Requests : /\ query'[p].sub = query[p].sub /\ query'[p].phase = query[p].phase
                          /\ Named(p)' = Named(p) /\ PhaseOf(p)' = PhaseOf(p)
                          /\ Latest(p)' => Latest(p)
  <2>1. \A p \in Requests : query'[p].sub = query[p].sub /\ query'[p].phase = query[p].phase
    BY <1>4
  <2>2. \A p \in Requests : Named(p)' = Named(p) /\ PhaseOf(p)' = PhaseOf(p)
    BY <2>1 DEF Named, SubOf, IdOf, PhaseOf
  <2> QED
    BY <1>6, <2>1, <2>2 DEF Latest
<1>7. Feeds'
  BY DEF QueryInv, Feeds, writer
<1>8. Holders' = Holders
  BY <1>1, <1>4, <1>6 DEF Holders, PhaseOf, Unqueried, Unserved, Executing
<1>9. Queries'
  BY <1>4, <1>5, <1>8 DEF QueryInv, Queries
<1>10. Waiting'
  BY <1>1, <1>4, <1>6 DEF Waiting, PhaseOf
<1>11. Ordered'
  <2>1. ASSUME NEW p \in Requests, Latest(p)', client'[p].clean PROVE OrderedQuery(p)'
    <3>1. OrderedQuery(p)
      BY <1>5, <1>l, <2>1 DEF QueryInv, Ordered
    <3>2. ASSUME NEW u \in Requests', HasThread(u)', Named(u)' = Named(p)' PROVE u = p
      <4>1. CASE u \in Requests
        BY <1>l, <3>1, <3>2, <4>1 DEF OrderedQuery, HasThread
      <4>2. CASE u = n
        <5>1. n > p /\ PhaseOf(n)' \notin Unserved
          BY <1>n, <1>3, <3>2, <4>2, Requested DEF HasThread, Unserved, Executing
        <5> QED
          BY <1>6, <2>1, <3>2, <4>2, <5>1 DEF Latest
      <4> QED
        BY <1>6, <4>1, <4>2
    <3>3. client'[p].eose = client[p].eose /\ results' = results
      BY <1>5
    <3> QED
      BY <1>l, <3>1, <3>2, <3>3 DEF OrderedQuery
  <2>2. ASSUME client'[n].clean PROVE OrderedQuery(n)'
    <3>1. Settled(IdOf(s)) /\ ~client'[n].eose
      BY <1>5, <2>2
    <3>2. Named(n)' = IdOf(s)
      BY <1>1, <1>4 DEF Named, SubOf, IdOf
    <3>3. ASSUME NEW u \in Requests', HasThread(u)', Named(u)' = Named(n)' PROVE u = n
      BY <1>6, <1>l, <3>1, <3>2, <3>3 DEF Settled, HasThread
    <3>4. \A i \in DOMAIN results' : results'[i].id # Named(n)'
      BY <3>1, <3>2 DEF Settled
    <3> QED
      BY <3>1, <3>3, <3>4 DEF OrderedQuery
  <2> QED
    BY <1>6, <2>1, <2>2 DEF Ordered
<1>16. EoseMeansComplete'
  <2>1. ASSUME NEW p \in Requests', client'[p].eose, client'[p].clean, ~client'[p].blind
        PROVE  client'[p].asked \cap Interested(query'[p].sub) \cap Sendable \subseteq client'[p].got
    BY <1>5, <1>6, <1>l, <2>1 DEF QueryInv, EoseMeansComplete, SubOf
  <2> QED
    BY <2>1 DEF EoseMeansComplete, SubOf
<1>12. ASSUME NEW p \in Requests PROVE CoveredQuery(p)' /\ PunctualQuery(p)'
  BY <1>4, <1>5, <1>l, KeptStep
<1>13. CoveredQuery(n)'
  <2>1. client'[n].asked = stored /\ stored' = stored
    BY <1>5 DEF writer
  <2>2. CASE phase # "permit"
    <3>1. PhaseOf(n)' \notin Answering
      BY <1>1, <1>4, <2>2 DEF PhaseOf, Answering, Unqueried, Unserved, Executing
    <3> QED
      BY <2>1, <3>1 DEF CoveredQuery
  <2>3. CASE phase = "permit"
    <3>1. Unread(n)' = Topics[s]
      <4>1. /\ query'[n].phase = "permit" /\ query'[n].rows = {}
            /\ query'[n].sub = s /\ query'[n].filter = 0
        BY <1>1, <1>4, <2>3
      <4>2. Unread(n)' = {} \cup Rest[s][0]
        BY <4>1 DEF Unread, PhaseOf
      <4> QED
        BY <4>2, RestFacts
    <3>2. Topics[s] \subseteq Coming(n)' /\ query'[n].sub = s
      BY <1>1, <1>4, <3>1 DEF Coming
    <3> QED
      BY <2>1, <3>2 DEF CoveredQuery
  <2> QED
    BY <2>2, <2>3
<1>14. PunctualQuery(n)'
  BY <1>1, <1>4, <1>5, Constants
     DEF PunctualQuery, PhaseOf, HasThread, Unqueried, Unserved, Executing
<1>15. Covered' /\ Punctual'
  BY <1>6, <1>12, <1>13, <1>14 DEF Covered, Punctual
<1> QED
  BY <1>7, <1>9, <1>10, <1>11, <1>15, <1>16 DEF QueryInv

LEMMA NewAnswer ==
    ASSUME QueryInv
    PROVE  /\ NoAnswerYet \in ClientRecord /\ NoAnswerYet.asked = stored /\ NoAnswerYet.got = {}
           /\ ~NoAnswerYet.eose /\ ~NoAnswerYet.blind /\ NoAnswerYet.late = 0
           /\ ~NoAnswerYet.clean
           /\ LET d == [NoAnswerYet EXCEPT !.eose = TRUE]
              IN  d \in ClientRecord /\ d.asked = stored /\ d.got = {} /\ ~d.blind /\ d.late = 0
                  /\ ~d.clean
BY DEF QueryInv, Feeds, NoAnswerYet, NoOneThere, ClientRecord

LEMMA ServedAnswer ==
    ASSUME QueryInv, NEW i
    PROVE  LET d == [NoAnswerYet EXCEPT !.clean = Settled(i)]
           IN  /\ d \in ClientRecord /\ d.asked = stored /\ d.got = {} /\ ~d.blind /\ d.late = 0
               /\ d.clean = Settled(i) /\ ~d.eose
<1>1. Settled(i) \in BOOLEAN
  BY DEF Settled
<1>2. stored \subseteq Event
  BY DEF QueryInv, Feeds
<1> HIDE DEF Settled
<1> QED
  BY <1>1, <1>2 DEF NoAnswerYet, NoOneThere, ClientRecord

\* Requests that start nothing.
LEMMA UnservedStep ==
    ASSUME QueryInv, NEW s \in Sub, ReqIgnored(s) \/ ReqScraper(s) \/ ReqRefused(s)
    PROVE  QueryInv'
<1>1. /\ query \in Seq(QueryRecord) /\ Len(query) \in Nat /\ DOMAIN query = Requests
      /\ conn = "select"
  BY Requested DEF QueryInv, Queries, Requests, ReqIgnored, ReqScraper, ReqRefused, MayAsk
<1>2. ASSUME NEW phase \in Unserved,
             NEW d \in ClientRecord, d.asked = stored, d.got = {}, ~d.blind, d.late = 0,
             ~d.clean,
             query' = Append(query, Request(s, phase)), client' = Append(client, d),
             UNCHANGED <<writer, bcast, conn, subscriptions, running, results, checkpoint>>
      PROVE  QueryInv'
  <2> DEFINE r == Request(s, phase)
  <2>n. PICK n : n = Len(query) + 1
    OBVIOUS
  <2>1. r \in QueryRecord /\ r.phase = phase
    BY <1>2 DEF Request, QueryRecord, Phase, Unqueried
  <2> HIDE DEF r
  <2>2. /\ DOMAIN query' = Requests \cup {n} /\ n \notin Requests
        /\ query'[n] = r /\ \A p \in Requests : query'[p] = query[p]
    BY <1>1, <1>2, <2>n, <2>1, Extended DEF r
  <2>3. Requests' = Requests \cup {n} /\ Wanted' = Wanted
    BY <1>2, <2>2 DEF Requests, Wanted
  <2>4. Maps'
    BY <1>2, <2>3 DEF QueryInv, Maps
  <2>5. Tracked'
    <3>1. \A i \in DOMAIN subscriptions : subscriptions[i] \in Requests
                                         /\ IdOf(query[subscriptions[i]].sub) = i
      BY DEF QueryInv, Maps, Tracked, SubOf, IdOf
    <3>2. \A i \in DOMAIN subscriptions : IdOf(query'[subscriptions[i]].sub) = i
      BY <2>2, <3>1
    <3>3. Wanted \subseteq Requests
      BY <3>1 DEF Wanted
    <3>4. ASSUME NEW p \in Requests'
          PROVE  /\ p \in Wanted => ~query'[p].abandoned
                 /\ HasThread(p)' /\ p \notin Wanted => query'[p].abandoned
      BY <1>2, <2>1, <2>2, <2>3, <3>3
         DEF QueryInv, Tracked, HasThread, PhaseOf, Unserved, Executing
    <3>5. subscriptions' = subscriptions
      BY <1>2
    <3>6. ASSUME NEW p \in Requests, Latest(p) PROVE Latest(p)'
      <4>1. \A u \in Requests : Named(u)' = Named(u) /\ PhaseOf(u)' = PhaseOf(u)
        BY <2>2 DEF Named, SubOf, IdOf, PhaseOf
      <4>2. PhaseOf(n)' \in Unserved
        BY <1>2, <2>1, <2>2 DEF PhaseOf
      <4> QED
        BY <2>3, <3>6, <4>1, <4>2 DEF Latest
    <3>7. \A p \in Wanted : Latest(p)'
      BY <3>3, <3>6 DEF QueryInv, Tracked
    <3> QED
      BY <2>3, <3>2, <3>4, <3>5, <3>7 DEF Tracked, SubOf, IdOf
  <2>6. conn' = IF phase = "permit" THEN "permit" ELSE "select"
    BY <1>1, <1>2 DEF Unserved
  <2>7. phase \in Unqueried
    BY <1>2 DEF Unqueried
  <2> QED
    BY <1>1, <1>2, <2>3, <2>4, <2>5, <2>6, <2>7, RequestStep
<1>3. {"ignored", "scraper", "refused"} \subseteq Unserved
  BY DEF Unserved
<1>4. CASE ReqIgnored(s)
  BY <1>2, <1>3, <1>4, NewAnswer DEF ReqIgnored
<1>5. CASE ReqScraper(s)
  BY <1>2, <1>3, <1>5, NewAnswer DEF ReqScraper
<1>6. CASE ReqRefused(s)
  BY <1>2, <1>3, <1>6, NewAnswer DEF ReqRefused
<1> QED
  BY <1>4, <1>5, <1>6

\* The new subscription takes the place of the one with its id.
LEMMA AcceptedStep ==
    ASSUME QueryInv, NEW s \in Sub, ReqAccepted(s)
    PROVE  QueryInv'
<1> DEFINE id == IdOf(s)
           Q == Replaced(id)
           a == Abandon(Q)
           phase == IF Content[s].historical THEN "permit" ELSE "live"
           r == Request(s, phase)
           d == [NoAnswerYet EXCEPT !.clean = Settled(id)]
<1>n. PICK n : n = Len(query) + 1
  OBVIOUS
<1>1. /\ conn = "select" /\ query' = Append(a, r) /\ client' = Append(client, d)
      /\ subscriptions' = With(subscriptions, id, n) /\ running' = With(running, id, n)
      /\ conn' = IF phase = "permit" THEN "permit" ELSE "select"
      /\ UNCHANGED <<writer, bcast, results, checkpoint>>
  BY <1>n DEF ReqAccepted, MayAsk
<1>2. /\ a \in Seq(QueryRecord) /\ Len(a) = Len(query) /\ DOMAIN a = Requests
      /\ \A p \in Requests :
             /\ a[p].sub = query[p].sub /\ a[p].phase = query[p].phase
             /\ a[p].filter = query[p].filter /\ a[p].rows = query[p].rows
             /\ a[p].count = query[p].count
             /\ a[p].abandoned <=> query[p].abandoned \/ (p \in Q /\ HasThread(p))
  <2> HIDE DEF Q
  <2> QED
    BY AbandonFacts
<1>3. /\ r \in QueryRecord /\ r.sub = s /\ r.phase = phase /\ ~r.abandoned
      /\ phase \in Unqueried \cup {"permit"} /\ phase \notin Unserved
  BY DEF Request, QueryRecord, Phase, Unqueried, Unserved
<1>d. /\ d \in ClientRecord /\ d.asked = stored /\ d.got = {} /\ ~d.blind /\ d.late = 0
      /\ d.clean = Settled(id) /\ ~d.eose
  BY ServedAnswer
<1> HIDE DEF a, r, d
<1>4. /\ DOMAIN query' = Requests \cup {n} /\ n \notin Requests
      /\ query'[n] = r /\ \A p \in Requests : query'[p] = a[p]
  BY <1>n, <1>1, <1>2, <1>3, Extended
<1>5. Requests' = Requests \cup {n} /\ id \in SubId
  BY <1>4, ReqQueryAssumption DEF Requests, IdOf
<1>6. /\ DOMAIN subscriptions' = DOMAIN subscriptions \cup {id} /\ running' = subscriptions'
      /\ subscriptions'[id] = n
      /\ \A j \in DOMAIN subscriptions : j # id => subscriptions'[j] = subscriptions[j]
  BY <1>1 DEF QueryInv, Maps, With
<1> HIDE DEF phase
<1>7. Q = IF id \in DOMAIN subscriptions THEN {subscriptions[id]} ELSE {}
  BY DEF Replaced, QueryInv, Maps
<1>8. Maps'
  BY <1>5, <1>6 DEF QueryInv, Maps
<1>9. /\ \A j \in DOMAIN subscriptions : subscriptions[j] \in Requests
      /\ \A j \in DOMAIN subscriptions : IdOf(query[subscriptions[j]].sub) = j
  BY DEF QueryInv, Maps, Tracked, IdOf, SubOf
<1>10. \A p \in Requests : p \in Wanted' <=> p \in Wanted \ Q
  <2>1. ASSUME NEW p \in Requests, p \in Wanted' PROVE p \in Wanted \ Q
    <3>1. PICK j \in DOMAIN subscriptions' : p = subscriptions'[j]
      BY <2>1 DEF Wanted
    <3>2. j # id /\ j \in DOMAIN subscriptions /\ p = subscriptions[j]
      BY <1>4, <1>6, <2>1, <3>1
    <3> QED
      BY <1>7, <1>9, <3>2 DEF Wanted
  <2>2. ASSUME NEW p \in Requests, p \in Wanted \ Q PROVE p \in Wanted'
    <3>1. PICK j \in DOMAIN subscriptions : p = subscriptions[j]
      BY <2>2 DEF Wanted
    <3>2. j # id
      BY <1>7, <2>2, <3>1
    <3> QED
      BY <1>6, <3>1, <3>2 DEF Wanted
  <2> QED
    BY <2>1, <2>2
<1>11. n \in Wanted'
  BY <1>6 DEF Wanted
<1>12. Tracked'
  <2>1. ASSUME NEW j \in DOMAIN subscriptions' PROVE IdOf(query'[subscriptions'[j]].sub) = j
    BY <1>2, <1>3, <1>4, <1>6, <1>9
  <2>2. ASSUME NEW p \in Requests
        PROVE  /\ p \in Wanted' => ~query'[p].abandoned
               /\ HasThread(p)' /\ p \notin Wanted' => query'[p].abandoned
    BY <1>2, <1>4, <1>10 DEF QueryInv, Tracked, HasThread, PhaseOf
  <2>4. /\ \A u \in Requests : Named(u)' = Named(u) /\ PhaseOf(u)' = PhaseOf(u)
        /\ Named(n)' = id /\ PhaseOf(n)' \notin Unserved
    BY <1>2, <1>3, <1>4 DEF Named, SubOf, IdOf, PhaseOf
  <2>5. ASSUME NEW p \in Wanted' PROVE Latest(p)'
    <3>1. PICK j \in DOMAIN subscriptions' : p = subscriptions'[j]
      BY DEF Wanted
    <3>2. CASE j = id
      <4>1. \A u \in Requests' : ~(u > n)
        BY <1>n, <1>5, Requested
      <4> QED
        BY <1>6, <2>4, <3>1, <3>2, <4>1 DEF Latest
    <3>3. CASE j # id
      <4>1. p = subscriptions[j] /\ p \in Requests /\ p \in Wanted /\ Latest(p)
        BY <1>6, <1>9, <3>1, <3>3 DEF QueryInv, Tracked, Wanted
      <4>2. Named(p) = j
        BY <1>6, <1>9, <3>1, <3>3, <4>1 DEF Named, SubOf
      <4> QED
        BY <1>5, <2>4, <3>3, <4>1, <4>2 DEF Latest
    <3> QED
      BY <3>2, <3>3
  <2>3. ~query'[n].abandoned
    BY <1>3, <1>4
  <2> QED
    BY <1>5, <1>11, <2>1, <2>2, <2>3, <2>5 DEF Tracked, IdOf, SubOf
<1> QED
  BY <1>1, <1>2, <1>3, <1>d, <1>8, <1>10, <1>12, RequestStep DEF r

\* The loop gets the permit it waits for, and one more thread holds one.
LEMMA PermitStep ==
    ASSUME QueryInv, TakePermit
    PROVE  QueryInv'
<1>q. PICK q : q = Len(query)
  OBVIOUS
<1> DEFINE r == [query[q] EXCEPT !.phase = "spawned"]
<1>1. /\ conn = "permit" /\ conn' = "select" /\ query' = [query EXCEPT ![q] = r]
      /\ Cardinality(Holders) < Permits
      /\ UNCHANGED <<writer, bcast, subscriptions, running, results, checkpoint, client>>
  BY <1>q DEF TakePermit
<1>2. q \in Requests /\ PhaseOf(q) = "permit"
  BY <1>q, <1>1 DEF QueryInv, Waiting
<1>3. query[q] \in QueryRecord /\ query \in Seq(QueryRecord) /\ q \in DOMAIN query
  BY <1>2, Requested DEF QueryInv, Queries, Requests
<1>4. /\ r \in QueryRecord /\ r.sub = query[q].sub /\ r.phase = "spawned"
      /\ r.filter = query[q].filter /\ r.rows = query[q].rows
      /\ r.abandoned = query[q].abandoned /\ r.count = query[q].count
  BY <1>3 DEF QueryRecord, Phase, Executing
<1> HIDE DEF r
<1>5. /\ query' \in Seq(QueryRecord) /\ Len(query') = Len(query) /\ DOMAIN query' = DOMAIN query
      /\ query'[q] = r /\ \A p \in Requests : p # q => query'[p] = query[p]
  BY <1>1, <1>3, <1>4, Updated DEF Requests
<1>6. Requests' = Requests /\ Wanted' = Wanted
  BY <1>1, <1>5 DEF Requests, Wanted
<1>7. Holders' = Holders \cup {q} /\ q \notin Holders
  BY <1>2, <1>4, <1>5, <1>6 DEF Holders, PhaseOf, Executing
<1>8. IsFiniteSet(Holders') /\ Cardinality(Holders') <= Permits
  <2>1. IsFiniteSet(Holders) /\ Cardinality(Holders) \in Nat
    BY FS_CardinalityType DEF QueryInv, Queries
  <2>2. IsFiniteSet(Holders') /\ Cardinality(Holders') = Cardinality(Holders) + 1
    BY <1>7, <2>1, FS_AddElement
  <2> QED
    BY <1>1, <2>1, <2>2, Constants
<1>9. Feeds' /\ Maps'
  BY <1>1, <1>6 DEF QueryInv, Feeds, Maps, writer
<1>10. Queries'
  BY <1>1, <1>5, <1>6, <1>8 DEF QueryInv, Queries
<1>11. ASSUME NEW p \in Requests
       PROVE  query'[p].sub = query[p].sub /\ query'[p].abandoned = query[p].abandoned
  BY <1>4, <1>5
<1>l. \A p \in Requests : (Latest(p)' <=> Latest(p)) /\ Named(p)' = Named(p)
  <2>1. \A p \in Requests : query'[p].phase \in Unserved <=> query[p].phase \in Unserved
    BY <1>2, <1>4, <1>5 DEF PhaseOf, Unserved
  <2> QED
    BY <1>6, <1>11, <2>1, LatestFrame
<1>12. Tracked'
  <2>1. \A i \in DOMAIN subscriptions : IdOf(query'[subscriptions[i]].sub) = i
    BY <1>11 DEF QueryInv, Tracked, Maps, IdOf, SubOf
  <2>3. \A p \in Wanted : Latest(p)'
    BY <1>l DEF QueryInv, Tracked, Maps, Wanted
  <2>2. ASSUME NEW p \in Requests
        PROVE  /\ p \in Wanted => ~query'[p].abandoned
               /\ query'[p].phase \in Executing \cup {"permit", "ending"} /\ p \notin Wanted
                      => query'[p].abandoned
    <3>1. CASE p # q
      BY <1>5, <3>1 DEF QueryInv, Tracked, HasThread, PhaseOf
    <3>2. CASE p = q
      BY <1>2, <1>11, <3>2 DEF QueryInv, Tracked, HasThread
    <3> QED
      BY <3>1, <3>2
  <2> QED
    BY <1>1, <1>6, <2>1, <2>2, <2>3 DEF Tracked, IdOf, SubOf, HasThread, PhaseOf
<1>13. Waiting'
  BY <1>1 DEF Waiting
<1>14. Ordered'
  <2>1. ASSUME NEW p \in Requests
        PROVE  /\ HasThread(p)' => HasThread(p)
               /\ query[p].phase = "done" => query'[p].phase = "done"
    BY <1>2, <1>5, <2>1 DEF HasThread, PhaseOf
  <2> QED
    BY <1>1, <1>6, <1>l, <1>11, <2>1, OrderedFrame DEF QueryInv
<1>19. EoseMeansComplete'
  BY <1>1, <1>6, <1>11, CompleteFrame DEF QueryInv
<1>15. ASSUME NEW p \in Requests, p # q PROVE CoveredQuery(p)' /\ PunctualQuery(p)'
  BY <1>1, <1>5, <1>6, <1>l, <1>15, KeptStep
<1>16. CoveredQuery(q)'
  <2>1. CoveredQuery(q) /\ PhaseOf(q) \in Answering
    BY <1>2 DEF QueryInv, Covered, Answering
  <2>2. InChannel(q)' = InChannel(q) /\ Feed' = Feed
    BY <1>1, <1>2, <1>l DEF InChannel, Feed, writer
  <2>3. Unread(q)' = Unread(q)
    BY <1>2, <1>4, <1>5 DEF Unread, PhaseOf, Executing
  <2>4. Coming(q)' = Coming(q)
    BY <1>1, <2>2, <2>3 DEF Coming
  <2> QED
    BY <1>1, <1>2, <1>4, <1>5, <1>6, <1>l, <2>1, <2>2, <2>4 DEF CoveredQuery, writer
<1>17. PunctualQuery(q)'
  BY <1>1, <1>2, <1>4, <1>5 DEF QueryInv, Punctual, PunctualQuery, PhaseOf, HasThread
<1>18. Covered' /\ Punctual'
  BY <1>6, <1>15, <1>16, <1>17 DEF Covered, Punctual
<1> QED
  BY <1>9, <1>10, <1>12, <1>13, <1>14, <1>18, <1>19 DEF QueryInv

-----------------------------------------------------------------------------
(* What the loop sends. *)

\* The client gets more of what was coming to it; nothing else of the invariant moves.
LEMMA DeliveryStep ==
    ASSUME QueryInv, UNCHANGED <<writer, conn, subscriptions, running, query, checkpoint>>,
           conn = "select", Feeds', Ordered', EoseMeansComplete',
           client' \in Seq(ClientRecord), Len(client') = Len(client),
           results' \in Seq(Item),
           Len(results') <= Len(results),
           \A q \in Requests :
               /\ client'[q].asked = client[q].asked /\ client'[q].blind = client[q].blind
               /\ client'[q].late = client[q].late /\ client[q].got \subseteq client'[q].got
               /\ Latest(q) => \A e \in InChannel(q) \cap Sendable :
                                    e \in client'[q].got \/ e \in InChannel(q)'
               /\ \A e \in Topics[query[q].sub] \cap Sendable :
                      e \in Feed /\ q \in Wanted => e \in client'[q].got \/ e \in Feed'
    PROVE  QueryInv'
<1>1. Requests' = Requests /\ Wanted' = Wanted /\ Holders' = Holders
  BY DEF Requests, Wanted, Holders, PhaseOf
<1>0. \A p \in Requests : (Latest(p)' <=> Latest(p)) /\ Named(p)' = Named(p)
  BY <1>1, LatestFrame
<1>2. Maps'
  BY <1>1 DEF QueryInv, Maps
<1>3. Queries'
  <2>1. Len(results) \in Nat /\ Len(results') \in Nat /\ Len(results) <= QueueCap
    <3>1. results \in Seq(Item) /\ results' \in Seq(Item)
      BY DEF QueryInv, Queries
    <3>2. Len(results) \in Nat /\ Len(results') \in Nat
      BY <3>1, Domains
    <3> QED
      BY <3>2 DEF QueryInv, Queries
  <2>2. Len(results') <= QueueCap
    BY <2>1, Constants
  <2> QED
    BY <1>1, <2>2 DEF QueryInv, Queries
<1>4. Tracked' /\ Waiting'
  <2>1. Tracked'
    BY <1>0, <1>1 DEF QueryInv, Tracked, Maps, Wanted, IdOf, SubOf, HasThread, PhaseOf
  <2>2. Waiting'
    BY DEF Waiting
  <2> QED
    BY <2>1, <2>2
<1>5. ASSUME NEW q \in Requests PROVE CoveredQuery(q)' /\ PunctualQuery(q)'
  <2>1. CoveredQuery(q) /\ PunctualQuery(q)
    BY DEF QueryInv, Covered, Punctual
  <2>2. PhaseOf(q)' = PhaseOf(q) /\ Unread(q)' = Unread(q)
    BY DEF PhaseOf, Unread
  <2>3. Latest(q) => \A e \in Coming(q) \cap Sendable : e \in Coming(q)'
    BY <2>2 DEF Coming
  <2>4. client'[q].got \subseteq Coming(q)'
    BY DEF Coming
  <2>5. CoveredQuery(q)'
    BY <1>0, <1>1, <2>1, <2>2, <2>3, <2>4 DEF CoveredQuery, writer
  <2>6. PunctualQuery(q)'
    BY <2>1 DEF PunctualQuery, PhaseOf, HasThread
  <2> QED
    BY <2>5, <2>6
<1>6. Covered' /\ Punctual'
  BY <1>1, <1>5 DEF Covered, Punctual
<1> QED
  BY <1>2, <1>3, <1>4, <1>6 DEF QueryInv

LEMMA ReceivedFacts ==
    ASSUME NEW c \in ClientRecord, NEW item \in Event \cup {EOSE},
           NEW d, d = Received(c, item)
    PROVE  /\ d \in ClientRecord
           /\ d.asked = c.asked /\ d.blind = c.blind /\ d.clean = c.clean /\ d.late = c.late
           /\ c.got \subseteq d.got
           /\ d.eose <=> c.eose \/ item = EOSE
           /\ item # EOSE /\ item \in Sendable => item \in d.got
<1> DEFINE got == c.got \cup ({item} \cap Sendable)
<1>1. c.got \subseteq Event /\ c.eose \in BOOLEAN
  BY DEF ClientRecord
<1>2. got \subseteq Event /\ c.got \subseteq got /\ (item \in Sendable => item \in got)
  BY <1>1, ReqQueryAssumption
<1>3. d = IF item = EOSE THEN [c EXCEPT !.eose = TRUE] ELSE [c EXCEPT !.got = got]
  BY DEF Received
<1> HIDE DEF got
<1>4. CASE item = EOSE
  BY <1>1, <1>3, <1>4 DEF ClientRecord
<1>5. CASE item # EOSE
  BY <1>1, <1>2, <1>3, <1>5 DEF ClientRecord
<1> QED
  BY <1>4, <1>5

LEMMA ResultStep ==
    ASSUME QueryInv, SendResult
    PROVE  QueryInv'
<1>x. PICK x : x = Head(results)
  OBVIOUS
<1> DEFINE Meant(q) == Latest(q) /\ Named(q) = x.id
           rec(q) == IF Meant(q) THEN Received(client[q], x.item) ELSE client[q]
<1>1. /\ conn = "select" /\ results # <<>> /\ results' = Tail(results)
      /\ client' = [q \in Requests |-> rec(q)]
      /\ UNCHANGED <<writer, bcast, conn, subscriptions, running, query, checkpoint>>
  BY <1>x DEF SendResult
<1>2. results \in Seq(Item)
  BY DEF QueryInv, Queries
<1>3. /\ x \in Item /\ x = results[1] /\ 1 \in DOMAIN results
      /\ results' \in Seq(Item) /\ Len(results') = Len(results) - 1 /\ Len(results) \in Nat
      /\ \A i \in DOMAIN results' : i + 1 \in DOMAIN results /\ results'[i] = results[i + 1]
      /\ \A i \in DOMAIN results :
             i = 1 \/ (i - 1 \in DOMAIN results' /\ results'[i - 1] = results[i])
      /\ DOMAIN results' = 1..Len(results')
  BY <1>x, <1>1, <1>2, Popped, Domains
<1>4. x.item \in Event \cup {EOSE}
  BY <1>3 DEF Item
<1>5. \A q \in Requests : client'[q] = rec(q)
  BY <1>1
<1>6. ASSUME NEW q \in Requests
      PROVE  /\ client'[q] \in ClientRecord
             /\ client'[q].asked = client[q].asked /\ client'[q].blind = client[q].blind
             /\ client'[q].clean = client[q].clean
             /\ client'[q].late = client[q].late /\ client[q].got \subseteq client'[q].got
             /\ client'[q].eose <=> client[q].eose \/ (Meant(q) /\ x.item = EOSE)
             /\ Meant(q) /\ x.item # EOSE /\ x.item \in Sendable => x.item \in client'[q].got
  <2>1. client[q] \in ClientRecord
    BY Requested
  <2>2. CASE Meant(q)
    <3>1. client'[q] = Received(client[q], x.item)
      BY <1>5, <2>2
    <3> HIDE DEF rec, Meant
    <3> QED
      BY <1>4, <2>1, <2>2, <3>1, ReceivedFacts
  <2>3. CASE ~Meant(q)
    BY <1>5, <2>1, <2>3
  <2> QED
    BY <2>2, <2>3
<1>7. client' \in Seq(ClientRecord) /\ Len(client') = Len(client)
  <2>1. client \in Seq(ClientRecord) /\ DOMAIN client = Requests
    BY Requested DEF QueryInv, Queries
  <2>2. client' = [q \in DOMAIN client |-> client'[q]]
    BY <1>1, <2>1
  <2>3. \A q \in DOMAIN client : client'[q] \in ClientRecord
    BY <1>6, <2>1
  <2> QED
    BY <2>1, <2>2, <2>3, Rebuilt
<1>8. Feeds' /\ Feed' = Feed
  BY <1>1 DEF QueryInv, Feeds, Feed, writer
<1>r. /\ Requests' = Requests
      /\ \A q \in Requests : (Latest(q)' <=> Latest(q)) /\ Named(q)' = Named(q)
  <2>1. Requests' = Requests
    BY <1>1 DEF Requests
  <2> QED
    BY <1>1, <2>1, LatestFrame
<1>m. \A q \in Requests : Meant(q) <=> Latest(q) /\ Named(q) = x.id
  OBVIOUS
<1> HIDE DEF rec, Meant
<1>9. Ordered'
  <2>1. ASSUME NEW q \in Requests, Latest(q)', client'[q].clean PROVE OrderedQuery(q)'
    <3>1. OrderedQuery(q) /\ Latest(q)
      BY <1>6, <1>r, <2>1 DEF QueryInv, Ordered
    <3>2. ASSUME NEW i \in DOMAIN results', NEW j \in DOMAIN results', i < j,
                 results'[i].id = Named(q), results'[j].id = Named(q)
          PROVE  results'[i].item # EOSE
      <4>1. i + 1 \in DOMAIN results /\ j + 1 \in DOMAIN results /\ i + 1 < j + 1
        <5>1. i \in Nat /\ j \in Nat
          BY <1>3
        <5> QED
          BY <1>3, <3>2, <5>1
      <4> QED
        BY <1>3, <3>1, <3>2, <4>1 DEF OrderedQuery
    <3>3. ASSUME NEW i \in DOMAIN results', results'[i].id = Named(q), results'[i].item = EOSE
          PROVE  query[q].phase = "done"
      BY <1>3, <3>1, <3>3 DEF OrderedQuery, PhaseOf
    <3>4. ASSUME client'[q].eose
          PROVE  query[q].phase = "done" /\ \A i \in DOMAIN results' : results'[i].id # Named(q)
      <4>1. CASE client[q].eose
        BY <1>3, <3>1, <4>1 DEF OrderedQuery, PhaseOf
      <4>2. CASE ~client[q].eose
        <5>1. Meant(q) /\ x.item = EOSE /\ Named(q) = x.id
          BY <1>6, <1>m, <3>4, <4>2
        <5>2. query[q].phase = "done"
          BY <1>3, <3>1, <5>1 DEF OrderedQuery, PhaseOf
        <5>3. ASSUME NEW i \in DOMAIN results' PROVE results'[i].id # Named(q)
          <6>1. i + 1 \in DOMAIN results /\ 1 < i + 1 /\ results'[i] = results[i + 1]
            BY <1>3
          <6> QED
            BY <1>3, <3>1, <5>1, <6>1 DEF OrderedQuery
        <5> QED
          BY <5>2, <5>3
      <4> QED
        BY <4>1, <4>2
    <3>5. \A p \in Requests : HasThread(p) /\ Named(p) = Named(q) => p = q
      BY <3>1 DEF OrderedQuery
    <3>6. \A p \in Requests : HasThread(p)' <=> HasThread(p)
      BY <1>1 DEF HasThread, PhaseOf
    <3>7. PhaseOf(q)' = query[q].phase
      BY <1>1 DEF PhaseOf
    <3> QED
      BY <1>r, <3>2, <3>3, <3>4, <3>5, <3>6, <3>7 DEF OrderedQuery
  <2> QED
    BY <1>r, <2>1 DEF Ordered
<1>10. ASSUME NEW q \in Requests, Latest(q), NEW e \in InChannel(q) \cap Sendable
       PROVE  e \in client'[q].got \/ e \in InChannel(q)'
  <2>1. PICK i \in DOMAIN results : results[i].id = Named(q) /\ results[i].item = e /\ e \in Event
    BY DEF InChannel
  <2>2. CASE i = 1
    BY <1>3, <1>6, <1>m, <1>10, <2>1, <2>2, Constants
  <2>3. CASE i # 1
    <3>1. i - 1 \in DOMAIN results' /\ results'[i - 1] = results[i]
      BY <1>3, <2>3
    <3> QED
      BY <1>r, <2>1, <3>1 DEF InChannel
  <2> QED
    BY <2>2, <2>3
<1>11. Len(results') <= Len(results)
  BY <1>3
<1>12. EoseMeansComplete'
  <2>1. ASSUME NEW q \in Requests, client'[q].eose, client'[q].clean, ~client'[q].blind
        PROVE  client'[q].asked \cap Interested(query[q].sub) \cap Sendable \subseteq client'[q].got
    <3>1. CASE client[q].eose
      BY <1>6, <2>1, <3>1 DEF QueryInv, EoseMeansComplete, SubOf
    <3>2. CASE ~client[q].eose
      <4>1. Latest(q) /\ Named(q) = x.id /\ x.item = EOSE /\ client[q].clean /\ ~client[q].blind
        BY <1>6, <1>m, <2>1, <3>2
      <4>2. OrderedQuery(q) /\ CoveredQuery(q)
        BY <4>1 DEF QueryInv, Ordered, Covered
      <4>3. PhaseOf(q) = "done"
        BY <1>3, <4>1, <4>2 DEF OrderedQuery
      <4>4. InChannel(q) = {}
        <5>1. ASSUME NEW i \in DOMAIN results, results[i].id = Named(q), i # 1 PROVE FALSE
          <6>1. 1 < i
            BY <1>2, <5>1, Domains
          <6> QED
            BY <1>3, <4>1, <4>2, <5>1, <6>1 DEF OrderedQuery
        <5> QED
          BY <1>3, <4>1, <5>1, Constants DEF InChannel
      <4>5. Unread(q) = {}
        BY <4>3 DEF Unread, Executing
      <4>6. Topics[query[q].sub] = Interested(query[q].sub) /\ Topics[query[q].sub] \subseteq Event
        BY Requested, RecordTypes, RestFacts
      <4>7. client[q].asked \cap Topics[query[q].sub] \cap Sendable \subseteq client[q].got
        BY <4>1, <4>2, <4>3, <4>4, <4>5 DEF CoveredQuery, Coming, Answering
      <4> QED
        BY <1>6, <4>6, <4>7
    <3> QED
      BY <3>1, <3>2
  <2> QED
    BY <1>1, <1>r, <2>1 DEF EoseMeansComplete, SubOf
<1>13. ASSUME NEW q \in Requests
       PROVE  /\ client'[q].asked = client[q].asked /\ client'[q].blind = client[q].blind
              /\ client'[q].late = client[q].late /\ client[q].got \subseteq client'[q].got
  BY <1>6
<1> QED
  BY <1>1, <1>3, <1>7, <1>8, <1>9, <1>10, <1>11, <1>12, <1>13, DeliveryStep

LEMMA BroadcastStep ==
    ASSUME QueryInv, SendBroadcast
    PROVE  QueryInv'
<1>e. PICK e : e = Head(bcast)
  OBVIOUS
<1> DEFINE got(q) == client[q].got \cup {f \in {e} \cap Sendable : q \in Listening(e)}
           rec(q) == [client[q] EXCEPT !.got = got(q)]
<1>1. /\ conn = "select" /\ bcast # <<>> /\ bcast' = Tail(bcast)
      /\ client' = [q \in Requests |-> rec(q)]
      /\ UNCHANGED <<writer, conn, subscriptions, running, query, results, checkpoint>>
  BY <1>e DEF SendBroadcast
<1>2. /\ e \in stored /\ e = bcast[1]
      /\ bcast' \in Seq(stored) /\ Len(bcast') = Len(bcast) - 1 /\ Len(bcast) \in Nat
      /\ \A i \in DOMAIN bcast :
             i = 1 \/ (i - 1 \in DOMAIN bcast' /\ bcast'[i - 1] = bcast[i])
  BY <1>e, <1>1, Popped, Domains DEF QueryInv, Feeds
<1>3. ASSUME NEW q \in Requests
      PROVE  /\ rec(q) \in ClientRecord /\ rec(q).got = got(q)
             /\ rec(q).asked = client[q].asked /\ rec(q).blind = client[q].blind
             /\ rec(q).late = client[q].late /\ rec(q).eose = client[q].eose
             /\ rec(q).clean = client[q].clean
             /\ client[q].got \subseteq got(q)
             /\ q \in Listening(e) /\ e \in Sendable => e \in got(q)
  <2>1. client[q] \in ClientRecord /\ client[q].got \subseteq Event
    BY Requested DEF ClientRecord
  <2>2. got(q) \subseteq Event /\ client[q].got \subseteq got(q)
        /\ (q \in Listening(e) /\ e \in Sendable => e \in got(q))
    BY <2>1, ReqQueryAssumption
  <2> HIDE DEF got
  <2> QED
    BY <2>1, <2>2 DEF ClientRecord
<1> HIDE DEF rec, got
<1>4. \A q \in Requests : client'[q] = rec(q)
  BY <1>1
<1>5. client' \in Seq(ClientRecord) /\ Len(client') = Len(client)
  <2>1. client \in Seq(ClientRecord) /\ DOMAIN client = Requests
    BY Requested DEF QueryInv, Queries
  <2>2. client' = [q \in DOMAIN client |-> client'[q]]
    BY <1>1, <2>1
  <2>3. \A q \in DOMAIN client : client'[q] \in ClientRecord
    BY <1>3, <1>4, <2>1
  <2> QED
    BY <2>1, <2>2, <2>3, Rebuilt
<1>6. ASSUME NEW q \in Requests
      PROVE  /\ client'[q].asked = client[q].asked /\ client'[q].blind = client[q].blind
             /\ client'[q].late = client[q].late /\ client'[q].eose = client[q].eose
             /\ client'[q].clean = client[q].clean
             /\ client[q].got \subseteq client'[q].got
             /\ q \in Listening(e) /\ e \in Sendable => e \in client'[q].got
  BY <1>3, <1>4
<1>7. Feeds'
  <2>1. Len(bcast) <= BroadcastCap
    BY DEF QueryInv, Feeds
  <2>2. Len(bcast') <= BroadcastCap
    BY <1>2, <2>1, Constants
  <2> QED
    BY <1>1, <1>2, <2>2 DEF QueryInv, Feeds, writer
<1>8. Ordered'
  <2>1. Requests' = Requests /\ results' = results
    BY <1>1 DEF Requests
  <2>2. \A q \in Requests : (Latest(q)' <=> Latest(q)) /\ (HasThread(q)' <=> HasThread(q))
    BY <1>1, <2>1, LatestFrame DEF HasThread, PhaseOf
  <2> QED
    BY <1>1, <1>6, <2>1, <2>2, OrderedFrame DEF QueryInv
<1>12. EoseMeansComplete'
  BY <1>1, <1>6, CompleteFrame DEF QueryInv, Requests
<1>9. ASSUME NEW q \in Requests, NEW f \in Topics[query[q].sub] \cap Sendable,
             f \in Feed, q \in Wanted
      PROVE  f \in client'[q].got \/ f \in Feed'
  <2>1. CASE f = e
    <3>1. query[q].sub \in Sub
      BY Requested, RecordTypes
    <3>2. f \in Interested(SubOf(q))
      BY <3>1, RestFacts DEF SubOf
    <3>3. q \in Listening(e)
      BY <1>9, <2>1, <3>2 DEF Listening, Wanted
    <3> QED
      BY <1>6, <2>1, <3>3
  <2>2. CASE f # e
    <3>1. CASE f \in unsent
      BY <1>1, <3>1 DEF Feed, writer
    <3>2. CASE f \notin unsent
      <4>1. PICK i \in DOMAIN bcast : bcast[i] = f
        BY <1>9, <3>2 DEF Feed
      <4>2. i - 1 \in DOMAIN bcast' /\ bcast'[i - 1] = f
        BY <1>2, <2>2, <4>1
      <4> QED
        BY <4>2 DEF Feed
    <3> QED
      BY <3>1, <3>2
  <2> QED
    BY <2>1, <2>2
<1>10. ASSUME NEW q \in Requests PROVE InChannel(q)' = InChannel(q)
  BY <1>1 DEF InChannel, Named, SubOf, IdOf
<1>11. /\ results' \in Seq(Item)
       /\ Len(results') <= Len(results)
  <2>1. results \in Seq(Item) /\ results' = results
    BY <1>1 DEF QueryInv, Queries
  <2>2. results' \in Seq(Item) /\ Len(results') <= Len(results)
    BY <2>1, Domains
  <2> QED
    BY <2>2
<1> QED
  BY <1>1, <1>5, <1>6, <1>7, <1>8, <1>9, <1>10, <1>11, <1>12, DeliveryStep

-----------------------------------------------------------------------------
(* The theorems. *)

LEMMA ThreadStep ==
    ASSUME QueryInv, NEW q \in Requests, Step(q)
    PROVE  QueryInv'
<1>1. CASE StartBlind(q)
  BY <1>1, BlindStep
<1>2. CASE NextFilter(q)
  BY <1>2, FilterStep
<1>3. CASE Finish(q)
  BY <1>3, FinishStep
<1>4. CASE SendRow(q)
  BY <1>4, RowStep
<1>5. CASE SendEose(q)
  BY <1>5, EoseStep
<1> QED
  BY <1>1, <1>2, <1>3, <1>4, <1>5, PacedStep DEF Step

LEMMA StepLemma ==
    ASSUME QueryInv, [Next]_vars
    PROVE  QueryInv'
<1>1. CASE \E e \in Event : Commit(e) \/ Broadcast(e)
  BY <1>1, WriterStep
<1>2. CASE \E s \in Sub : Req(s)
  BY <1>2, UnservedStep, AcceptedStep DEF Req
<1>3. CASE \E i \in SubId : Close(i)
  BY <1>3, CloseStep
<1>4. CASE TakePermit
  BY <1>4, PermitStep
<1>5. CASE Disconnect
  BY <1>5, DisconnectStep
<1>6. CASE SendResult
  BY <1>6, ResultStep
<1>7. CASE SendBroadcast
  BY <1>7, BroadcastStep
<1>8. CASE \E q \in Requests : Step(q)
  BY <1>8, ThreadStep
<1>9. CASE CheckpointBegins \/ CheckpointEnds
  BY <1>9, CheckpointStep
<1>10. CASE UNCHANGED vars
  <2>1. /\ UNCHANGED <<conn, subscriptions, running, query, results, client>>
        /\ UNCHANGED <<writer, bcast>> /\ checkpoint' \in BOOLEAN
    BY <1>10 DEF vars, QueryInv, Queries
  <2>2. Feed' = Feed /\ stored' = stored /\ lagged' = lagged /\ unsent' = unsent
    BY <2>1 DEF Feed, writer
  <2>3. Feeds'
    BY <2>1, <2>2 DEF QueryInv, Feeds
  <2> QED
    BY <2>1, <2>2, <2>3, FeedStep
<1> QED
  BY <1>1, <1>2, <1>3, <1>4, <1>5, <1>6, <1>7, <1>8, <1>9, <1>10 DEF Next

\* Whatever the loop, the threads, the writer and the checkpoint do, the account of
\* nostr_server's two maps, its channels and its threads stays consistent.
THEOREM QueryInvariant == Spec => []QueryInv
<1>1. Init => QueryInv
  BY InitLemma
<1>2. QueryInv /\ [Next]_vars => QueryInv'
  BY StepLemma
<1> QED
  BY <1>1, <1>2, PTL DEF Spec

\* The type invariant: among others, no more threads than permits execute, and neither
\* channel overflows.
THEOREM QueryTypes == Spec => []TypeOK
<1>1. QueryInv => TypeOK
  <2> SUFFICES ASSUME QueryInv PROVE TypeOK
    OBVIOUS
  <2>1. Feeds /\ Maps /\ Queries
    BY DEF QueryInv
  <2>2. /\ query \in Seq([sub : Sub, phase : Phase, filter : Nat, rows : SUBSET Event,
                          count : Nat, abandoned : BOOLEAN])
        /\ client \in Seq([asked : SUBSET Event, got : SUBSET Event, eose : BOOLEAN,
                           blind : BOOLEAN, clean : BOOLEAN, late : Nat])
        /\ results \in Seq([id : SubId, item : Event \cup {EOSE}])
    BY <2>1 DEF Queries, QueryRecord, ClientRecord, Item
  <2>3. \A i \in DOMAIN running : running[i] \in Requests
    BY <2>1 DEF Maps
  <2> QED
    BY <2>1, <2>2, <2>3 DEF TypeOK, Feeds, Maps, Queries
<1> QED
  BY <1>1, QueryInvariant, PTL

\* The abandon channel of a query is used when its subscription is closed or replaced or
\* its connection ends, and never otherwise.
THEOREM AbandonedWhenUnwanted == Spec => []AbandonedIffUnwanted
<1>1. QueryInv => AbandonedIffUnwanted
  BY DEF QueryInv, Tracked, AbandonedIffUnwanted
<1> QED
  BY <1>1, QueryInvariant, PTL

\* query_subscription sends EOSE only after every row of every filter, so a client that
\* receives it under an id that was free when it asked has each matching event that was
\* stored then.  What a client cannot tell is whose EOSE it receives when it uses an id
\* again too early: send_result_tx carries the subscription id alone.
THEOREM EoseComplete == Spec => []EoseMeansComplete
<1>1. QueryInv => EoseMeansComplete
  BY DEF QueryInv
<1> QED
  BY <1>1, QueryInvariant, PTL

\* The subscription is registered before its query takes a snapshot, and the writer
\* commits before it broadcasts: no event falls between the two.
THEOREM NoGapTheorem == Spec => []NoGap
<1>1. ASSUME QueryInv, NEW q \in Wanted, PhaseOf(q) = "done", ~client[q].blind,
             results = <<>>, bcast = <<>>, unsent = {}
      PROVE  (stored \cap Interested(SubOf(q)) \cap Sendable) \ lagged \subseteq client[q].got
  <2>1. q \in Requests
    BY <1>1 DEF QueryInv, Maps, Wanted
  <2>2. query[q].sub \in Sub
    BY <1>1, <2>1, Requested, RecordTypes
  <2>3. Topics[query[q].sub] = Interested(SubOf(q))
    BY <2>2, RestFacts DEF SubOf
  <2>4. InChannel(q) = {} /\ Unread(q) = {} /\ Feed = {}
    BY <1>1 DEF InChannel, Unread, Executing, Feed
  <2>5. CoveredQuery(q) /\ Latest(q)
    BY <1>1, <2>1 DEF QueryInv, Covered, Tracked, Wanted
  <2> QED
    BY <1>1, <2>3, <2>4, <2>5 DEF CoveredQuery, Coming, Answering
<1>2. QueryInv => NoGap
  BY <1>1 DEF NoGap
<1> QED
  BY <1>2, QueryInvariant, PTL

\* The thread looks at the abandon channel every CheckEvery rows, so a query nobody wants
\* sends no more than that and its EOSE, however long its result.
THEOREM AbandonedStops == Spec => []AbandonedStopsSoon
<1>1. QueryInv => AbandonedStopsSoon
  BY DEF QueryInv, Punctual, PunctualQuery, AbandonedStopsSoon
<1> QED
  BY <1>1, QueryInvariant, PTL

=============================================================================
