---------------------------- MODULE Publish_proofs ----------------------------
(***************************************************************************)
(* Theorems about publishing, for any connections, events, keys and        *)
(* configurations, any capacities of the channels and any bounds: what is  *)
(* let through, and what is sent, satisfies the rules of its kind for a    *)
(* key proved over the very connection, or for none where none is asked    *)
(* for; what clients are told is true; and the rate limits hold.           *)
(***************************************************************************)
EXTENDS Publish, SequenceTheorems, FiniteSetTheorems, TLAPS

-----------------------------------------------------------------------------
(* Channels. *)

UpTo(S, n) == {s \in Seq(S) : Len(s) <= n}

LEMMA Emptied == \A S : \A n \in Nat : <<>> \in UpTo(S, n)
BY DEF UpTo

LEMMA Appended ==
    ASSUME NEW S, NEW n \in Nat, NEW s \in UpTo(S, n), NEW x \in S, Len(s) < n
    PROVE  Append(s, x) \in UpTo(S, n)
BY DEF UpTo

LEMMA HeadAndTail ==
    ASSUME NEW S, NEW n \in Nat, NEW s \in UpTo(S, n), s # <<>>
    PROVE  /\ Head(s) \in S /\ Tail(s) \in UpTo(S, n)
           /\ 1 \in DOMAIN s /\ Head(s) = s[1]
           /\ \A i \in DOMAIN Tail(s) : i + 1 \in DOMAIN s /\ Tail(s)[i] = s[i + 1]
<1>1. s \in Seq(S) /\ Len(s) \in Nat /\ Len(s) <= n /\ DOMAIN s = 1..Len(s)
  BY LenProperties DEF UpTo
<1>2. /\ Head(s) \in S /\ Tail(s) \in Seq(S) /\ Len(Tail(s)) = Len(s) - 1
      /\ \A i \in 1..Len(Tail(s)) : Tail(s)[i] = s[i + 1]
  BY <1>1, HeadTailProperties
<1>3. Len(s) > 0 /\ Head(s) = s[1]
  BY <1>1, EmptySeq
<1>4. DOMAIN Tail(s) = 1..(Len(s) - 1)
  BY <1>2, LenProperties
<1> QED
  BY <1>1, <1>2, <1>3, <1>4 DEF UpTo

\* A full channel loses its oldest event.
LEMMA Shifted ==
    ASSUME NEW S, NEW n \in Nat \ {0}, NEW s \in UpTo(S, n), NEW x \in S, ~(Len(s) < n)
    PROVE  Append(Tail(s), x) \in UpTo(S, n)
<1>1. s \in Seq(S) /\ Len(s) = n /\ s # <<>>
  BY LenProperties, EmptySeq DEF UpTo
<1>2. Tail(s) \in Seq(S) /\ Len(Tail(s)) = n - 1
  BY <1>1, HeadTailProperties
<1> QED
  BY <1>2 DEF UpTo

-----------------------------------------------------------------------------
(* Answers. *)

LEMMA FromReasonIsStatus == \A prefix : FromReason(prefix) \in Status
<1> SUFFICES ASSUME NEW prefix PROVE FromReason(prefix) \in Status
  OBVIOUS
<1>1. CASE prefix \in {"pow", "unsupported"}
  BY <1>1 DEF FromReason, Status, KnownPrefix
<1>2. CASE prefix \notin {"pow", "unsupported"} /\ prefix \in KnownPrefix \cap Status
  BY <1>2 DEF FromReason
<1>3. CASE prefix \notin {"pow", "unsupported"} /\ prefix \notin KnownPrefix \cap Status
  BY <1>3 DEF FromReason, Status
<1> QED
  BY <1>1, <1>2, <1>3

LEMMA RefusalIsStatus ==
    \A e, k, now, filters : Refusal(e, k, now, filters) \in Status \cup {Unset}
BY FromReasonIsStatus DEF Refusal, ResolveErrorMessage

LEMMA NotRefused ==
    ASSUME NEW e, NEW k, NEW now, NEW filters, Refusal(e, k, now, filters) = Unset,
           e.kind \in DOMAIN filters.kinds
    PROVE  FailingChecks(e, k, now, filters.kinds[e.kind]) = {}
<1>1. \A check, own, global : ResolveErrorMessage(check, own, global) # Unset
  BY FromReasonIsStatus, PublishAssumption DEF ResolveErrorMessage
<1> QED
  BY <1>1 DEF Refusal

\* The first of a few numbers exists.
LEMMA MinExists ==
    ASSUME NEW S \in SUBSET (1..11), S # {}
    PROVE  Min(S) \in S
<1> DEFINE Least(x) == x \in S /\ \A y \in S : x <= y
           None(n) == \A i \in 1..n : i \notin S
<1>1. \A n \in 0..10 : None(n) => Least(n + 1) \/ None(n + 1)
  OBVIOUS
<1>2. \E x \in 1..11 : Least(x)
  <2>1. None(0) /\ ~None(11)
    <3>1. PICK x \in 1..11 : x \in S
      OBVIOUS
    <3> QED
      BY <3>1
  <2> HIDE DEF Least, None
  <2>2. \E n \in 0..10 : None(n) /\ ~None(n + 1)
    BY <2>1
  <2> QED
    BY <1>1, <2>2
<1> QED
  BY <1>2 DEF Min

LEMMA FirstStageDecides ==
    ASSUME NEW S, NEW a \in S, NEW b \in S, NEW c \in S, NEW d \in S, NEW f \in S, NEW l \in S
    PROVE  /\ Verdict(<<a, b, c, d, f, l>>) \in S \cup {"pass"}
           /\ Verdict(<<a, b, c, d, f, l>>) = "pass" => f = "pass"
<1> DEFINE answers == <<a, b, c, d, f, l>>
           stops == {i \in DOMAIN answers : answers[i] # "pass"}
<1>1. stops \in SUBSET (1..6) /\ \A i \in stops : answers[i] \in S /\ answers[i] # "pass"
  OBVIOUS
<1>2. CASE stops = {}
  <2>1. Verdict(answers) = "pass"
    BY <1>2 DEF Verdict
  <2>2. 5 \notin stops
    BY <1>2
  <2> QED
    BY <2>1, <2>2
<1>3. CASE stops # {}
  <2>1. Verdict(answers) = answers[Min(stops)]
    BY <1>3 DEF Verdict
  <2>2. Min(stops) \in stops
    <3>1. stops \in SUBSET (1..11)
      BY <1>1
    <3> QED
      BY <1>3, <3>1, MinExists
  <2> HIDE DEF stops
  <2> QED
    BY <1>1, <2>1, <2>2
<1> QED
  BY <1>2, <1>3

-----------------------------------------------------------------------------
(* Who is entitled. *)

Identity == Key \cup {NoKey}

\* An identity is that of somebody who proved the key over the connection.
Proved(c, k) == k # NoKey => k \in SignersFor(c)

LEMMA Signers == \A c : SignersFor(c) \in SUBSET Key
<1>1. \A a \in AuthEvent : AuthContent[a].author \in Key
  BY PublishAssumption DEF AuthFields
<1>2. \A S \in SUBSET AuthEvent : {AuthContent[a].author : a \in S} \in SUBSET Key
  BY <1>1
<1>3. ASSUME NEW c PROVE SignersFor(c) \in SUBSET Key
  <2> DEFINE S == {b \in AuthEvent : /\ [id |-> b, status |-> "saved"] \in told[c]
                                    /\ AuthContent[b].valid /\ AuthContent[b].kind = 22242
                                    /\ AuthContent[b].challenge = c
                                    /\ AuthContent[b].relay = "ours"}
  <2>1. SignersFor(c) = {AuthContent[a].author : a \in S}
    BY DEF SignersFor
  <2>2. S \in SUBSET AuthEvent
    OBVIOUS
  <2> HIDE DEF S
  <2> QED
    BY <1>2, <2>1, <2>2
<1> QED
  BY <1>3

LEMMA Authors == \A e \in Event : Content[e].author \in Key /\ Content[e].author \in Hex
BY PublishAssumption, KindFilterAssumption DEF EventFields

\* An access rule decides for the keys it names and for the author of the event.
LEMMA RuleNames ==
    ASSUME NEW rule, NEW e \in Event, NEW k \in Identity
    PROVE  CheckAccessRule(rule, Content[e], k) <=> Names(rule, k, e)
<1>1. /\ k # NoKey => k \in Hex
      /\ NoKey \notin Hex
  BY KindFilterAssumption DEF Identity
<1>2. ASSUME NEW ids
      PROVE  (\E id \in ids : EvaluateIdentifier(id, Content[e], k)) <=>
                 \/ k # NoKey /\ k \in ids
                 \/ k # NoKey /\ k = ServerKey /\ "private_server_hex" \in ids
                 \/ Content[e].author \in ids
  BY <1>1, Authors DEF EvaluateIdentifier
<1> QED
  BY <1>2 DEF CheckAccessRule, Names

LEMMA PassesBars ==
    ASSUME NEW rule, NEW e \in Event, NEW k \in Identity, NEW isRead,
           CheckWriteRead(rule, Content[e], k, isRead)
    PROVE  NotBarred(rule, k, e)
<1>1. ~Names(rule.deny, k, e)
  BY RuleNames DEF CheckWriteRead
<1>2. rule.script # Unset => <<Content[e].author, k>> \in rule.script
  BY DEF CheckWriteRead, ExecuteScript
<1> QED
  BY <1>1, <1>2 DEF NotBarred

LEMMA PublisherEntitled ==
    ASSUME NEW e \in Event, NEW k \in Identity,
           Refusal(Content[e], k, clock, settings.filters) = Unset
    PROVE  MayPublish(k, e)
<1> SUFFICES ASSUME Configured(e)
             PROVE  /\ KindConfig(e).require_auth => k # NoKey
                    /\ KindConfig(e).write # Unset =>
                           /\ NotBarred(KindConfig(e).write, k, e)
                           /\ Names(KindConfig(e).write.allow, k, e)
  BY DEF MayPublish
<1>1. FailingChecks(Content[e], k, clock, KindConfig(e)) = {}
  BY NotRefused DEF Configured, KindConfig
<1>2. 1 \in DOMAIN Checks /\ Checks[1].name = "write"
      /\ 2 \in DOMAIN Checks /\ Checks[2].name = "auth_required"
  BY DEF Checks, Check
<1>3. /\ ~AccessFails("write", Content[e], k, KindConfig(e))
      /\ ~AccessFails("auth_required", Content[e], k, KindConfig(e))
  BY <1>1, <1>2 DEF FailingChecks, Fails
<1>4. KindConfig(e).require_auth => k # NoKey
  BY <1>3 DEF AccessFails
<1>5. ASSUME KindConfig(e).write # Unset
      PROVE  /\ NotBarred(KindConfig(e).write, k, e)
             /\ Names(KindConfig(e).write.allow, k, e)
  <2>1. CheckWriteRead(KindConfig(e).write, Content[e], k, FALSE)
    BY <1>3, <1>5 DEF AccessFails
  <2>2. CheckAccessRule(KindConfig(e).write.allow, Content[e], k)
    BY <2>1 DEF CheckWriteRead
  <2> QED
    BY <2>1, <2>2, PassesBars, RuleNames
<1> QED
  BY <1>4, <1>5

LEMMA ReaderEntitled ==
    ASSUME NEW e \in Event, NEW k \in Identity,
           AllowedToSend(Content[e], k, clock, settings.filters, settings.nip42_dms)
    PROVE  MayReceive(k, e) /\ ~IsExpired(Content[e], clock)
<1>1. ASSUME Configured(e), KindConfig(e).require_auth PROVE k # NoKey
  BY <1>1 DEF AllowedToSend, Configured, KindConfig
<1>2. ASSUME Configured(e), KindConfig(e).read # Unset
      PROVE  MayRead(KindConfig(e).read, k, e)
  <2>1. PICK rule : rule = KindConfig(e).read
    OBVIOUS
  <2>2. CheckWriteRead(rule, Content[e], k, TRUE)
    BY <1>2, <2>1 DEF AllowedToSend, Configured, KindConfig
  <2>3. CASE rule.privileged
    <3>1. \/ rule.allow.type # "all" /\ CheckAccessRule(rule.allow, Content[e], k)
          \/ CheckPrivilegedRead(Content[e], k)
      BY <2>2, <2>3 DEF CheckWriteRead
    <3>2. CheckPrivilegedRead(Content[e], k) => Participates(k, e)
      BY DEF CheckPrivilegedRead, Participates
    <3> QED
      BY <2>1, <2>2, <2>3, <3>1, <3>2, PassesBars, RuleNames DEF MayRead
  <2>4. CASE ~rule.privileged
    <3>1. CheckAccessRule(rule.allow, Content[e], k)
      BY <2>2, <2>4 DEF CheckWriteRead
    <3> QED
      BY <2>1, <2>2, <2>4, <3>1, PassesBars, RuleNames DEF MayRead
  <2> QED
    BY <2>3, <2>4
<1>3. ASSUME settings.nip42_dms, Content[e].kind \in DirectMessage
      PROVE  Participates(k, e)
  <2>1. DirectMessageAllowed(Content[e], k)
    BY <1>3 DEF AllowedToSend
  <2>2. k = Content[e].author \/ k \in ValueSet(Content[e], "p")
    BY <2>1 DEF DirectMessageAllowed, ValueSet
  <2> QED
    BY <2>2 DEF Participates
<1>4. ~IsExpired(Content[e], clock)
  BY DEF AllowedToSend
<1> QED
  BY <1>1, <1>2, <1>3, <1>4 DEF MayReceive

\* The same as relations: keys proved over each connection, events that may be published
\* with given keys or sent over a connection, and events with the times at which they
\* have expired.
ProvedKeys == {p \in Conn \X Key : p[2] \in SignersFor(p[1])}
Publishable == {p \in (SUBSET Key) \X Event : \E k \in p[1] \cup {NoKey} : MayPublish(k, p[2])}
Sendable ==
    {p \in Conn \X Event : \E k \in SignersFor(p[1]) \cup {NoKey} : MayReceive(k, p[2])}
Dead == {p \in Event \X Nat : IsExpired(Content[p[1]], p[2])}

\* What a client was told is not taken back, and what it entitles to neither.
LEMMA Kept ==
    ASSUME settings' = settings, \A c \in Conn : told[c] \subseteq told'[c]
    PROVE  /\ ProvedKeys \subseteq ProvedKeys'
           /\ Publishable \subseteq Publishable'
           /\ Sendable \subseteq Sendable'
<1>1. \A c \in Conn : SignersFor(c) \subseteq SignersFor(c)'
  BY DEF SignersFor
<1>2. ProvedKeys \subseteq ProvedKeys'
  BY <1>1 DEF ProvedKeys
<1>3. \A k, e : (MayPublish(k, e) <=> MayPublish(k, e)') /\ (MayReceive(k, e) <=> MayReceive(k, e)')
  BY DEF MayPublish, MayReceive, Configured, KindConfig
<1>4. Publishable \subseteq Publishable'
  BY <1>3 DEF Publishable
<1>5. Sendable \subseteq Sendable'
  BY <1>1, <1>3 DEF Sendable
<1> QED
  BY <1>2, <1>4, <1>5

-----------------------------------------------------------------------------
(* The invariant: the variables are well typed; every identity, of a connection, of *)
(* a submission it waits with or of one in the channel, is proved; and what was     *)
(* sent and let through was so for somebody entitled.                               *)

Busy == [phase : {"outside", "write", "charge", "sleep"}, job : Submission, billed : BOOLEAN]

Control ==
    /\ settings \in Scenario
    /\ clock \in 0..MaxTime
    /\ shutdown \in BOOLEAN
    /\ sends \in 0..settings.sends /\ faults \in 0..settings.faults
    /\ writer \in {AtTop, Receiving, Ended} \cup Busy

Connections ==
    /\ conn \in [Conn -> {Idle, Gone, Stuck} \cup [phase : {"submitting"}, job : Submission]]
    /\ auth \in [Conn -> {"none", "challenge"} \cup Key]
    /\ told \in [Conn -> SUBSET Answer]
    /\ owed \subseteq Conn \X Event

Channels ==
    /\ notices \in [Conn -> UpTo(Answer, NoticeCap)]
    /\ inbox \in [Conn -> UpTo(Event, BroadcastCap)]
    /\ queue \in UpTo(Submission, QueueCap)

Records ==
    /\ stored \subseteq Event /\ aired \subseteq Event
    /\ sent \in {Unset} \cup [conn : Conn, event : Event, at : 0..MaxTime]
    /\ admitted \in Seq([conn : Conn, event : Event, proved : SUBSET Key, at : 0..MaxTime])

\* The identity a submission carries was proved before it was submitted.
Backed(job) == job.auth = NoKey \/ job.auth \in job.proved

Trust ==
    /\ \A c \in Conn : auth[c] \in Key => <<c, auth[c]>> \in ProvedKeys
    /\ \A c \in Conn : conn[c].phase = "submitting" => Backed(conn[c].job)
    /\ \A i \in DOMAIN queue : Backed(queue[i])

Safe ==
    /\ sent # Unset => /\ <<sent.conn, sent.event>> \in Sendable
                       /\ <<sent.event, sent.at>> \notin Dead
    /\ \A i \in DOMAIN admitted : <<admitted[i].proved, admitted[i].event>> \in Publishable

PubInv == Control /\ Connections /\ Channels /\ Records /\ Trust /\ Safe

LEMMA TrustStep ==
    ASSUME Trust, settings' = settings, \A c \in Conn : told[c] \subseteq told'[c],
           \A c \in Conn : auth'[c] = auth[c] \/ <<c, auth'[c]>> \in ProvedKeys',
           \A c \in Conn : \/ conn'[c] = conn[c]
                           \/ conn'[c].phase # "submitting"
                           \/ Backed(conn'[c].job),
           \A i \in DOMAIN queue' : \/ \E j \in DOMAIN queue : queue'[i] = queue[j]
                                    \/ Backed(queue'[i])
    PROVE  Trust'
<1>1. ProvedKeys \subseteq ProvedKeys'
  BY Kept
<1>2. \A c \in Conn : auth'[c] \in Key => <<c, auth'[c]>> \in ProvedKeys'
  BY <1>1 DEF Trust
<1>3. \A c \in Conn : conn'[c].phase = "submitting" => Backed(conn[c].job)'
  BY <1>1 DEF Trust, Backed
<1>4. \A i \in DOMAIN queue' : Backed(queue[i])'
  BY <1>1 DEF Trust, Backed
<1> QED
  BY <1>2, <1>3, <1>4 DEF Trust

LEMMA SafeStep ==
    ASSUME Safe, settings' = settings, \A c \in Conn : told[c] \subseteq told'[c],
           sent' = sent \/ (/\ <<sent'.conn, sent'.event>> \in Sendable
                            /\ <<sent'.event, sent'.at>> \notin Dead),
           \A i \in DOMAIN admitted' :
               \/ i \in DOMAIN admitted /\ admitted'[i] = admitted[i]
               \/ <<admitted'[i].proved, admitted'[i].event>> \in Publishable
    PROVE  Safe'
<1>1. Publishable \subseteq Publishable' /\ Sendable \subseteq Sendable'
  BY Kept
<1>2. Dead' = Dead
  BY DEF Dead
<1> QED
  BY <1>1, <1>2 DEF Safe

LEMMA SafeMeans == PubInv => SentOnlyToEntitled /\ PublishedByEntitled
<1> SUFFICES ASSUME PubInv PROVE SentOnlyToEntitled /\ PublishedByEntitled
  OBVIOUS
<1>1. SentOnlyToEntitled
  <2> SUFFICES ASSUME sent # Unset
               PROVE  /\ \E k \in SignersFor(sent.conn) \cup {NoKey} : MayReceive(k, sent.event)
                      /\ ~IsExpired(Content[sent.event], sent.at)
    BY DEF SentOnlyToEntitled
  <2>1. sent.event \in Event /\ sent.at \in Nat
    BY PublishAssumption DEF PubInv, Records
  <2> QED
    BY <2>1 DEF PubInv, Safe, Sendable, Dead
<1>2. PublishedByEntitled
  BY DEF PubInv, Safe, Publishable, PublishedByEntitled
<1> QED
  BY <1>1, <1>2

-----------------------------------------------------------------------------
(* Steps. *)

LEMMA Capacities ==
    /\ QueueCap \in Nat \ {0} /\ NoticeCap \in Nat \ {0} /\ BroadcastCap \in Nat \ {0}
    /\ MaxTime \in Nat
BY PublishAssumption

LEMMA InitLemma == Init => PubInv
<1> SUFFICES ASSUME Init PROVE PubInv
  OBVIOUS
<1> USE DEF Init
<1>1. Control
  <2>1. settings.sends \in Nat /\ settings.faults \in Nat
    BY PublishAssumption
  <2>2. 0 \in 0..settings.sends /\ 0 \in 0..settings.faults /\ 0 \in 0..MaxTime
    BY <2>1, Capacities
  <2> QED
    BY <2>2 DEF Control
<1>2. Connections
  BY DEF Connections
<1>3. Channels
  BY Emptied, Capacities DEF Channels
<1>4. Records
  BY DEF Records
<1>5. Trust
  <2>1. DOMAIN queue = {} /\ \A c \in Conn : conn[c].phase # "submitting" /\ auth[c] \notin Key
    BY PublishAssumption DEF Idle
  <2> QED
    BY <2>1 DEF Trust
<1>6. Safe
  BY DEF Safe
<1> QED
  BY <1>1, <1>2, <1>3, <1>4, <1>5, <1>6 DEF PubInv

\* What a connection, a submission and the channel hold.
LEMMA States ==
    ASSUME PubInv
    PROVE  /\ \A c \in Conn : /\ conn[c] \in {Idle, Gone, Stuck} \cup
                                              [phase : {"submitting"}, job : Submission]
                              /\ notices[c] \in UpTo(Answer, NoticeCap)
                              /\ inbox[c] \in UpTo(Event, BroadcastCap)
                              /\ conn[c].phase = "submitting" => conn[c].job \in Submission
           /\ writer.phase \in {"write", "charge", "sleep"} => writer \in Busy
BY DEF PubInv, Connections, Channels, Control, Idle, Gone, Stuck, AtTop, Receiving, Ended

LEMMA NotifyLemma ==
    ASSUME PubInv, NEW c \in Conn, NEW e \in Event, NEW status \in Status,
           Notify(c, e, status)
    PROVE  notices' \in [Conn -> UpTo(Answer, NoticeCap)] /\ owed' \subseteq owed
<1>1. CASE conn[c].phase # "closed" /\ Len(notices[c]) < NoticeCap
  <2>1. [id |-> e, status |-> status] \in Answer
    BY DEF Answer
  <2>2. Append(notices[c], [id |-> e, status |-> status]) \in UpTo(Answer, NoticeCap)
    BY <1>1, <2>1, Appended, States, Capacities
  <2> QED
    BY <1>1, <2>2 DEF Notify, PubInv, Channels
<1>2. CASE ~(conn[c].phase # "closed" /\ Len(notices[c]) < NoticeCap)
  BY <1>2 DEF Notify, PubInv, Channels
<1> QED
  BY <1>1, <1>2

LEMMA BroadcastLemma ==
    ASSUME PubInv, NEW e \in Event, Broadcast(e)
    PROVE  inbox' \in [Conn -> UpTo(Event, BroadcastCap)] /\ aired' = aired \cup {e}
<1>1. ASSUME NEW c \in Conn PROVE inbox'[c] \in UpTo(Event, BroadcastCap)
  <2>1. CASE conn[c].phase = "closed"
    BY <2>1, Emptied, Capacities DEF Broadcast
  <2>2. CASE conn[c].phase # "closed" /\ Len(inbox[c]) < BroadcastCap
    <3>1. inbox'[c] = Append(inbox[c], e)
      BY <2>2 DEF Broadcast
    <3> QED
      BY <2>2, <3>1, Appended, States, Capacities
  <2>3. CASE conn[c].phase # "closed" /\ ~(Len(inbox[c]) < BroadcastCap)
    <3>1. inbox'[c] = Append(Tail(inbox[c]), e)
      BY <2>3 DEF Broadcast
    <3> QED
      BY <2>3, <3>1, Shifted, States, Capacities
  <2> QED
    BY <2>1, <2>2, <2>3
<1>2. inbox' = [c \in Conn |-> inbox'[c]]
  BY DEF Broadcast
<1> QED
  BY <1>1, <1>2 DEF Broadcast

\* Steps that neither submit nor prove nor send nor admit anything.
LEMMA FrameStep ==
    ASSUME PubInv, UNCHANGED <<settings, auth, sent, admitted>>,
           \A c \in Conn : told[c] \subseteq told'[c],
           \A c \in Conn : conn'[c] = conn[c] \/ conn'[c].phase # "submitting",
           \A i \in DOMAIN queue' : \E j \in DOMAIN queue : queue'[i] = queue[j]
    PROVE  Trust' /\ Safe'
<1>1. Trust'
  BY TrustStep DEF PubInv
<1>2. Safe'
  BY SafeStep DEF PubInv
<1> QED
  BY <1>1, <1>2

LEMMA SendNoticeStep ==
    ASSUME PubInv, NEW c \in Conn, SendNotice(c)
    PROVE  PubInv'
<1> USE DEF SendNotice
<1>1. Head(notices[c]) \in Answer /\ Tail(notices[c]) \in UpTo(Answer, NoticeCap)
  BY HeadAndTail, States, Capacities
<1>2. Control' /\ Records'
  BY DEF PubInv, Control, Records
<1>3. Connections' /\ Channels'
  BY <1>1 DEF PubInv, Connections, Channels
<1>4. Trust' /\ Safe'
  BY FrameStep DEF PubInv, Connections
<1> QED
  BY <1>2, <1>3, <1>4 DEF PubInv

\* An identity a connection uses is proved.
LEMMA IdentityProved ==
    ASSUME PubInv, NEW c \in Conn
    PROVE  IdentityOf(c) \in Identity /\ Proved(c, IdentityOf(c))
<1>1. CASE auth[c] \in Key
  BY <1>1 DEF IdentityOf, PubInv, Trust, ProvedKeys, Proved, Identity
<1>2. CASE auth[c] \notin Key
  BY <1>2 DEF IdentityOf, Proved, Identity
<1> QED
  BY <1>1, <1>2

LEMMA SendLemma ==
    ASSUME PubInv, NEW c \in Conn, NEW e \in Event, Send(c, e)
    PROVE  /\ sent' = sent \/ (/\ <<sent'.conn, sent'.event>> \in Sendable
                               /\ <<sent'.event, sent'.at>> \notin Dead)
           /\ sent' \in {Unset} \cup [conn : Conn, event : Event, at : 0..MaxTime]
<1>1. CASE AllowedToSend(Content[e], IdentityOf(c), clock, settings.filters,
                         settings.nip42_dms)
  <2>1. sent' = [conn |-> c, event |-> e, at |-> clock]
    BY <1>1 DEF Send
  <2>2. MayReceive(IdentityOf(c), e) /\ ~IsExpired(Content[e], clock)
    BY <1>1, ReaderEntitled, IdentityProved
  <2>3. IdentityOf(c) \in SignersFor(c) \cup {NoKey}
    BY IdentityProved DEF Proved
  <2>4. <<c, e>> \in Sendable
    BY <2>2, <2>3 DEF Sendable
  <2> QED
    BY <2>1, <2>2, <2>4 DEF PubInv, Control, Dead
<1>2. CASE ~AllowedToSend(Content[e], IdentityOf(c), clock, settings.filters,
                          settings.nip42_dms)
  BY <1>2 DEF Send, PubInv, Records
<1> QED
  BY <1>1, <1>2

LEMMA SendBroadcastStep ==
    ASSUME PubInv, NEW c \in Conn, SendBroadcast(c)
    PROVE  PubInv'
<1> USE DEF SendBroadcast
<1>1. Head(inbox[c]) \in Event /\ Tail(inbox[c]) \in UpTo(Event, BroadcastCap)
  BY HeadAndTail, States, Capacities
<1>2. Control' /\ Connections'
  BY DEF PubInv, Control, Connections
<1>3. Channels'
  BY <1>1 DEF PubInv, Channels
<1>4. Records'
  BY <1>1, SendLemma DEF PubInv, Records
<1>5. Trust'
  BY TrustStep DEF PubInv
<1>6. Safe'
  BY <1>1, SendLemma, SafeStep DEF PubInv
<1> QED
  BY <1>2, <1>3, <1>4, <1>5, <1>6 DEF PubInv

LEMMA SendResultStep ==
    ASSUME PubInv, NEW c \in Conn, NEW e \in Event, SendResult(c, e)
    PROVE  PubInv'
<1> USE DEF SendResult, channels
<1>1. Control' /\ Connections' /\ Channels'
  BY DEF PubInv, Control, Connections, Channels
<1>2. Records'
  BY SendLemma DEF PubInv, Records
<1>3. Trust'
  BY TrustStep DEF PubInv
<1>4. Safe'
  BY SendLemma, SafeStep DEF PubInv
<1> QED
  BY <1>1, <1>2, <1>3, <1>4 DEF PubInv

LEMMA EventMsgStep ==
    ASSUME PubInv, NEW c \in Conn, NEW e \in Event, EventMsg(c, e)
    PROVE  PubInv'
<1> USE DEF EventMsg, channels
<1>1. Control'
  <2>1. settings.sends \in Nat
    BY PublishAssumption DEF PubInv, Control
  <2> QED
    BY <2>1 DEF PubInv, Control
<1>2. Channels' /\ Records'
  BY DEF PubInv, Channels, Records
<1>3. CASE EventRefused(c, e)
  <2>1. [id |-> e, status |-> "invalid"] \in Answer
    BY DEF Answer, Status
  <2>2. Connections' /\ \A d \in Conn : told[d] \subseteq told'[d]
    BY <1>3, <2>1 DEF EventRefused, Reply, PubInv, Connections
  <2>3. Trust' /\ Safe'
    BY <1>3, <2>2, FrameStep DEF EventRefused
  <2> QED
    BY <1>1, <1>2, <2>2, <2>3 DEF PubInv
<1>4. CASE EventAccepted(c, e)
  <2> DEFINE job == [conn |-> c, event |-> e, auth |-> IdentityOf(c), proved |-> SignersFor(c)]
  <2>1. job \in Submission /\ Backed(job)
    BY IdentityProved, Signers DEF Submission, Identity, Proved, Backed
  <2>2. conn' = [conn EXCEPT ![c] = [phase |-> "submitting", job |-> job]]
        /\ owed' = owed \cup {<<c, e>>} /\ told' = told
    BY <1>4 DEF EventAccepted
  <2>3. Connections'
    BY <2>1, <2>2 DEF PubInv, Connections
  <2>4. \A d \in Conn : conn'[d] = conn[d] \/ Backed(conn'[d].job)
    BY <2>1, <2>2 DEF PubInv, Connections
  <2>5. Trust'
    BY <2>2, <2>4, TrustStep DEF PubInv
  <2>6. Safe'
    BY <2>2, SafeStep DEF PubInv
  <2> QED
    BY <1>1, <1>2, <2>3, <2>5, <2>6 DEF PubInv
<1> QED
  BY <1>3, <1>4

LEMMA SubmitStep ==
    ASSUME PubInv, NEW c \in Conn, Submit(c)
    PROVE  PubInv'
<1> USE DEF Submit
<1>1. conn[c].job \in Submission /\ Backed(conn[c].job)
  BY States DEF PubInv, Trust
<1>2. Control' /\ Records'
  BY DEF PubInv, Control, Records
<1>3. Connections'
  BY DEF PubInv, Connections
<1>4. queue' = queue \/ (Len(queue) < QueueCap /\ queue' = Append(queue, conn[c].job))
  OBVIOUS
<1>5. Channels'
  <2>1. CASE queue' = queue
    BY <2>1 DEF PubInv, Channels
  <2>2. CASE Len(queue) < QueueCap /\ queue' = Append(queue, conn[c].job)
    <3>1. Append(queue, conn[c].job) \in UpTo(Submission, QueueCap)
      BY <1>1, <2>2, Appended, Capacities DEF PubInv, Channels
    <3> QED
      BY <2>2, <3>1 DEF PubInv, Channels
  <2> QED
    BY <1>4, <2>1, <2>2
<1>6. \A i \in DOMAIN queue' : \/ \E j \in DOMAIN queue : queue'[i] = queue[j]
                               \/ Backed(queue'[i])
  <2>1. CASE queue' = queue
    BY <2>1
  <2>2. CASE queue' = Append(queue, conn[c].job)
    <3>1. queue \in Seq(Submission)
      BY DEF PubInv, Channels, UpTo
    <3> QED
      BY <1>1, <2>2, <3>1, AppendProperties, LenProperties
  <2> QED
    BY <1>4, <2>1, <2>2
<1>7. Trust'
  <2>1. \A d \in Conn : conn'[d] = conn[d] \/ conn'[d].phase # "submitting"
    BY DEF PubInv, Connections, Idle
  <2> QED
    BY <1>6, <2>1, TrustStep DEF PubInv
<1>8. Safe'
  BY SafeStep DEF PubInv
<1> QED
  BY <1>2, <1>3, <1>5, <1>7, <1>8 DEF PubInv

\* A client proves a key, is refused, or repeats itself.
LEMMA AuthMsgStep ==
    ASSUME PubInv, NEW c \in Conn, NEW a \in AuthEvent, AuthMsg(c, a)
    PROVE  PubInv'
<1> USE DEF AuthMsg, channels
<1>1. Control'
  <2>1. settings.sends \in Nat
    BY PublishAssumption DEF PubInv, Control
  <2> QED
    BY <2>1 DEF PubInv, Control
<1>2. Channels' /\ Records'
  BY DEF PubInv, Channels, Records
<1>3. \A status \in Status : Reply(c, a, status) =>
          told' \in [Conn -> SUBSET Answer] /\ \A d \in Conn : told[d] \subseteq told'[d]
  BY DEF Reply, PubInv, Connections, Answer
<1>4. {"saved", "invalid", "restricted"} \subseteq Status
  BY DEF Status
<1>5. told' \in [Conn -> SUBSET Answer] /\ \A d \in Conn : told[d] \subseteq told'[d]
  BY <1>3, <1>4 DEF Authenticate, PubInv, Connections
<1>6. \/ UNCHANGED auth
      \/ /\ Authenticates(c, a) /\ Reply(c, a, "saved")
         /\ auth' = [auth EXCEPT ![c] = AuthContent[a].author]
  BY DEF Authenticate
<1>7. AuthContent[a].author \in Key
  BY PublishAssumption DEF AuthFields
<1>8. Connections'
  BY <1>5, <1>6, <1>7 DEF PubInv, Connections
<1>9. \A d \in Conn : auth'[d] = auth[d] \/ <<d, auth'[d]>> \in ProvedKeys'
  <2>1. CASE UNCHANGED auth
    BY <2>1
  <2>2. CASE /\ Authenticates(c, a) /\ Reply(c, a, "saved")
             /\ auth' = [auth EXCEPT ![c] = AuthContent[a].author]
    <3>1. [id |-> a, status |-> "saved"] \in told'[c]
      BY <2>2 DEF Reply, PubInv, Connections
    <3>2. AuthContent[a].author \in SignersFor(c)'
      BY <2>2, <3>1 DEF SignersFor, Authenticates
    <3>3. <<c, AuthContent[a].author>> \in ProvedKeys'
      BY <1>7, <3>2 DEF ProvedKeys
    <3> QED
      BY <2>2, <3>3 DEF PubInv, Connections
  <2> QED
    BY <1>6, <2>1, <2>2
<1>10. Trust'
  BY <1>5, <1>9, TrustStep DEF PubInv
<1>11. Safe'
  BY <1>5, SafeStep DEF PubInv
<1> QED
  BY <1>1, <1>2, <1>8, <1>10, <1>11 DEF PubInv

LEMMA StickStep ==
    ASSUME PubInv, NEW c \in Conn, Stick(c)
    PROVE  PubInv'
<1> USE DEF Stick
<1>1. Control'
  <2>1. settings.faults \in Nat
    BY PublishAssumption DEF PubInv, Control
  <2> QED
    BY <2>1 DEF PubInv, Control
<1>2. Connections' /\ Records'
  BY DEF PubInv, Connections, Records
<1>3. /\ notices[c] # <<>> => Tail(notices[c]) \in UpTo(Answer, NoticeCap)
      /\ inbox[c] # <<>> => Tail(inbox[c]) \in UpTo(Event, BroadcastCap)
  BY HeadAndTail, States, Capacities
<1>4. Channels'
  BY <1>3 DEF PubInv, Channels
<1>5. \A d \in Conn : conn'[d] = conn[d] \/ conn'[d].phase # "submitting"
  BY DEF PubInv, Connections, Stuck
<1>6. Trust' /\ Safe'
  BY <1>5, FrameStep
<1> QED
  BY <1>1, <1>2, <1>4, <1>6 DEF PubInv

LEMMA DisconnectStep ==
    ASSUME PubInv, NEW c \in Conn, Disconnect(c)
    PROVE  PubInv'
<1> USE DEF Disconnect
<1>1. Control'
  <2>1. settings.faults \in Nat
    BY PublishAssumption DEF PubInv, Control
  <2> QED
    BY <2>1 DEF PubInv, Control
<1>2. Connections' /\ Records'
  BY DEF PubInv, Connections, Records
<1>3. Channels'
  BY Emptied, Capacities DEF PubInv, Channels
<1>4. \A d \in Conn : conn'[d] = conn[d] \/ conn'[d].phase # "submitting"
  BY DEF PubInv, Connections, Gone
<1>5. Trust' /\ Safe'
  BY <1>4, FrameStep
<1> QED
  BY <1>1, <1>2, <1>3, <1>5 DEF PubInv

-----------------------------------------------------------------------------
(* The writer. *)

Outcome == Status \cup {"pass", "no_answer"}

\* The writer lets pass what the filters do not refuse, and answers every refusal but one
\* with a status.
LEMMA VerdictLemma ==
    ASSUME NEW job, NEW verdict \in Verdicts(job)
    PROVE  /\ verdict \in Outcome
           /\ verdict = "pass" =>
                 Refusal(Content[job.event], job.auth, clock, settings.filters) = Unset
<1>1. PICK lists \in ListAnswers(job.event), account \in AccountAnswers(job.event),
           nip05 \in Nip05Answers, service \in ServiceAnswers,
           filters \in FilterAnswers(job), limiter \in LimiterAnswers(job.event) :
               verdict = Verdict(<<lists, account, nip05, service, filters, limiter>>)
  BY DEF Verdicts
<1>2. lists \in Outcome /\ account \in Outcome /\ nip05 \in Outcome
  BY DEF ListAnswers, AccountAnswers, Nip05Answers, Outcome, Status
<1>3. service \in Outcome /\ limiter \in Outcome
  BY FromReasonIsStatus
  DEF ServiceAnswers, LimiterAnswers, RateLimited, ResolveErrorMessage, Outcome
<1>4. /\ filters \in Outcome
      /\ filters = "pass" =>
            Refusal(Content[job.event], job.auth, clock, settings.filters) = Unset
  BY RefusalIsStatus DEF FilterAnswers, Outcome, Status
<1>5. verdict \in Outcome \cup {"pass"} /\ (verdict = "pass" => filters = "pass")
  BY <1>1, <1>2, <1>3, <1>4, FirstStageDecides
<1> QED
  BY <1>4, <1>5 DEF Outcome

LEMMA WriterIdles ==
    ASSUME PubInv, UNCHANGED <<settings, clock, conn, auth, channels, stored, told, sent,
                               aired, owed, admitted, sends>>,
           writer' \in {AtTop, Receiving, Ended} \cup Busy, shutdown' \in BOOLEAN,
           faults' \in 0..settings.faults
    PROVE  PubInv'
<1> USE DEF channels
<1>1. Control' /\ Connections' /\ Channels' /\ Records'
  BY DEF PubInv, Control, Connections, Channels, Records
<1>2. Trust' /\ Safe'
  BY FrameStep
<1> QED
  BY <1>1, <1>2 DEF PubInv

LEMMA Faults ==
    ASSUME PubInv
    PROVE  /\ settings.faults \in Nat /\ faults \in 0..settings.faults
           /\ faults < settings.faults => faults + 1 \in 0..settings.faults
BY PublishAssumption DEF PubInv, Control

LEMMA JudgeStep ==
    ASSUME PubInv, Judge
    PROVE  PubInv'
<1> DEFINE job == Head(queue)
<1>1. /\ job \in Submission /\ Tail(queue) \in UpTo(Submission, QueueCap)
      /\ 1 \in DOMAIN queue /\ job = queue[1]
      /\ \A i \in DOMAIN Tail(queue) : i + 1 \in DOMAIN queue /\ Tail(queue)[i] = queue[i + 1]
  BY HeadAndTail, Capacities DEF Judge, PubInv, Channels
<1>2. /\ queue' = Tail(queue)
      /\ UNCHANGED <<settings, clock, conn, auth, inbox, stored, shutdown, told, sent, aired,
                     sends, faults>>
  BY DEF Judge
<1>3. PICK verdict \in Verdicts(job) :
          \/ verdict # "pass" /\ Refuse(job, verdict)
          \/ verdict = "pass" /\ RefuseByRate(job)
          \/ verdict = "pass" /\ Admit(job)
  BY DEF Judge
<1>4. job.conn \in Conn /\ job.event \in Event
  BY <1>1 DEF Submission
<1> HIDE DEF job
<1>5. Trust'
  <2>1. \A i \in DOMAIN queue' : \E j \in DOMAIN queue : queue'[i] = queue[j]
    BY <1>1, <1>2
  <2> QED
    BY <1>2, <2>1, TrustStep DEF PubInv
<1>6. CASE \/ verdict # "pass" /\ Refuse(job, verdict)
           \/ verdict = "pass" /\ RefuseByRate(job)
  <2>1. notices' \in [Conn -> UpTo(Answer, NoticeCap)] /\ owed' \subseteq owed
    <3>1. CASE verdict # "pass" /\ Refuse(job, verdict) /\ verdict = "no_answer"
      BY <3>1 DEF Refuse, PubInv, Channels
    <3>2. CASE verdict # "pass" /\ Refuse(job, verdict) /\ verdict # "no_answer"
      <4>1. verdict \in Status
        BY <3>2, VerdictLemma DEF Outcome
      <4> QED
        BY <1>4, <3>2, <4>1, NotifyLemma DEF Refuse
    <3>3. CASE RefuseByRate(job)
      <4>1. RateLimited(job.event) \in Status
        BY FromReasonIsStatus DEF RateLimited, ResolveErrorMessage
      <4> QED
        BY <1>4, <3>3, <4>1, NotifyLemma DEF RefuseByRate
    <3> QED
      BY <1>6, <3>1, <3>2, <3>3
  <2>2. writer' = AtTop /\ UNCHANGED admitted
    BY <1>6 DEF Refuse, RefuseByRate
  <2>3. Control' /\ Connections' /\ Channels' /\ Records'
    BY <1>1, <1>2, <2>1, <2>2 DEF PubInv, Control, Connections, Channels, Records
  <2>4. Safe'
    BY <1>2, <2>2, SafeStep DEF PubInv
  <2> QED
    BY <1>5, <2>3, <2>4 DEF PubInv
<1>7. CASE verdict = "pass" /\ Admit(job)
  <2> DEFINE admission == [conn |-> job.conn, event |-> job.event, proved |-> job.proved,
                           at |-> clock]
             billed == settings.cost /\ OnAccount(job.event)
  <2>1. /\ admitted' = Append(admitted, admission)
        /\ writer' = [phase |-> "write", job |-> job, billed |-> billed]
        /\ UNCHANGED <<notices, owed>>
    BY <1>7 DEF Admit
  <2>2. Connections' /\ Channels'
    BY <1>1, <1>2, <2>1 DEF PubInv, Connections, Channels
  <2>3. writer' \in Busy
    <3>1. billed \in BOOLEAN
      OBVIOUS
    <3> HIDE DEF billed
    <3> QED
      BY <1>1, <2>1, <3>1 DEF Busy
  <2>4. Control'
    BY <1>2, <2>3 DEF PubInv, Control
  <2>5. admission \in [conn : Conn, event : Event, proved : SUBSET Key, at : 0..MaxTime]
    BY <1>1, <1>4 DEF PubInv, Control, Submission
  <2>6. Records'
    BY <1>2, <2>1, <2>5 DEF PubInv, Records
  <2>7. MayPublish(job.auth, job.event)
    <3>1. Refusal(Content[job.event], job.auth, clock, settings.filters) = Unset
      BY <1>7, VerdictLemma
    <3>2. job.auth \in Identity
      BY <1>1 DEF Submission, Identity
    <3> QED
      BY <1>4, <3>1, <3>2, PublisherEntitled
  <2>8. <<job.proved, job.event>> \in Publishable
    <3>1. job.auth \in job.proved \cup {NoKey} /\ job.proved \in SUBSET Key
      BY <1>1 DEF PubInv, Trust, Backed, Submission
    <3> QED
      BY <1>4, <2>7, <3>1 DEF Publishable
  <2>9. \A i \in DOMAIN admitted' :
            \/ i \in DOMAIN admitted /\ admitted'[i] = admitted[i]
            \/ <<admitted'[i].proved, admitted'[i].event>> \in Publishable
    <3>1. admitted \in Seq([conn : Conn, event : Event, proved : SUBSET Key, at : 0..MaxTime])
      BY DEF PubInv, Records
    <3>2. \A i \in DOMAIN admitted' : \/ i \in DOMAIN admitted /\ admitted'[i] = admitted[i]
                                      \/ admitted'[i] = admission
      BY <2>1, <3>1, AppendProperties, LenProperties
    <3> QED
      BY <2>8, <3>2
  <2>10. Safe'
    BY <1>2, <2>9, SafeStep DEF PubInv
  <2> QED
    BY <1>5, <2>2, <2>4, <2>6, <2>10 DEF PubInv
<1> QED
  BY <1>3, <1>6, <1>7

LEMMA WriteStep ==
    ASSUME PubInv, Write
    PROVE  PubInv'
<1> DEFINE c == writer.job.conn
           e == writer.job.event
<1>1. writer \in Busy
  BY States DEF Write
<1>2. c \in Conn /\ e \in Event
  BY <1>1 DEF Busy, Submission
<1>3. \/ WriteEphemeral(c, e) \/ WriteKnown(c, e) \/ WriteDeleted(c, e)
      \/ WriteNew(c, e) \/ WriteFails(c, e)
  BY DEF Write
<1>4. UNCHANGED <<settings, clock, conn, auth, queue, buckets, shutdown, told, sent, admitted,
                  sends>>
  BY DEF Write
<1>5. writer' = AtTop \/ writer' = [writer EXCEPT !.phase = "charge"]
  BY <1>3 DEF WriteEphemeral, WriteKnown, WriteDeleted, WriteNew, WriteFails
<1> HIDE DEF c, e
<1>6. \E status \in Status : Notify(c, e, status)
  BY <1>3 DEF WriteEphemeral, WriteKnown, WriteDeleted, WriteNew, WriteFails, Status
<1>7. notices' \in [Conn -> UpTo(Answer, NoticeCap)] /\ owed' \subseteq owed
  BY <1>2, <1>6, NotifyLemma
<1>8. /\ UNCHANGED <<inbox, aired>> \/ Broadcast(e)
      /\ stored' = stored \/ stored' = stored \cup {e}
  BY <1>3 DEF WriteEphemeral, WriteKnown, WriteDeleted, WriteNew, WriteFails
<1>9. /\ inbox' \in [Conn -> UpTo(Event, BroadcastCap)]
      /\ stored' \subseteq Event /\ aired' \subseteq Event
  <2>1. stored' \subseteq Event
    BY <1>2, <1>8 DEF PubInv, Records
  <2>2. CASE UNCHANGED <<inbox, aired>>
    BY <2>1, <2>2 DEF PubInv, Channels, Records
  <2>3. CASE Broadcast(e)
    BY <1>2, <2>1, <2>3, BroadcastLemma DEF PubInv, Records
  <2> QED
    BY <1>8, <2>2, <2>3
<1>10. Control'
  <2>1. faults' \in 0..settings.faults
    BY <1>3, Faults DEF WriteEphemeral, WriteKnown, WriteDeleted, WriteNew, WriteFails
  <2>2. writer' \in {AtTop, Receiving, Ended} \cup Busy
    BY <1>1, <1>5 DEF Busy
  <2> QED
    BY <1>4, <2>1, <2>2 DEF PubInv, Control
<1>11. Connections' /\ Channels' /\ Records'
  BY <1>4, <1>7, <1>9 DEF PubInv, Connections, Channels, Records
<1>12. Trust' /\ Safe'
  BY <1>4, FrameStep
<1> QED
  BY <1>10, <1>11, <1>12 DEF PubInv

LEMMA WriterStep ==
    ASSUME PubInv, LoopTop \/ Charge \/ Wake \/ ChannelCloses
    PROVE  PubInv'
<1> USE DEF channels, history
<1>1. CASE LoopTop
  BY <1>1, WriterIdles, Faults DEF LoopTop, PubInv, Control
<1>2. CASE Wake
  BY <1>2, WriterIdles, Faults DEF Wake, PubInv, Control
<1>3. CASE ChannelCloses
  BY <1>3, WriterIdles, Faults DEF ChannelCloses, PubInv, Control
<1>4. CASE Charge
  <2>1. writer \in Busy
    BY <1>4, States DEF Charge
  <2>2. writer' \in {AtTop, Receiving, Ended} \cup Busy
    BY <1>4, <2>1 DEF Charge, Busy
  <2>3. faults' \in 0..settings.faults
    BY <1>4, Faults DEF Charge
  <2> QED
    BY <1>4, <2>2, <2>3, WriterIdles DEF Charge, PubInv, Control
<1> QED
  BY <1>1, <1>2, <1>3, <1>4

LEMMA StallStep ==
    ASSUME PubInv, Stall
    PROVE  PubInv'
<1> USE DEF Stall
<1>1. /\ Head(queue) \in Submission /\ Tail(queue) \in UpTo(Submission, QueueCap)
      /\ \A i \in DOMAIN Tail(queue) : i + 1 \in DOMAIN queue /\ Tail(queue)[i] = queue[i + 1]
  BY HeadAndTail, Capacities DEF PubInv, Channels
<1>2. writer' \in Busy
  BY <1>1 DEF Busy
<1>3. Control'
  BY <1>2, Faults DEF PubInv, Control
<1>4. Connections' /\ Channels' /\ Records'
  BY <1>1 DEF PubInv, Connections, Channels, Records
<1>5. \A i \in DOMAIN queue' : \E j \in DOMAIN queue : queue'[i] = queue[j]
  BY <1>1
<1>6. Trust' /\ Safe'
  BY <1>5, FrameStep
<1> QED
  BY <1>3, <1>4, <1>6 DEF PubInv

LEMMA TickStep ==
    ASSUME PubInv, Tick
    PROVE  PubInv'
<1> USE DEF Tick, channels, history
<1>1. Control'
  BY Capacities DEF PubInv, Control
<1>2. Connections' /\ Channels' /\ Records'
  BY DEF PubInv, Connections, Channels, Records
<1>3. Trust' /\ Safe'
  BY FrameStep
<1> QED
  BY <1>1, <1>2, <1>3 DEF PubInv

LEMMA StutterStep ==
    ASSUME PubInv, UNCHANGED vars
    PROVE  PubInv'
<1> USE DEF vars, channels, history
<1>1. Control' /\ Connections' /\ Channels' /\ Records'
  BY DEF PubInv, Control, Connections, Channels, Records
<1>2. Trust' /\ Safe'
  BY FrameStep
<1> QED
  BY <1>1, <1>2 DEF PubInv

LEMMA StepLemma ==
    ASSUME PubInv, [Next]_vars
    PROVE  PubInv'
<1>1. ASSUME NEW c \in Conn, Client(c) PROVE PubInv'
  BY <1>1, EventMsgStep, AuthMsgStep, DisconnectStep DEF Client
<1>2. ASSUME NEW c \in Conn, Server(c) PROVE PubInv'
  BY <1>2, SubmitStep, SendNoticeStep, SendBroadcastStep, SendResultStep, StickStep
  DEF Server
<1>3. CASE Writer
  BY <1>3, JudgeStep, StallStep, WriteStep, WriterStep DEF Writer
<1>4. CASE Tick
  BY <1>4, TickStep
<1>5. CASE Shutdown
  BY <1>5, WriterIdles, Faults DEF Shutdown, channels, PubInv, Control
<1>6. CASE UNCHANGED vars
  BY <1>6, StutterStep
<1> QED
  BY <1>1, <1>2, <1>3, <1>4, <1>5, <1>6 DEF Next

-----------------------------------------------------------------------------
(* Answers that say true. *)

\* No text the operator configured, or the admission service sends, begins with
\* "duplicate: ".
Truthful ==
    /\ settings.service # Unset => "duplicate" \notin settings.service
    /\ \A n \in DOMAIN settings.filters.errors : settings.filters.errors[n] # "duplicate"
    /\ \A k \in DOMAIN settings.filters.kinds :
           LET kf == settings.filters.kinds[k] IN
           /\ \A n \in DOMAIN kf.errors : kf.errors[n] # "duplicate"
           /\ kf.write # Unset => kf.write.error # "duplicate"

LEMMA DuplicateSaysSo == \A prefix : FromReason(prefix) \in Accepting => prefix = "duplicate"
<1> SUFFICES ASSUME NEW prefix, prefix # "duplicate" PROVE FromReason(prefix) \notin Accepting
  OBVIOUS
<1>1. CASE prefix \in {"pow", "unsupported"}
  BY <1>1 DEF FromReason, Accepting
<1>2. CASE prefix \notin {"pow", "unsupported"} /\ prefix \in KnownPrefix \cap Status
  BY <1>2 DEF FromReason, KnownPrefix, Accepting, Status
<1>3. CASE prefix \notin {"pow", "unsupported"} /\ prefix \notin KnownPrefix \cap Status
  BY <1>3 DEF FromReason, Accepting
<1> QED
  BY <1>1, <1>2, <1>3

LEMMA MessageRefuses ==
    ASSUME NEW check, check.default # "duplicate", NEW own, NEW global,
           \A n \in DOMAIN own : own[n] # "duplicate",
           \A n \in DOMAIN global : global[n] # "duplicate"
    PROVE  ResolveErrorMessage(check, own, global) \notin Accepting
<1>1. CASE check.name \in DOMAIN own
  BY <1>1, DuplicateSaysSo DEF ResolveErrorMessage
<1>2. CASE check.name \notin DOMAIN own /\ check.name \in DOMAIN global
  BY <1>2, DuplicateSaysSo DEF ResolveErrorMessage
<1>3. CASE check.name \notin DOMAIN own /\ check.name \notin DOMAIN global
  BY <1>3, DuplicateSaysSo DEF ResolveErrorMessage
<1> QED
  BY <1>1, <1>2, <1>3

LEMMA DefaultsRefuse ==
    /\ DOMAIN Checks = 1..11
    /\ \A i \in 1..11 : Checks[i].default # "duplicate"
BY DEF Checks, Check

LEMMA FiltersRefuse ==
    ASSUME Truthful, NEW e, NEW k, NEW now
    PROVE  Refusal(e, k, now, settings.filters) \notin Accepting
<1> DEFINE filters == settings.filters
           kf == filters.kinds[e.kind]
           failing == FailingChecks(e, k, now, kf)
<1>1. \A n \in DOMAIN filters.errors : filters.errors[n] # "duplicate"
  BY DEF Truthful
<1>2. ASSUME NEW name PROVE ResolveErrorMessage(Check(name, "blocked"), <<>>, filters.errors)
                                \notin Accepting
  <2>1. Check(name, "blocked").default # "duplicate" /\ DOMAIN <<>> = {}
    BY DEF Check
  <2> QED
    BY <1>1, <2>1, MessageRefuses
<1>3. ASSUME e.kind \in DOMAIN filters.kinds, failing # {}
      PROVE  ResolveErrorMessage(Checks[Min(failing)], OwnErrors(kf), filters.errors)
                 \notin Accepting
  <2>1. failing \in SUBSET (1..11)
    BY DefaultsRefuse DEF FailingChecks
  <2>2. Checks[Min(failing)].default # "duplicate"
    BY <1>3, <2>1, MinExists, DefaultsRefuse
  <2>3. \A n \in DOMAIN OwnErrors(kf) : OwnErrors(kf)[n] # "duplicate"
    BY <1>3 DEF Truthful, OwnErrors
  <2> QED
    BY <1>1, <2>2, <2>3, MessageRefuses
<1>4. Unset \notin Accepting
  BY PublishAssumption DEF Accepting, Status
<1> QED
  BY <1>2, <1>3, <1>4 DEF Refusal

LEMMA LimiterRefuses ==
    ASSUME Truthful, NEW e, Configured(e)
    PROVE  RateLimited(e) \notin Accepting
<1> DEFINE check == Check("rate_limited", "rate-limited")
<1>1. check.default # "duplicate"
  BY DEF Check
<1>2. /\ \A n \in DOMAIN KindConfig(e).errors : KindConfig(e).errors[n] # "duplicate"
      /\ \A n \in DOMAIN settings.filters.errors : settings.filters.errors[n] # "duplicate"
  BY DEF Truthful, Configured, KindConfig
<1> QED
  BY <1>1, <1>2, MessageRefuses DEF RateLimited, KindConfig

LEMMA VerdictRefuses ==
    ASSUME Truthful, NEW job, NEW verdict \in Verdicts(job)
    PROVE  verdict \notin Accepting
<1> DEFINE Refusing == Outcome \ Accepting
<1>1. PICK lists \in ListAnswers(job.event), account \in AccountAnswers(job.event),
           nip05 \in Nip05Answers, service \in ServiceAnswers,
           filters \in FilterAnswers(job), limiter \in LimiterAnswers(job.event) :
               verdict = Verdict(<<lists, account, nip05, service, filters, limiter>>)
  BY DEF Verdicts
<1>2. lists \in Refusing /\ account \in Refusing /\ nip05 \in Refusing
  BY DEF ListAnswers, AccountAnswers, Nip05Answers, Outcome, Status, Accepting
<1>3. "pass" \in Refusing
  BY DEF Outcome, Accepting
<1>4. service \in Refusing
  BY <1>3, FromReasonIsStatus, DuplicateSaysSo DEF ServiceAnswers, Truthful, Outcome
<1>5. limiter \in Refusing
  <2>1. RateLimited(job.event) \in Status
    BY FromReasonIsStatus DEF RateLimited, ResolveErrorMessage
  <2> QED
    BY <1>3, <2>1, LimiterRefuses DEF LimiterAnswers, Configured, Outcome
<1>6. filters \in Refusing
  BY <1>3, RefusalIsStatus, FiltersRefuse DEF FilterAnswers, Outcome
<1> HIDE DEF Refusing
<1>7. verdict \in Refusing \cup {"pass"}
  BY <1>1, <1>2, <1>4, <1>5, <1>6, FirstStageDecides
<1> USE DEF Refusing
<1> QED
  BY <1>3, <1>7

\* Events an OK that says true may be about, and the answers that are right.
Settled == {e \in Event : e \in aired \/ Superseded(e) \/ DeletionStored(e)}
Right == {a \in Answer : a.id \in Event /\ a.status \in Accepting => a.id \in Settled}

\* An event that is stored was broadcast, unless its author had deleted it.
Truth ==
    /\ stored \subseteq Settled
    /\ Truthful => \A c \in Conn : told[c] \subseteq Right /\ notices[c] \in UpTo(Right, NoticeCap)

LEMMA RightStays ==
    ASSUME aired \subseteq aired', stored \subseteq stored'
    PROVE  /\ Settled \subseteq Settled'
           /\ Right \subseteq Right'
           /\ UpTo(Right, NoticeCap) \subseteq UpTo(Right, NoticeCap)'
<1>1. \A e : (Superseded(e) => Superseded(e)') /\ (DeletionStored(e) => DeletionStored(e)')
  BY DEF Superseded, DeletionStored
<1>2. Settled \subseteq Settled' /\ Right \subseteq Right'
  BY <1>1 DEF Right, Settled
<1>3. \A R, Q : R \subseteq Q => UpTo(R, NoticeCap) \subseteq UpTo(Q, NoticeCap)
  BY DEF UpTo
<1>4. UpTo(Right, NoticeCap) \subseteq UpTo(Right', NoticeCap)
  BY <1>2, <1>3
<1> QED
  BY <1>2, <1>4

\* Every step gives clients only answers that were on their way, or right ones, and puts
\* only right ones on their way.
LEMMA TruthStep ==
    ASSUME Truth, settings' = settings, aired \subseteq aired', stored \subseteq stored',
           stored' \subseteq stored \cup Settled',
           \A c \in Conn : notices[c] \in UpTo(Right, NoticeCap) =>
               \/ notices'[c] \in UpTo(Right, NoticeCap)
               \/ notices'[c] \in UpTo(Right, NoticeCap)',
           \A c \in Conn : notices[c] \in UpTo(Right, NoticeCap) =>
               told'[c] \subseteq told[c] \cup Right
    PROVE  Truth'
<1>1. Truthful' => Truthful
  BY DEF Truthful
<1>2. Right \subseteq Right' /\ UpTo(Right, NoticeCap) \subseteq UpTo(Right, NoticeCap)'
  BY RightStays
<1>3. ASSUME Truthful, NEW c \in Conn
      PROVE  told'[c] \subseteq Right' /\ notices'[c] \in UpTo(Right, NoticeCap)'
  <2>1. told[c] \subseteq Right /\ notices[c] \in UpTo(Right, NoticeCap)
    BY <1>3 DEF Truth
  <2> QED
    BY <1>2, <2>1
<1>4. stored' \subseteq Settled'
  BY RightStays DEF Truth
<1> QED
  BY <1>1, <1>3, <1>4 DEF Truth

\* try_send of an answer that is right after the step.
LEMMA NotifyRight ==
    ASSUME PubInv, NEW e \in Event, NEW status \in Status, NEW d \in Conn,
           Notify(d, e, status), aired \subseteq aired', stored \subseteq stored',
           status \in Accepting => e \in Settled'
    PROVE  \A c \in Conn : notices[c] \in UpTo(Right, NoticeCap) =>
               \/ notices'[c] \in UpTo(Right, NoticeCap)
               \/ notices'[c] \in UpTo(Right, NoticeCap)'
<1> SUFFICES ASSUME NEW c \in Conn, notices[c] \in UpTo(Right, NoticeCap)
             PROVE  \/ notices'[c] \in UpTo(Right, NoticeCap)
                    \/ notices'[c] \in UpTo(Right, NoticeCap)'
  OBVIOUS
<1> DEFINE answer == [id |-> e, status |-> status]
<1>1. answer \in Right'
  BY DEF Right, Answer
<1>2. notices[c] \in UpTo(Right', NoticeCap)
  BY RightStays
<1> HIDE DEF answer
<1>3. CASE c = d /\ Len(notices[c]) < NoticeCap /\ notices'[c] = Append(notices[c], answer)
  BY <1>1, <1>2, <1>3, Appended, Capacities
<1>4. CASE notices'[c] = notices[c]
  BY <1>4
<1>5. \/ c = d /\ Len(notices[c]) < NoticeCap /\ notices'[c] = Append(notices[c], answer)
      \/ notices'[c] = notices[c]
  BY DEF Notify, PubInv, Channels, answer
<1> QED
  BY <1>3, <1>4, <1>5

LEMMA TruthConnectionStep ==
    ASSUME PubInv, Truth, NEW c \in Conn, Client(c) \/ Server(c)
    PROVE  Truth'
<1> USE DEF channels
<1>1. UNCHANGED <<settings, aired, stored>>
  BY DEF Client, Server, EventMsg, AuthMsg, Disconnect, Submit, SendNotice, SendBroadcast,
         SendResult, Stick
<1>2. CASE notices' = notices /\ told' = told
  BY <1>1, <1>2, TruthStep
<1>3. ASSUME NEW e \in Event, EventMsg(c, e) PROVE Truth'
  <2>1. [id |-> e, status |-> "invalid"] \in Right
    BY DEF Right, Answer, Status, Accepting
  <2>2. \A d \in Conn : told'[d] \subseteq told[d] \cup Right
    BY <1>3, <2>1 DEF EventMsg, EventRefused, EventAccepted, Reply, PubInv, Connections
  <2>3. notices' = notices
    BY <1>3 DEF EventMsg
  <2> QED
    BY <1>1, <2>2, <2>3, TruthStep
<1>4. ASSUME NEW a \in AuthEvent, AuthMsg(c, a) PROVE Truth'
  <2>1. \A status \in Status : [id |-> a, status |-> status] \in Right
    BY PublishAssumption DEF Right, Answer
  <2>2. told' = told \/ \E status \in Status : Reply(c, a, status)
    BY <1>4 DEF AuthMsg, Authenticate, Status
  <2>3. \A d \in Conn : told'[d] \subseteq told[d] \cup Right
    BY <2>1, <2>2 DEF Reply, PubInv, Connections
  <2>4. notices' = notices
    BY <1>4 DEF AuthMsg
  <2> QED
    BY <1>1, <2>3, <2>4, TruthStep
<1>5. CASE Disconnect(c)
  <2>1. told' = told /\ \A d \in Conn : notices'[d] = notices[d] \/ notices'[d] = <<>>
    BY <1>5 DEF Disconnect, PubInv, Channels
  <2>2. <<>> \in UpTo(Right, NoticeCap)
    BY Emptied, Capacities
  <2> QED
    BY <1>1, <2>1, <2>2, TruthStep
<1>6. CASE SendNotice(c)
  <2>1. ASSUME NEW d \in Conn, notices[d] \in UpTo(Right, NoticeCap)
        PROVE  /\ notices'[d] \in UpTo(Right, NoticeCap)
               /\ told'[d] \subseteq told[d] \cup Right
    <3>1. CASE d # c
      BY <1>6, <2>1, <3>1 DEF SendNotice, PubInv, Channels, Connections
    <3>2. CASE d = c
      <4>1. Head(notices[c]) \in Right /\ Tail(notices[c]) \in UpTo(Right, NoticeCap)
        BY <1>6, <2>1, <3>2, HeadAndTail, Capacities DEF SendNotice
      <4> QED
        BY <1>6, <3>2, <4>1 DEF SendNotice, PubInv, Channels, Connections
    <3> QED
      BY <3>1, <3>2
  <2> QED
    BY <1>1, <2>1, TruthStep
<1>7. CASE Submit(c) \/ SendBroadcast(c) \/ \E e \in Event : SendResult(c, e)
  BY <1>2, <1>7 DEF Submit, SendBroadcast, SendResult
<1>8. CASE Stick(c)
  <2>1. told' = told /\ \A d \in Conn : \/ notices'[d] = notices[d]
                                         \/ /\ d = c /\ notices[c] # <<>>
                                            /\ notices'[d] = Tail(notices[c])
    BY <1>8 DEF Stick, PubInv, Channels
  <2>2. \A d \in Conn : notices[d] \in UpTo(Right, NoticeCap) =>
            notices'[d] \in UpTo(Right, NoticeCap)
    BY <2>1, HeadAndTail, Capacities
  <2> QED
    BY <1>1, <2>1, <2>2, TruthStep
<1> QED
  BY <1>3, <1>4, <1>5, <1>6, <1>7, <1>8 DEF Client, Server

LEMMA TruthJudgeStep ==
    ASSUME PubInv, Truth, Judge
    PROVE  Truth'
<1> DEFINE job == Head(queue)
<1>1. job \in Submission
  BY HeadAndTail, Capacities DEF Judge, PubInv, Channels
<1>2. UNCHANGED <<settings, aired, stored, told>>
  BY DEF Judge
<1>3. PICK verdict \in Verdicts(job) :
          \/ verdict # "pass" /\ Refuse(job, verdict)
          \/ verdict = "pass" /\ RefuseByRate(job)
          \/ verdict = "pass" /\ Admit(job)
  BY DEF Judge
<1>4. job.conn \in Conn /\ job.event \in Event
  BY <1>1 DEF Submission
<1> HIDE DEF job
<1>5. CASE ~Truthful
  <2>1. ~Truthful'
    BY <1>2, <1>5 DEF Truthful
  <2>2. stored' \subseteq Settled'
    BY <1>2, RightStays DEF Truth
  <2> QED
    BY <2>1, <2>2 DEF Truth
<1>6. CASE Truthful
  <2>1. notices' = notices \/ \E status \in Status \ Accepting :
            Notify(job.conn, job.event, status)
    <3>1. CASE \/ Refuse(job, verdict) /\ verdict = "no_answer"
               \/ Admit(job)
      BY <3>1 DEF Refuse, Admit
    <3>2. CASE verdict # "pass" /\ Refuse(job, verdict) /\ verdict # "no_answer"
      <4>1. verdict \in Status \ Accepting
        BY <1>6, <3>2, VerdictLemma, VerdictRefuses DEF Outcome
      <4> QED
        BY <3>2, <4>1 DEF Refuse
    <3>3. CASE RefuseByRate(job)
      <4>1. Configured(job.event)
        BY <3>3 DEF RefuseByRate, WithinRates, RulesOf, Configured
      <4>2. RateLimited(job.event) \in Status \ Accepting
        BY <1>6, <4>1, LimiterRefuses, FromReasonIsStatus DEF RateLimited, ResolveErrorMessage
      <4> QED
        BY <3>3, <4>2 DEF RefuseByRate
    <3> QED
      BY <1>3, <3>1, <3>2, <3>3
  <2>2. CASE notices' = notices
    BY <1>2, <2>2, TruthStep
  <2>3. ASSUME NEW status \in Status \ Accepting, Notify(job.conn, job.event, status)
        PROVE  Truth'
    BY <1>2, <1>4, <2>3, NotifyRight, TruthStep
  <2> QED
    BY <2>1, <2>2, <2>3
<1> QED
  BY <1>5, <1>6

LEMMA TruthWriteStep ==
    ASSUME PubInv, Truth, Write
    PROVE  Truth'
<1> DEFINE c == writer.job.conn
           e == writer.job.event
<1>1. c \in Conn /\ e \in Event
  BY States DEF Write, Busy, Submission
<1>2. \/ WriteEphemeral(c, e) \/ WriteKnown(c, e) \/ WriteDeleted(c, e)
      \/ WriteNew(c, e) \/ WriteFails(c, e)
  BY DEF Write
<1>3. UNCHANGED <<settings, told>>
  BY DEF Write
<1> HIDE DEF c, e
<1>4. \A d \in Conn : told'[d] \subseteq told[d] \cup Right
  BY <1>3
<1>5. /\ stored \subseteq stored' /\ stored' \subseteq stored \cup {e}
      /\ stored' # stored => WriteNew(c, e) \/ WriteDeleted(c, e)
  BY <1>2 DEF WriteEphemeral, WriteKnown, WriteDeleted, WriteNew, WriteFails
<1>6. aired \subseteq aired' /\ (WriteEphemeral(c, e) \/ WriteNew(c, e) => e \in aired')
  <2>1. CASE WriteEphemeral(c, e) \/ WriteNew(c, e)
    BY <1>1, <2>1, BroadcastLemma DEF WriteEphemeral, WriteNew
  <2>2. CASE ~(WriteEphemeral(c, e) \/ WriteNew(c, e))
    BY <1>2, <2>2 DEF WriteKnown, WriteDeleted, WriteFails
  <2> QED
    BY <2>1, <2>2
\* Unless the write failed, the event is broadcast, superseded or deleted.
<1>7. WriteFails(c, e) \/ e \in Settled'
  <2>1. Settled \subseteq Settled'
    BY <1>5, <1>6, RightStays
  <2>2. CASE WriteEphemeral(c, e) \/ WriteNew(c, e)
    BY <1>1, <1>6, <2>2 DEF Settled
  <2>3. CASE WriteKnown(c, e)
    <3>1. e \in stored \/ Superseded(e)
      BY <2>3 DEF WriteKnown, Shadowed
    <3> QED
      BY <1>1, <2>1, <3>1 DEF Truth, Settled
  <2>4. CASE WriteDeleted(c, e)
    <3>1. DeletionStored(e)
      BY <2>4 DEF WriteDeleted
    <3> QED
      BY <1>1, <2>1, <3>1 DEF Settled
  <2> QED
    BY <1>2, <2>2, <2>3, <2>4
<1>8. stored' \subseteq stored \cup Settled'
  <2>1. CASE WriteFails(c, e)
    BY <2>1 DEF WriteFails
  <2>2. CASE ~WriteFails(c, e)
    BY <1>5, <1>7, <2>2
  <2> QED
    BY <2>1, <2>2
<1>9. ASSUME NEW status \in Status, Notify(c, e, status), status \in Accepting => e \in Settled'
      PROVE  Truth'
  <2>1. \A d \in Conn : notices[d] \in UpTo(Right, NoticeCap) =>
            \/ notices'[d] \in UpTo(Right, NoticeCap)
            \/ notices'[d] \in UpTo(Right, NoticeCap)'
    BY <1>1, <1>5, <1>6, <1>9, NotifyRight
  <2> QED
    BY <1>3, <1>4, <1>5, <1>6, <1>8, <2>1, TruthStep
<1>10. CASE WriteFails(c, e)
  <2>1. "error" \in Status \ Accepting /\ Notify(c, e, "error")
    BY <1>10 DEF WriteFails, Status, Accepting
  <2> QED
    BY <1>9, <2>1
<1>11. CASE ~WriteFails(c, e)
  <2>1. \E status \in Status : Notify(c, e, status)
    BY <1>2, <1>11 DEF WriteEphemeral, WriteKnown, WriteDeleted, WriteNew, Status
  <2> QED
    BY <1>7, <1>9, <1>11, <2>1
<1> QED
  BY <1>10, <1>11

LEMMA TruthInvariant == PubInv /\ Truth /\ [Next]_vars => Truth'
<1> SUFFICES ASSUME PubInv, Truth, [Next]_vars PROVE Truth'
  OBVIOUS
<1>1. ASSUME NEW c \in Conn, Client(c) \/ Server(c) PROVE Truth'
  BY <1>1, TruthConnectionStep
<1>2. CASE Judge
  BY <1>2, TruthJudgeStep
<1>3. CASE Write
  BY <1>3, TruthWriteStep
<1>4. CASE \/ LoopTop \/ Stall \/ Charge \/ Wake \/ ChannelCloses \/ Tick \/ Shutdown
           \/ UNCHANGED vars
  <2>1. UNCHANGED <<settings, notices, told, aired, stored>>
    BY <1>4 DEF LoopTop, Stall, Charge, Wake, ChannelCloses, Tick, Shutdown, vars, channels, history
  <2> QED
    BY <2>1, TruthStep
<1> QED
  BY <1>1, <1>2, <1>3, <1>4 DEF Next, Writer

-----------------------------------------------------------------------------
(* Rate limits.  A bucket need not hold exactly the admissions it stands for: rules    *)
(* that are asked before the one that refuses count the event as well.  What matters   *)
(* is that it holds a time of its own for every admission still inside the window.     *)

\* Every element of L has a place of its own in s, where its time stands.
Placed(L, at, s) == \E f \in Injection(L, DOMAIN s) : \A j \in L : s[f[j]] = at[j]

LEMMA PlacedPart ==
    ASSUME NEW L, NEW at, NEW s, Placed(L, at, s),
           NEW M \in SUBSET L, NEW when, \A j \in M : when[j] = at[j]
    PROVE  Placed(M, when, s)
<1>1. PICK f \in Injection(L, DOMAIN s) : \A j \in L : s[f[j]] = at[j]
  BY DEF Placed
<1> DEFINE g == [j \in M |-> f[j]]
<1>2. g \in Injection(M, DOMAIN s)
  BY <1>1 DEF Injection, IsInjective
<1>3. \A j \in M : s[g[j]] = when[j]
  BY <1>1
<1> QED
  BY <1>2, <1>3 DEF Placed

LEMMA IntervalSize == \A n \in Nat : IsFiniteSet(1..n) /\ Cardinality(1..n) = n
<1> SUFFICES ASSUME NEW n \in Nat PROVE IsFiniteSet(1..n) /\ Cardinality(1..n) = n
  OBVIOUS
<1> QED
  BY FS_Interval

LEMMA PlacedBound ==
    ASSUME NEW L, NEW at, NEW s \in Seq(Nat), Placed(L, at, s)
    PROVE  IsFiniteSet(L) /\ Cardinality(L) \in Nat /\ Cardinality(L) <= Len(s)
<1>1. PICK f \in Injection(L, DOMAIN s) : TRUE
  BY DEF Placed
<1>2. Len(s) \in Nat /\ DOMAIN s = 1..Len(s)
  BY LenProperties
<1>3. IsFiniteSet(DOMAIN s) /\ Cardinality(DOMAIN s) = Len(s)
  BY <1>2, IntervalSize, Zenon
<1> QED
  BY <1>1, <1>3, FS_Injection, FS_CardinalityType

LEMMA PlacedAppend ==
    ASSUME NEW L, NEW at, NEW s \in Seq(Nat), NEW t \in Nat, Placed(L, at, s)
    PROVE  /\ Placed(L, at, Append(s, t))
           /\ \A n : n \notin L /\ at[n] = t => Placed(L \cup {n}, at, Append(s, t))
<1>1. PICK f \in Injection(L, DOMAIN s) : \A j \in L : s[f[j]] = at[j]
  BY DEF Placed
<1> DEFINE longer == Append(s, t)
<1>2. /\ Len(s) \in Nat /\ DOMAIN s = 1..Len(s) /\ DOMAIN longer = 1..(Len(s) + 1)
      /\ longer[Len(s) + 1] = t /\ \A i \in 1..Len(s) : longer[i] = s[i]
  BY LenProperties, AppendProperties
<1> HIDE DEF longer
<1>3. Placed(L, at, longer)
  <2>1. f \in Injection(L, DOMAIN longer)
    BY <1>1, <1>2 DEF Injection, IsInjective
  <2>2. \A j \in L : longer[f[j]] = at[j]
    BY <1>1, <1>2 DEF Injection, IsInjective
  <2> QED
    BY <2>1, <2>2 DEF Placed
<1>4. ASSUME NEW n, n \notin L, at[n] = t PROVE Placed(L \cup {n}, at, longer)
  <2> DEFINE g == [j \in L \cup {n} |-> IF j = n THEN Len(s) + 1 ELSE f[j]]
  <2>1. \A j \in L : j # n /\ f[j] \in 1..Len(s) /\ f[j] # Len(s) + 1
    BY <1>1, <1>2, <1>4 DEF Injection, IsInjective
  <2>2. g \in [L \cup {n} -> DOMAIN longer]
    BY <1>2, <2>1
  <2>3. \A i, j \in L \cup {n} : g[i] = g[j] => i = j
    BY <1>1, <2>1 DEF Injection, IsInjective
  <2>4. \A j \in L \cup {n} : longer[g[j]] = at[j]
    BY <1>1, <1>2, <1>4, <2>1
  <2> QED
    BY <2>2, <2>3, <2>4 DEF Placed, Injection, IsInjective
<1> QED
  BY <1>3, <1>4 DEF longer

LEMMA WithoutFirst ==
    ASSUME NEW s \in Seq(Nat), NEW n \in Nat, n = Len(s), NEW d \in 0..n
    PROVE  /\ SubSeq(s, d + 1, n) \in Seq(Nat)
           /\ DOMAIN SubSeq(s, d + 1, n) = 1..(n - d)
           /\ \A i \in 1..(n - d) : SubSeq(s, d + 1, n)[i] = s[d + i]
<1>1. PICK m \in Int : m = d + 1
  OBVIOUS
<1>2. \A i \in m..n : s[i] \in Nat
  BY <1>1, LenProperties
<1>3. /\ SubSeq(s, m, n) \in Seq(Nat)
      /\ Len(SubSeq(s, m, n)) = IF m <= n THEN n - m + 1 ELSE 0
      /\ \A i \in 1..(n - m + 1) : SubSeq(s, m, n)[i] = s[m + i - 1]
  BY <1>2, SubSeqProperties
<1>4. PICK kept \in Seq(Nat) : kept = SubSeq(s, m, n)
  BY <1>3
<1>5. Len(kept) = n - d
  BY <1>1, <1>3, <1>4
<1>6. DOMAIN kept = 1..(n - d)
  BY <1>5, LenProperties
<1>7. \A i \in 1..(n - d) : kept[i] = s[d + i]
  <2> TAKE i \in 1..(n - d)
  <2>1. i \in 1..(n - m + 1)
    BY <1>1
  <2>2. m + i - 1 = d + i
    BY <1>1
  <2>3. SubSeq(s, m, n)[i] = s[m + i - 1]
    BY <1>3, <2>1, Zenon
  <2> QED
    BY <1>4, <2>2, <2>3, Zenon
<1> QED
  BY <1>1, <1>4, <1>6, <1>7, Zenon

LEMMA ShiftedBack ==
    ASSUME NEW L, NEW n \in Nat, NEW d \in 0..n, NEW f, \A j \in L : f[j] \in 1..n /\ f[j] > d,
           \A i, j \in L : f[i] = f[j] => i = j
    PROVE  /\ \A j \in L : f[j] - d \in 1..(n - d) /\ d + (f[j] - d) = f[j]
           /\ \A i, j \in L : f[i] - d = f[j] - d => i = j
OBVIOUS

\* Removing the leading times that have left the window removes the place of no
\* element whose time has not.
LEMMA PlacedTrim ==
    ASSUME NEW L, NEW at, NEW s \in Seq(Nat), NEW now \in Nat, NEW window \in Nat,
           Placed(L, at, s), \A j \in L : now - at[j] < window,
           NEW over, over = {k \in DOMAIN s : \A l \in 1..k : now - s[l] >= window},
           NEW kept, kept = SubSeq(s, Cardinality(over) + 1, Len(s))
    PROVE  kept \in Seq(Nat) /\ Placed(L, at, kept)
<1>1. PICK f \in Injection(L, DOMAIN s) : \A j \in L : s[f[j]] = at[j]
  BY DEF Placed
<1>2. PICK n \in Nat : n = Len(s) /\ DOMAIN s = 1..n /\ \A i \in 1..n : s[i] \in Nat
  BY LenProperties
<1>3. ASSUME NEW k \in Nat, over \subseteq 1..k PROVE Cardinality(over) \in 0..k
  <2>1. IsFiniteSet(1..k) /\ Cardinality(1..k) = k
    BY FS_Interval
  <2>2. IsFiniteSet(over) /\ Cardinality(over) <= Cardinality(1..k)
    BY <1>3, <2>1, FS_Subset
  <2>3. Cardinality(over) \in Nat
    BY <2>2, FS_CardinalityType
  <2> QED
    BY <2>1, <2>2, <2>3
<1>4. PICK d \in 0..n : d = Cardinality(over)
  <2>1. over \subseteq 1..n
    BY <1>2
  <2> QED
    BY <1>3, <2>1
<1>5. \A j \in L : f[j] \in 1..n /\ f[j] > d
  <2> SUFFICES ASSUME NEW j \in L PROVE f[j] \in 1..n /\ f[j] > d
    OBVIOUS
  <2>1. PICK p \in 1..n : p = f[j]
    BY <1>1, <1>2 DEF Injection
  <2>2. ~(now - s[p] >= window)
    BY <1>1, <1>2, <2>1
  <2>3. over \subseteq 1..(p - 1)
    BY <1>2, <2>1, <2>2
  <2>4. p - 1 \in Nat
    OBVIOUS
  <2>5. d \in 0..(p - 1)
    BY <1>3, <1>4, <2>3, <2>4
  <2> QED
    BY <2>1, <2>5
<1>6. kept = SubSeq(s, d + 1, n)
  BY <1>2, <1>4, Zenon
<1>7. /\ kept \in Seq(Nat) /\ DOMAIN kept = 1..(n - d)
      /\ \A i \in 1..(n - d) : kept[i] = s[d + i]
  <2>1. /\ SubSeq(s, d + 1, n) \in Seq(Nat)
        /\ DOMAIN SubSeq(s, d + 1, n) = 1..(n - d)
        /\ \A i \in 1..(n - d) : SubSeq(s, d + 1, n)[i] = s[d + i]
    BY <1>2, WithoutFirst
  <2> QED
    BY <1>6, <2>1, Zenon
<1>8. /\ \A j \in L : f[j] - d \in 1..(n - d) /\ d + (f[j] - d) = f[j]
      /\ \A i, j \in L : f[i] - d = f[j] - d => i = j
  <2>1. \A i, j \in L : f[i] = f[j] => i = j
    BY <1>1 DEF Injection, IsInjective
  <2> QED
    BY <1>5, <2>1, ShiftedBack
<1> DEFINE g == [j \in L |-> f[j] - d]
<1>9. g \in Injection(L, DOMAIN kept)
  BY <1>7, <1>8 DEF Injection, IsInjective
<1>10. \A j \in L : kept[g[j]] = at[j]
  <2>1. \A j \in L : kept[f[j] - d] = s[f[j]]
    BY <1>7, <1>8, Zenon
  <2> QED
    BY <1>1, <2>1
<1> QED
  BY <1>7, <1>9, <1>10 DEF Placed

\* The admissions a bucket still has to stand for, and when they were.
Alive(job, r) ==
    {j \in DOMAIN admitted :
        /\ BucketOf(admitted[j], r) = BucketOf(job, r)
        /\ clock - admitted[j].at < RulesOf(job.event)[r].window}
Recorded == [j \in DOMAIN admitted |-> admitted[j].at]

Rates ==
    /\ \A b \in DOMAIN buckets : buckets[b] \in Seq(Nat)
    /\ \A job \in Submission : \A r \in DOMAIN RulesOf(job.event) :
          Placed(Alive(job, r), Recorded, TimesOf(BucketOf(job, r)))
    /\ RateRespected

RateRule == [limit : Nat, window : Nat, scope : {"global", "npub", "ip"}]
Admission == [conn : Conn, event : Event, proved : SUBSET Key, at : 0..MaxTime]

LEMMA RulesTyped ==
    ASSUME PubInv, NEW e
    PROVE  /\ RulesOf(e) \in Seq(RateRule)
           /\ \A r \in DOMAIN RulesOf(e) : /\ RulesOf(e)[r].limit \in Nat
                                           /\ RulesOf(e)[r].window \in Nat
                                           /\ 1..(r - 1) \subseteq DOMAIN RulesOf(e)
<1>1. settings \in Scenario
  BY DEF PubInv, Control
<1>2. RulesOf(e) \in Seq(RateRule)
  BY <1>1, PublishAssumption DEF RulesOf, RateRule
<1>3. \A r \in DOMAIN RulesOf(e) : RulesOf(e)[r] \in RateRule
  BY <1>2, LenProperties, ElementOfSeq
<1>4. \A r \in DOMAIN RulesOf(e) : 1..(r - 1) \subseteq DOMAIN RulesOf(e)
  BY <1>2, LenProperties
<1> QED
  BY <1>2, <1>3, <1>4 DEF RateRule

LEMMA Clocked == PubInv => clock \in Nat /\ admitted \in Seq(Admission)
BY PublishAssumption DEF PubInv, Control, Records, Admission

LEMMA TimesTyped == Rates => \A b : TimesOf(b) \in Seq(Nat)
BY EmptySeq DEF Rates, TimesOf

\* What the limiter keeps of a bucket stands for all admissions inside the window.
LEMMA RecentPlaced ==
    ASSUME PubInv, Rates, NEW job \in Submission, NEW r \in DOMAIN RulesOf(job.event)
    PROVE  /\ Recent(job, r) \in Seq(Nat)
           /\ Placed(Alive(job, r), Recorded, Recent(job, r))
<1> DEFINE times == TimesOf(BucketOf(job, r))
           window == RulesOf(job.event)[r].window
           over == {k \in DOMAIN times : \A l \in 1..k : clock - times[l] >= window}
           kept == SubSeq(times, Cardinality(over) + 1, Len(times))
<1>1. times \in Seq(Nat) /\ window \in Nat /\ clock \in Nat
  BY TimesTyped, RulesTyped, Clocked
<1>2. Placed(Alive(job, r), Recorded, times)
  BY DEF Rates
<1>3. \A j \in Alive(job, r) : clock - Recorded[j] < window
  BY DEF Alive, Recorded
<1>4. Recent(job, r) = kept
  BY DEF Recent
<1> HIDE DEF times, window
<1>5. kept \in Seq(Nat) /\ Placed(Alive(job, r), Recorded, kept)
  BY <1>1, <1>2, <1>3, PlacedTrim
<1> HIDE DEF kept
<1> QED
  BY <1>4, <1>5

\* Two submissions that a rule counts in one bucket are alike to it.
LEMMA SameBucket ==
    ASSUME NEW a, NEW b, NEW i, NEW r, BucketOf(a, i) = BucketOf(b, r)
    PROVE  /\ i = r /\ RulesOf(a.event) = RulesOf(b.event)
           /\ Content[a.event].kind = Content[b.event].kind
BY DEF BucketOf, RulesOf

LEMMA OneBucketPerRule ==
    ASSUME NEW job, NEW r
    PROVE  BucketOf(job, r)[2] = r
BY DEF BucketOf

Asked(job) == {i \in DOMAIN RulesOf(job.event) : \A j \in 1..(i - 1) : HasRoom(job, j)}
Counted(job, r) ==
    IF HasRoom(job, r) THEN Append(Recent(job, r), clock) ELSE Recent(job, r)

\* The rules that are asked count the submission each in its bucket; the others count
\* nothing.
LEMMA AskLemma ==
    ASSUME PubInv, Rates, NEW job \in Submission, AskRules(job)
    PROVE  /\ \A b \in DOMAIN buckets' : buckets'[b] \in Seq(Nat)
           /\ \A r \in Asked(job) : \A b : b = BucketOf(job, r) => TimesOf(b)' = Counted(job, r)
           /\ \A b : (\A r \in Asked(job) : b # BucketOf(job, r)) => TimesOf(b)' = TimesOf(b)
<1> DEFINE mine == {BucketOf(job, r) : r \in Asked(job)}
           value(b) == IF b \notin mine THEN buckets[b]
                       ELSE IF HasRoom(job, b[2]) THEN Append(Recent(job, b[2]), clock)
                       ELSE Recent(job, b[2])
<1>1. buckets' = [b \in DOMAIN buckets \cup mine |-> value(b)]
  BY DEF AskRules, Asked
<1>2. \A r \in Asked(job) : value(BucketOf(job, r)) = Counted(job, r)
  BY OneBucketPerRule DEF Counted
<1>3. \A b : b \notin mine => value(b) = buckets[b]
  OBVIOUS
<1>4. \A r \in Asked(job) : Counted(job, r) \in Seq(Nat)
  BY RecentPlaced, Clocked, AppendProperties DEF Asked, Counted
<1>5. \A r \in Asked(job) : BucketOf(job, r) \in mine
  OBVIOUS
<1>6. \A b \in mine : \E r \in Asked(job) : b = BucketOf(job, r)
  OBVIOUS
<1>7. \A b : b \notin mine <=> \A r \in Asked(job) : b # BucketOf(job, r)
  OBVIOUS
<1> HIDE DEF mine, value
<1>8. \A b \in DOMAIN buckets' : buckets'[b] \in Seq(Nat)
  <2> SUFFICES ASSUME NEW b \in DOMAIN buckets \cup mine PROVE value(b) \in Seq(Nat)
    BY <1>1
  <2>1. CASE b \in mine
    BY <1>2, <1>4, <1>6, <2>1
  <2>2. CASE b \notin mine
    BY <1>3, <2>2 DEF Rates
  <2> QED
    BY <2>1, <2>2
<1>9. \A r \in Asked(job) : \A b : b = BucketOf(job, r) => TimesOf(b)' = Counted(job, r)
  BY <1>1, <1>2, <1>5 DEF TimesOf
<1>10. \A b : b \notin mine => TimesOf(b)' = TimesOf(b)
  BY <1>1, <1>3 DEF TimesOf
<1> QED
  BY <1>7, <1>8, <1>9, <1>10

\* Whatever the limiters decide, the buckets go on standing for the admissions so far.
LEMMA AskKeepsPlaces ==
    ASSUME PubInv, Rates, NEW job \in Submission, AskRules(job),
           NEW other \in Submission, NEW r \in DOMAIN RulesOf(other.event),
           NEW b, b = BucketOf(other, r)
    PROVE  Placed(Alive(other, r), Recorded, TimesOf(b)')
<1>1. CASE \A i \in Asked(job) : b # BucketOf(job, i)
  <2>1. Placed(Alive(other, r), Recorded, TimesOf(b))
    BY DEF Rates
  <2>2. TimesOf(b)' = TimesOf(b)
    BY <1>1, AskLemma
  <2> QED
    BY <2>1, <2>2
<1>2. ASSUME NEW i \in Asked(job), b = BucketOf(job, i)
      PROVE  Placed(Alive(other, r), Recorded, TimesOf(b)')
  <2>1. i = r /\ RulesOf(other.event) = RulesOf(job.event)
    <3>1. BucketOf(job, i) = BucketOf(other, r)
      BY <1>2
    <3> QED
      BY <3>1, SameBucket
  <2>2. Alive(other, r) = Alive(job, r)
    BY <1>2, <2>1 DEF Alive
  <2>3. Recent(job, r) \in Seq(Nat) /\ Placed(Alive(job, r), Recorded, Recent(job, r))
    BY <2>1, RecentPlaced
  <2>4. Placed(Alive(job, r), Recorded, Counted(job, r))
    BY <2>3, PlacedAppend, Clocked DEF Counted
  <2>5. TimesOf(b)' = Counted(job, r)
    BY <1>2, <2>1, AskLemma
  <2> QED
    BY <2>2, <2>4, <2>5
<1> QED
  BY <1>1, <1>2

\* The admissions that count against a rule when the i-th is let through.
Rivals(i, r) ==
    {j \in 1..i : /\ Content[admitted[j].event].kind = Content[admitted[i].event].kind
                  /\ CountedBy(j, r) = CountedBy(i, r)
                  /\ admitted[i].at - admitted[j].at < RulesOf(admitted[i].event)[r].window}

LEMMA RivalsMeaning ==
    RateRespected <=> \A i \in DOMAIN admitted : \A r \in DOMAIN RulesOf(admitted[i].event) :
                          Cardinality(Rivals(i, r)) <= RulesOf(admitted[i].event)[r].limit
BY DEF RateRespected, Rivals

LEMMA RulesStay ==
    ASSUME settings' = settings
    PROVE  /\ \A e : RulesOf(e)' = RulesOf(e)
           /\ \A a, r : BucketOf(a, r)' = BucketOf(a, r)
BY DEF RulesOf, BucketOf

LEMMA RespectStays ==
    ASSUME RateRespected, UNCHANGED <<settings, admitted>>
    PROVE  RateRespected'
<1>1. \A i, r : CountedBy(i, r)' = CountedBy(i, r)
  BY DEF CountedBy, RulesOf
<1>2. \A i, r : Rivals(i, r)' = Rivals(i, r)
  BY <1>1, RulesStay DEF Rivals
<1>3. \A i \in DOMAIN admitted : \A r \in DOMAIN RulesOf(admitted[i].event) :
          Cardinality(Rivals(i, r)) <= RulesOf(admitted[i].event)[r].limit
  BY RivalsMeaning
<1>4. \A i \in DOMAIN admitted' : \A r \in DOMAIN RulesOf(admitted[i].event)' :
          Cardinality(Rivals(i, r))' <= RulesOf(admitted[i].event)'[r].limit
  BY <1>2, <1>3, RulesStay
<1> QED
  BY <1>4 DEF RateRespected, Rivals

\* Time passes, or something else happens.
LEMMA RatesFrame ==
    ASSUME PubInv, Rates, UNCHANGED <<settings, buckets, admitted>>,
           clock' \in Nat, clock' >= clock
    PROVE  Rates'
<1>1. clock \in Nat /\ admitted \in Seq(Admission)
  BY Clocked
<1>2. \A b : TimesOf(b)' = TimesOf(b)
  BY DEF TimesOf
<1>3. Recorded' = Recorded
  BY DEF Recorded
<1>4. ASSUME NEW job \in Submission, NEW r \in DOMAIN RulesOf(job.event)
      PROVE  Alive(job, r)' \subseteq Alive(job, r)
  <2>1. \A j \in DOMAIN admitted : admitted[j].at \in Nat
    <3>1. \A j \in DOMAIN admitted : admitted[j] \in Admission
      BY <1>1, LenProperties, ElementOfSeq
    <3>2. MaxTime \in Nat
      BY PublishAssumption
    <3> QED
      BY <3>1, <3>2 DEF Admission
  <2>2. RulesOf(job.event)[r].window \in Nat
    BY RulesTyped
  <2>3. \A j \in DOMAIN admitted : BucketOf(admitted[j], r)' = BucketOf(admitted[j], r)
    BY DEF BucketOf, RulesOf
  <2> QED
    BY <1>1, <2>1, <2>2, <2>3, RulesStay DEF Alive
<1>5. ASSUME NEW job \in Submission, NEW r \in DOMAIN RulesOf(job.event)
      PROVE  Placed(Alive(job, r), Recorded, TimesOf(BucketOf(job, r)))'
  <2>1. Placed(Alive(job, r), Recorded, TimesOf(BucketOf(job, r)))
    BY DEF Rates
  <2>2. PICK b : b = BucketOf(job, r)
    OBVIOUS
  <2>3. BucketOf(job, r)' = b /\ TimesOf(b)' = TimesOf(b)
    BY <1>2, <2>2, RulesStay
  <2>4. Placed(Alive(job, r)', Recorded, TimesOf(b))
    BY <1>4, <2>1, <2>2, PlacedPart
  <2> QED
    BY <1>2, <1>3, <2>2, <2>3, <2>4
<1>6. RateRespected'
  BY RespectStays DEF Rates
<1>7. \A b \in DOMAIN buckets' : buckets'[b] \in Seq(Nat)
  BY DEF Rates
<1> QED
  BY <1>5, <1>6, <1>7, RulesStay DEF Rates

LEMMA RatesRefused ==
    ASSUME PubInv, Rates, NEW job \in Submission, AskRules(job),
           UNCHANGED <<settings, clock, admitted>>
    PROVE  Rates'
<1>1. Recorded' = Recorded
  BY DEF Recorded
<1>2. \A other, r : Alive(other, r)' = Alive(other, r)
  <2>1. \A j, r : BucketOf(admitted[j], r)' = BucketOf(admitted[j], r)
    BY DEF BucketOf, RulesOf
  <2> QED
    BY <2>1, RulesStay DEF Alive
<1>3. ASSUME NEW other \in Submission, NEW r \in DOMAIN RulesOf(other.event)
      PROVE  Placed(Alive(other, r), Recorded, TimesOf(BucketOf(other, r)))'
  <2>1. PICK b : b = BucketOf(other, r)
    OBVIOUS
  <2>2. BucketOf(other, r)' = b
    BY <2>1, RulesStay
  <2>3. Placed(Alive(other, r), Recorded, TimesOf(b)')
    BY <2>1, AskKeepsPlaces
  <2>4. TimesOf(BucketOf(other, r))' = TimesOf(b)'
    BY <2>2 DEF TimesOf
  <2> QED
    BY <1>1, <1>2, <2>3, <2>4
<1>4. RateRespected'
  BY RespectStays DEF Rates
<1>5. \A b \in DOMAIN buckets' : buckets'[b] \in Seq(Nat)
  BY AskLemma
<1> QED
  BY <1>3, <1>4, <1>5, RulesStay DEF Rates

\* A submission that all rules have room for is the newest in the bucket of each.
LEMMA RatesAdmitted ==
    ASSUME PubInv, Rates, NEW job \in Submission, AskRules(job), WithinRates(job),
           UNCHANGED <<settings, clock>>,
           admitted' = Append(admitted, [conn |-> job.conn, event |-> job.event,
                                          proved |-> job.proved, at |-> clock])
    PROVE  Rates'
<1>1. PICK admission : admission = [conn |-> job.conn, event |-> job.event,
                                    proved |-> job.proved, at |-> clock]
  OBVIOUS
<1>2. PICK n \in Nat : n = Len(admitted) /\ DOMAIN admitted = 1..n
  BY Clocked, LenProperties
<1>3. /\ DOMAIN admitted' = 1..(n + 1) /\ admitted'[n + 1] = admission
      /\ \A j \in 1..n : admitted'[j] = admitted[j]
  <2>1. admission \in Admission
    BY <1>1 DEF PubInv, Control, Submission, Admission
  <2>2. admitted' = Append(admitted, admission)
    BY <1>1
  <2> QED
    BY <1>2, <2>1, <2>2, Clocked, AppendProperties, LenProperties
<1>4. \A r : BucketOf(admission, r) = BucketOf(job, r)
  BY <1>1 DEF BucketOf
<1>5. Asked(job) = DOMAIN RulesOf(job.event)
  BY RulesTyped DEF WithinRates, Asked
<1>6. \A r \in DOMAIN RulesOf(job.event) : Counted(job, r) = Append(Recent(job, r), clock)
  BY DEF WithinRates, Counted
<1>7. \A j \in 1..(n + 1) : \A r :
          BucketOf(admitted[j], r)' = IF j = n + 1 THEN BucketOf(job, r)
                                      ELSE BucketOf(admitted[j], r)
  <2>1. \A j \in 1..(n + 1) : \A r : BucketOf(admitted[j], r)' = BucketOf(admitted'[j], r)
    BY DEF BucketOf, RulesOf
  <2> QED
    BY <1>3, <1>4, <2>1
<1>8. ASSUME NEW other \in Submission, NEW r \in DOMAIN RulesOf(other.event)
      PROVE  /\ Alive(other, r)' \subseteq Alive(other, r) \cup {n + 1}
             /\ n + 1 \in Alive(other, r)' => BucketOf(other, r) = BucketOf(job, r)
  <2>1. Alive(other, r)' = {j \in 1..(n + 1) :
            /\ BucketOf(admitted[j], r)' = BucketOf(other, r)
            /\ clock - admitted'[j].at < RulesOf(other.event)[r].window}
    BY <1>3, RulesStay DEF Alive
  <2>2. \A j \in Alive(other, r)' : j = n + 1 \/ j \in Alive(other, r)
    <3> SUFFICES ASSUME NEW j \in 1..(n + 1), j # n + 1,
                        BucketOf(admitted[j], r)' = BucketOf(other, r),
                        clock - admitted'[j].at < RulesOf(other.event)[r].window
                 PROVE  j \in Alive(other, r)
      BY <2>1
    <3>1. j \in 1..n /\ admitted'[j] = admitted[j]
      BY <1>3
    <3>2. BucketOf(admitted[j], r) = BucketOf(other, r)
      BY <1>7
    <3> QED
      BY <1>2, <3>1, <3>2 DEF Alive
  <2>3. n + 1 \in Alive(other, r)' => BucketOf(other, r) = BucketOf(job, r)
    BY <1>7, <2>1
  <2> QED
    BY <2>2, <2>3
<1>9. /\ \A j \in 1..n : Recorded'[j] = Recorded[j]
      /\ Recorded'[n + 1] = clock
  BY <1>1, <1>2, <1>3 DEF Recorded
<1>10. ASSUME NEW other \in Submission, NEW r \in DOMAIN RulesOf(other.event),
              NEW b, b = BucketOf(other, r)
       PROVE  Placed(Alive(other, r)', Recorded', TimesOf(b)')
  <2>1. Alive(other, r) \subseteq 1..n
    BY <1>2 DEF Alive
  <2>2. CASE n + 1 \notin Alive(other, r)'
    <3>1. Alive(other, r)' \subseteq Alive(other, r)
      BY <1>8, <2>2
    <3>2. \A j \in Alive(other, r)' : Recorded'[j] = Recorded[j]
      BY <1>9, <2>1, <3>1
    <3>3. Placed(Alive(other, r), Recorded, TimesOf(b)')
      BY <1>10, AskKeepsPlaces
    <3> QED
      BY <3>1, <3>2, <3>3, PlacedPart
  <2>3. CASE n + 1 \in Alive(other, r)'
    <3>1. b = BucketOf(job, r) /\ RulesOf(other.event) = RulesOf(job.event)
      BY <1>8, <1>10, <2>3, SameBucket
    <3>2. TimesOf(b)' = Append(Recent(job, r), clock)
      BY <1>5, <1>6, <3>1, AskLemma
    <3>3. Alive(other, r) = Alive(job, r)
      BY <1>10, <3>1 DEF Alive
    <3>4. Recent(job, r) \in Seq(Nat) /\ Placed(Alive(other, r), Recorded, Recent(job, r))
      BY <3>1, <3>3, RecentPlaced
    <3>5. Placed(Alive(other, r), Recorded', Recent(job, r))
      BY <1>9, <2>1, <3>4, PlacedPart
    <3>6. n + 1 \notin Alive(other, r)
      BY <1>2, <2>1
    <3>7. Placed(Alive(other, r) \cup {n + 1}, Recorded', Append(Recent(job, r), clock))
      BY <1>9, <3>4, <3>5, <3>6, PlacedAppend, Clocked
    <3> QED
      BY <1>8, <3>2, <3>7, PlacedPart
  <2> QED
    BY <2>2, <2>3
<1>11. ASSUME NEW other \in Submission, NEW r \in DOMAIN RulesOf(other.event)
       PROVE  Placed(Alive(other, r), Recorded, TimesOf(BucketOf(other, r)))'
  <2>1. PICK b : b = BucketOf(other, r)
    OBVIOUS
  <2>2. BucketOf(other, r)' = b
    BY <2>1, RulesStay
  <2>3. TimesOf(BucketOf(other, r))' = TimesOf(b)'
    BY <2>2 DEF TimesOf
  <2> QED
    BY <1>10, <2>1, <2>3
\* No more of them than the rule allows are inside the window of the new one.
<1>12. ASSUME NEW r \in DOMAIN RulesOf(job.event)
       PROVE  Cardinality(Rivals(n + 1, r)') <= RulesOf(job.event)[r].limit
  <2>1. Rivals(n + 1, r)' \subseteq Alive(job, r)'
    <3> SUFFICES ASSUME NEW j \in Rivals(n + 1, r)' PROVE j \in Alive(job, r)'
      OBVIOUS
    <3>1. /\ j \in 1..(n + 1) /\ CountedBy(j, r)' = CountedBy(n + 1, r)'
          /\ admitted'[n + 1].at - admitted'[j].at < RulesOf(admitted[n + 1].event)'[r].window
      BY DEF Rivals
    <3>2. \A k : BucketOf(admitted[k], r)' = <<CountedBy(k, r)'[1], r, CountedBy(k, r)'[2]>>
      BY DEF BucketOf, CountedBy
    <3>3. BucketOf(admitted[j], r)' = BucketOf(job, r)
      <4>1. n + 1 \in 1..(n + 1)
        OBVIOUS
      <4>2. BucketOf(admitted[n + 1], r)' = BucketOf(job, r)
        BY <1>7, <4>1
      <4>3. BucketOf(admitted[j], r)' = BucketOf(admitted[n + 1], r)'
        BY <3>1, <3>2
      <4> QED
        BY <4>2, <4>3
    <3>4. admitted'[n + 1].at = clock /\ RulesOf(admitted[n + 1].event)' = RulesOf(job.event)
      BY <1>1, <1>3, RulesStay
    <3>5. j \in DOMAIN admitted' /\ BucketOf(job, r)' = BucketOf(job, r)
      BY <1>3, <3>1, RulesStay
    <3>6. clock' - admitted'[j].at < RulesOf(job.event)'[r].window
      BY <3>1, <3>4, RulesStay
    <3> QED
      BY <3>3, <3>5, <3>6 DEF Alive
  <2>2. PICK b : b = BucketOf(job, r)
    OBVIOUS
  <2>3. Placed(Alive(job, r)', Recorded', TimesOf(b)')
    BY <1>10, <2>2
  <2>4. Recent(job, r) \in Seq(Nat) /\ TimesOf(b)' = Append(Recent(job, r), clock)
    BY <1>5, <1>6, <2>2, AskLemma, RecentPlaced
  <2>5. PICK times \in Seq(Nat) : times = Append(Recent(job, r), clock) /\ Len(times) = Len(Recent(job, r)) + 1
    BY <2>4, Clocked, AppendProperties
  <2>6. Placed(Rivals(n + 1, r)', Recorded', times)
    BY <2>1, <2>3, <2>4, <2>5, PlacedPart
  <2>7. Cardinality(Rivals(n + 1, r)') \in Nat /\ Cardinality(Rivals(n + 1, r)') <= Len(times)
    BY <2>6, PlacedBound
  <2>8. Len(Recent(job, r)) < RulesOf(job.event)[r].limit
    BY DEF WithinRates, HasRoom
  <2> QED
    BY <2>4, <2>5, <2>7, <2>8, RulesTyped, LenProperties
<1>13. \A i \in 1..n : \A r : Rivals(i, r)' = Rivals(i, r)
  <2> SUFFICES ASSUME NEW i \in 1..n, NEW r PROVE Rivals(i, r)' = Rivals(i, r)
    OBVIOUS
  <2>1. \A j \in 1..i : j \in 1..n
    OBVIOUS
  <2>2. \A j \in 1..i : CountedBy(j, r)' = CountedBy(j, r) /\ admitted'[j] = admitted[j]
    BY <1>3, <2>1 DEF CountedBy, RulesOf
  <2>3. CountedBy(i, r)' = CountedBy(i, r) /\ admitted'[i] = admitted[i]
    <3>1. i \in 1..i
      OBVIOUS
    <3> QED
      BY <2>2, <3>1
  <2>4. RulesOf(admitted[i].event)' = RulesOf(admitted[i].event)
    BY <2>3 DEF RulesOf
  <2> QED
    BY <2>2, <2>3, <2>4 DEF Rivals
<1>14. RateRespected'
  <2>1. ASSUME NEW i \in 1..(n + 1), NEW r \in DOMAIN RulesOf(admitted'[i].event)
        PROVE  Cardinality(Rivals(i, r)') <= RulesOf(admitted'[i].event)[r].limit
    <3>1. CASE i = n + 1
      BY <1>1, <1>3, <1>12, <3>1
    <3>2. CASE i # n + 1
      <4>1. i \in 1..n
        BY <3>2
      <4> QED
        BY <1>2, <1>3, <1>13, <4>1, RivalsMeaning DEF Rates
    <3> QED
      BY <3>1, <3>2
  <2>2. \A i \in DOMAIN admitted' : \A r \in DOMAIN RulesOf(admitted[i].event)' :
            Cardinality(Rivals(i, r))' <= RulesOf(admitted[i].event)'[r].limit
    BY <1>3, <2>1, RulesStay
  <2> QED
    BY <2>2 DEF RateRespected, Rivals
<1>15. \A b \in DOMAIN buckets' : buckets'[b] \in Seq(Nat)
  BY AskLemma
<1> QED
  BY <1>11, <1>14, <1>15, RulesStay DEF Rates

LEMMA RatesInvariant == PubInv /\ Rates /\ [Next]_vars => Rates'
<1> SUFFICES ASSUME PubInv, Rates, [Next]_vars PROVE Rates'
  OBVIOUS
<1>1. clock \in Nat
  BY Clocked
<1>2. ASSUME NEW c \in Conn, Client(c) \/ Server(c) PROVE Rates'
  <2>1. UNCHANGED <<settings, clock, buckets, admitted>>
    BY <1>2 DEF Client, Server, EventMsg, AuthMsg, Disconnect, Submit, SendNotice,
                SendBroadcast, SendResult, Stick, channels, history
  <2> QED
    BY <1>1, <2>1, RatesFrame
<1>3. CASE Judge
  <2>1. PICK job \in Submission :
            /\ UNCHANGED <<settings, clock>>
            /\ \/ UNCHANGED <<buckets, admitted>>
               \/ RefuseByRate(job)
               \/ Admit(job)
    BY <1>3, HeadAndTail, Capacities DEF Judge, Refuse, PubInv, Channels
  <2>2. CASE UNCHANGED <<buckets, admitted>>
    BY <1>1, <2>1, <2>2, RatesFrame
  <2>3. CASE RefuseByRate(job)
    BY <2>1, <2>3, RatesRefused DEF RefuseByRate
  <2>4. CASE Admit(job)
    BY <2>1, <2>4, RatesAdmitted DEF Admit
  <2> QED
    BY <2>1, <2>2, <2>3, <2>4
<1>4. CASE \/ Write \/ LoopTop \/ Stall \/ Charge \/ Wake \/ ChannelCloses \/ Shutdown
           \/ UNCHANGED vars
  <2>1. UNCHANGED <<settings, clock, buckets, admitted>>
    BY <1>4 DEF Write, LoopTop, Stall, Charge, Wake, ChannelCloses, Shutdown, vars, channels, history
  <2> QED
    BY <1>1, <2>1, RatesFrame
<1>5. CASE Tick
  <2>1. UNCHANGED <<settings, buckets, admitted>> /\ clock' = clock + 1
    BY <1>5 DEF Tick, history
  <2> QED
    BY <1>1, <2>1, RatesFrame
<1> QED
  BY <1>2, <1>3, <1>4, <1>5 DEF Next, Writer

-----------------------------------------------------------------------------
(* Theorems. *)

\* The invariant of publishing: the identity of a connection is that of a key that signed
\* for it, and one that a submission carries through the channel had signed before it was
\* submitted.
THEOREM PublishInvariant == Spec => []PubInv
<1> QED
  BY InitLemma, StepLemma, PTL DEF Spec

\* Connections, channels and the writer are well typed and within their capacities:
\* try_send and the broadcast ring never hold more than they have room for, and every
\* answer has one of the statuses a client knows.
THEOREM PublishTypes == Spec => []TypeOK
<1>1. PubInv => TypeOK
  BY DEF PubInv, Control, Connections, Channels, Records, Busy, UpTo, TypeOK
<1> QED
  BY <1>1, PublishInvariant, PTL

\* db_writer lets an event of a kind with write rules through only when they allow it
\* (require_auth, script, deny, allow) for a key proved over the submitting connection
\* before the submission, or for no key where they ask for none.  A list that names the
\* author allows it whoever submits.
THEOREM OnlyEntitledPublish == Spec => []PublishedByEntitled
<1> QED
  BY SafeMeans, PublishInvariant, PTL

\* allowed_to_send lets an event reach a client only when the read rules of its kind and
\* those for direct messages allow it for a key proved over that connection, or for no key
\* where they ask for none, and never after it expired.  A list that names the author
\* allows it for everybody, although the documentation says everybody else is denied.
THEOREM OnlyEntitledReceive == Spec => []SentOnlyToEntitled
<1> QED
  BY SafeMeans, PublishInvariant, PTL

\* notices of db_writer and replies of the connection are right: OK true stands for an
\* event that was broadcast, or that its author has replaced or deleted, unless the
\* operator gave a refusal a text that begins with "duplicate: ".
THEOREM AcceptingAnswersTrue == Spec => [](Truthful => AnswersTrue)
<1>1. Init => Truth
  <2> SUFFICES ASSUME Init, NEW c \in Conn
               PROVE  told[c] \subseteq Right /\ notices[c] \in UpTo(Right, NoticeCap)
    BY DEF Truth, Init
  <2> QED
    BY Emptied, Capacities DEF Init
<1>2. Truth => (Truthful => AnswersTrue)
  <2> SUFFICES ASSUME Truth, Truthful, NEW c \in Conn,
                      NEW a \in told[c] \cup ToSet(notices[c]),
                      a.id \in Event, a.status \in Accepting
               PROVE  a.id \in aired \/ Superseded(a.id) \/ DeletionStored(a.id)
    BY DEF AnswersTrue
  <2>1. told[c] \subseteq Right /\ ToSet(notices[c]) \subseteq Right
    BY ElementOfSeq, LenProperties DEF Truth, UpTo, ToSet
  <2> QED
    BY <2>1 DEF Right, Settled
<1> QED
  BY <1>1, <1>2, TruthInvariant, PublishInvariant, PTL DEF Spec

\* The sliding windows of kinds.json hold for every rule of every kind, whatever its
\* limit, window and scope, and however the rules before and after it decide: whenever
\* db_writer lets an event through, the limiter of each rule holds a time of its own for
\* every event of that window it has let through before.
THEOREM WindowsHold == Spec => []RateRespected
<1>1. Init => Rates
  <2> SUFFICES ASSUME Init PROVE Rates
    OBVIOUS
  <2>1. DOMAIN buckets = {} /\ admitted = <<>> /\ DOMAIN admitted = {}
    BY DEF Init
  <2>2. RateRespected
    BY <2>1 DEF RateRespected
  <2>3. \A job, r : Placed(Alive(job, r), Recorded, TimesOf(BucketOf(job, r)))
    <3> SUFFICES ASSUME NEW job, NEW r
                 PROVE  Placed(Alive(job, r), Recorded, TimesOf(BucketOf(job, r)))
      OBVIOUS
    <3>1. Alive(job, r) = {}
      BY <2>1 DEF Alive
    <3>2. \A S : [j \in {} |-> j] \in Injection({}, S)
      BY DEF Injection, IsInjective
    <3> QED
      BY <3>1, <3>2 DEF Placed
  <2> QED
    BY <2>1, <2>2, <2>3 DEF Rates
<1>2. Rates => RateRespected
  BY DEF Rates
<1> QED
  BY <1>1, <1>2, RatesInvariant, PublishInvariant, PTL DEF Spec

=============================================================================
