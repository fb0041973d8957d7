---------------------------- MODULE Verification ----------------------------
(***************************************************************************)
(* NIP-05 verification: the verifier task, its table, the web servers it   *)
(* asks, and the database writer, which admits events according to the     *)
(* table and passes profiles on to the verifier.                           *)
(*                                                                         *)
(* A record of the table cites the event of a profile and has its name     *)
(* (user@domain).  It goes with the event, by the foreign key, and when    *)
(* another record of the name is created, so that an event is cited at     *)
(* most once and the table is a function of events.  Only the verifier     *)
(* writes the table, one step after another, but the writer replaces       *)
(* profiles at any time.                                                   *)
(*                                                                         *)
(* A request to a web server has 5 seconds for the headers of the answer   *)
(* and no limit for its body: a server that stops after the headers stops  *)
(* the verifier.                                                           *)
(*                                                                         *)
(* Time is abstracted to what may have passed: a record may be due for a   *)
(* check at any time, and a confirmation may have lapsed at any time.      *)
(* Left out: profiles that expire or are deleted, the other rules of the   *)
(* writer, a database that cannot be read.                                 *)
(***************************************************************************)
EXTENDS Naturals, Sequences

CONSTANTS
    Author, Name,
    Id,               \* events
    Content,          \* their content
    NoName,           \* name of a profile without a usable nip05 field
    Silent,           \* what a web server that gives no usable answer says
    Denials,          \* sets of names the configuration may deny the domains of
    MaxFailures,      \* max_consecutive_failures
    QueueCap,         \* capacity of the metadata channel
    MaxDisruptions    \* bound on restarts and database errors

ASSUME VerificationAssumption ==
    /\ NoName \notin Name
    /\ Silent \notin Author
    /\ Denials \subseteq SUBSET Name
    /\ MaxFailures \in Nat /\ QueueCap \in Nat \ {0} /\ MaxDisruptions \in Nat
    /\ Content \in [Id -> [author : Author, metadata : BOOLEAN, created_at : Nat,
                           name : Name \cup {NoName}]]

AuthorOf(e) == Content[e].author
CreatedAt(e) == Content[e].created_at
NameOf(e) == Content[e].name
IsMetadata(e) == Content[e].metadata

VARIABLES
    config,       \* mode and denied names, fixed while the relay runs
    profile,      \* author -> the stored metadata event
    record,       \* event -> row of user_verification that cites it
    queue,        \* the metadata channel
    task,         \* what the verifier is doing
    writer,       \* the event the writer has admitted but not written
    rejected,     \* the event last taken is a profile that was refused (history)
    web,          \* name -> author it belongs to (any other, if none), or Silent
    confirmed,    \* authors and names: confirmations that still count (history)
    disruptions

tables == <<profile, record>>
vars == <<config, tables, queue, task, writer, rejected, web, confirmed, disruptions>>

Mode == {"passive", "enabled"}
Idle == [step |-> "idle"]
Waiting == [step |-> "waiting"]     \* for the body of an answer, without end
Metadata == {e \in Id : IsMetadata(e)}
Answer == Author \cup {Silent}
Row == [current : BOOLEAN, failures : 0..MaxFailures]

\* What the verifier is doing for a candidate and for a record.
Asking == [step : {"candidate", "persist", "create"}, event : Metadata]
Checking == [step : {"recheck", "renew", "fail", "drop"}, event : Metadata,
             failures : 0..MaxFailures]

TableTypes ==
    /\ DOMAIN profile \subseteq Author
    /\ \A a \in DOMAIN profile : profile[a] \in Metadata /\ AuthorOf(profile[a]) = a
    /\ DOMAIN record \subseteq Metadata
    /\ \A e \in DOMAIN record : record[e] \in Row /\ NameOf(e) \in Name

TypeOK ==
    /\ config \in [mode : Mode, denied : Denials]
    /\ TableTypes
    /\ queue \in Seq(Metadata) /\ Len(queue) <= QueueCap
    /\ task \in {Idle, Waiting} \cup Asking \cup Checking
    /\ writer \in {Idle} \cup [step : {"write"}, event : Id]
    /\ rejected \in BOOLEAN
    /\ web \in [Name -> Answer]
    /\ confirmed \subseteq Author \X Name
    /\ disruptions \in Nat

Init ==
    /\ config \in [mode : Mode, denied : Denials]
    /\ profile = <<>> /\ record = <<>>
    /\ queue = <<>>
    /\ task = Idle /\ writer = Idle
    /\ rejected = FALSE
    /\ web \in [Name -> Answer]
    /\ confirmed = {}
    /\ disruptions = 0

With(f, i, x) == [j \in DOMAIN f \cup {i} |-> IF j = i THEN x ELSE f[j]]
Without(f, S) == [j \in DOMAIN f \ S |-> f[j]]

-----------------------------------------------------------------------------
(* write_event, as far as profiles are concerned. *)

Newer(e) ==
    /\ IsMetadata(e)
    /\ AuthorOf(e) \in DOMAIN profile => CreatedAt(profile[AuthorOf(e)]) < CreatedAt(e)

\* Mutant: the foreign key does not cascade.
StoreWithoutCascade(e) ==
    IF Newer(e) THEN profile' = With(profile, AuthorOf(e), e) /\ UNCHANGED record
    ELSE UNCHANGED tables

\* A newer profile replaces the stored one, and the record that cites it goes too.
Store(e) ==
    IF Newer(e)
    THEN /\ profile' = With(profile, AuthorOf(e), e)
         /\ record' = Without(record, {profile[a] : a \in DOMAIN profile \cap {AuthorOf(e)}})
    ELSE UNCHANGED tables

-----------------------------------------------------------------------------
(* The database writer. *)

Latest(a) ==
    {e \in DOMAIN record : /\ AuthorOf(e) = a
                           /\ \A f \in DOMAIN record :
                                 AuthorOf(f) = a => CreatedAt(f) <= CreatedAt(e)}

\* Mutant: the age of the last confirmation is not looked at.
IsValidAtAnyAge(a) == \E e \in Latest(a) : NameOf(e) \notin config.denied

IsValid(a) == \E e \in Latest(a) : record[e].current /\ NameOf(e) \notin config.denied

\* The metadata channel overwrites its oldest event when it is full.
Forward(e) ==
    queue' = IF ~IsMetadata(e) THEN queue
             ELSE IF Len(queue) < QueueCap THEN Append(queue, e)
             ELSE Append(Tail(queue), e)

\* The event passes and, if it is a profile, the verifier is told.
Admit(e) ==
    /\ writer = Idle
    /\ config.mode = "enabled" => IsValid(AuthorOf(e))
    /\ Forward(e)
    /\ writer' = [step |-> "write", event |-> e]
    /\ rejected' = FALSE
    /\ UNCHANGED <<config, tables, task, web, confirmed, disruptions>>

Refuse(e) ==
    /\ writer = Idle
    /\ config.mode = "enabled" /\ ~IsValid(AuthorOf(e))
    /\ rejected' = IsMetadata(e)
    /\ UNCHANGED <<config, tables, queue, task, writer, web, confirmed, disruptions>>

Write ==
    /\ writer.step = "write"
    /\ Store(writer.event)
    /\ writer' = Idle
    /\ UNCHANGED <<config, queue, task, rejected, web, confirmed, disruptions>>

WriteFails ==
    /\ writer.step = "write"
    /\ disruptions < MaxDisruptions
    /\ disruptions' = disruptions + 1
    /\ writer' = Idle
    /\ UNCHANGED <<config, tables, queue, task, rejected, web, confirmed>>

-----------------------------------------------------------------------------
(* The verifier: candidates. *)

verifierKeeps == <<config, writer, rejected, web, disruptions>>

\* Profiles without a name and those not newer than the one that verified the
\* author are dropped.
Receive ==
    /\ task = Idle
    /\ queue # <<>>
    /\ LET e == Head(queue) IN
       task' = IF NameOf(e) = NoName
                  \/ \E f \in Latest(AuthorOf(e)) : CreatedAt(e) <= CreatedAt(f)
               THEN Idle
               ELSE [step |-> "candidate", event |-> e]
    /\ queue' = Tail(queue)
    /\ UNCHANGED <<verifierKeeps, tables, confirmed>>

\* What asking the server of the event's name for its author results in.
Status(e) ==
    IF NameOf(e) \in config.denied \/ web[NameOf(e)] = Silent THEN "unknown"
    ELSE IF web[NameOf(e)] = AuthorOf(e) THEN "verified"
    ELSE "unverified"

\* The server's answer about a candidate, or the end of the time for one.
CandidateChecked ==
    /\ task.step = "candidate"
    /\ task' = IF Status(task.event) # "verified" THEN Idle
               ELSE [task EXCEPT !.step =
                         IF config.mode = "enabled" THEN "persist" ELSE "create"]
    /\ UNCHANGED <<verifierKeeps, tables, queue, confirmed>>

\* In enabled mode the verifier writes the event itself, and goes on if that fails:
\* what follows is then as if the event were old, or as in VerifierFails.
Persist ==
    /\ task.step = "persist"
    /\ Store(task.event)
    /\ task' = [task EXCEPT !.step = "create"]
    /\ UNCHANGED <<verifierKeeps, queue, confirmed>>

NewRow == [current |-> TRUE, failures |-> 0]
OfName(x) == {e \in DOMAIN record : NameOf(e) = x}
Confirm(e) ==
    confirmed' = {c \in confirmed : c[2] # NameOf(e)} \cup {<<AuthorOf(e), NameOf(e)>>}

\* Mutant: the record does not depend on the event's row.
CreateUnlinked ==
    LET e == task.event IN
    /\ task.step = "create"
    /\ record' = With(Without(record, OfName(NameOf(e))), e, NewRow)
    /\ Confirm(e)
    /\ task' = Idle
    /\ UNCHANGED <<verifierKeeps, profile, queue>>

\* Mutant: the other records of the name stay.
CreateKeepsOthers ==
    LET e == task.event IN
    /\ task.step = "create"
    /\ IF AuthorOf(e) \in DOMAIN profile /\ profile[AuthorOf(e)] = e
       THEN record' = With(record, e, NewRow) /\ Confirm(e)
       ELSE UNCHANGED <<record, confirmed>>
    /\ task' = Idle
    /\ UNCHANGED <<verifierKeeps, profile, queue>>

\* A record is inserted, and any other of the name deleted.  The insertion fails when
\* the event is not, or no longer, stored.
Create ==
    LET e == task.event IN
    /\ task.step = "create"
    /\ IF AuthorOf(e) \in DOMAIN profile /\ profile[AuthorOf(e)] = e
       THEN record' = With(Without(record, OfName(NameOf(e))), e, NewRow) /\ Confirm(e)
       ELSE UNCHANGED <<record, confirmed>>
    /\ task' = Idle
    /\ UNCHANGED <<verifierKeeps, profile, queue>>

-----------------------------------------------------------------------------
(* The verifier: records that are due for a check. *)

Recheck(e) ==
    /\ task = Idle
    /\ e \in DOMAIN record
    /\ task' = [step |-> "recheck", event |-> e, failures |-> record[e].failures]
    /\ UNCHANGED <<verifierKeeps, tables, queue, confirmed>>

\* Mutant: a failure more is counted than allowed.
RecheckedOnceMore ==
    /\ task.step = "recheck"
    /\ task' = [task EXCEPT !.step =
                    CASE Status(task.event) = "verified"   -> "renew"
                      [] Status(task.event) = "unverified" -> "drop"
                      [] OTHER -> IF task.failures > MaxFailures THEN "drop" ELSE "fail"]
    /\ UNCHANGED <<verifierKeeps, tables, queue, confirmed>>

\* Mutant: the failures are counted and never looked at.
RecheckedForEver ==
    /\ task.step = "recheck"
    /\ task' = [task EXCEPT !.step =
                    CASE Status(task.event) = "verified"   -> "renew"
                      [] Status(task.event) = "unverified" -> "drop"
                      [] OTHER -> IF task.failures >= MaxFailures THEN "renew" ELSE "fail"]
    /\ UNCHANGED <<verifierKeeps, tables, queue, confirmed>>

Rechecked ==
    /\ task.step = "recheck"
    /\ task' = [task EXCEPT !.step =
                    CASE Status(task.event) = "verified"   -> "renew"
                      [] Status(task.event) = "unverified" -> "drop"
                      [] OTHER -> IF task.failures >= MaxFailures THEN "drop" ELSE "fail"]
    /\ UNCHANGED <<verifierKeeps, tables, queue, confirmed>>

\* The three updates address a row by its id: they change nothing when it is gone.
Renew ==
    /\ task.step = "renew"
    /\ IF task.event \in DOMAIN record
       THEN record' = [record EXCEPT ![task.event] = NewRow] /\ Confirm(task.event)
       ELSE UNCHANGED <<record, confirmed>>
    /\ task' = Idle
    /\ UNCHANGED <<verifierKeeps, profile, queue>>

Fail ==
    /\ task.step = "fail"
    /\ record' = IF task.event \in DOMAIN record
                 THEN [record EXCEPT ![task.event].failures = @ + 1] ELSE record
    /\ task' = Idle
    /\ UNCHANGED <<verifierKeeps, profile, queue, confirmed>>

Drop ==
    /\ task.step = "drop"
    /\ record' = Without(record, {task.event})
    /\ confirmed' = confirmed \ {<<AuthorOf(task.event), NameOf(task.event)>>}
    /\ task' = Idle
    /\ UNCHANGED <<verifierKeeps, profile, queue>>

\* A query or an update of the verifier fails: it starts its loop again.
VerifierFails ==
    /\ task \notin {Idle, Waiting}
    /\ disruptions < MaxDisruptions
    /\ disruptions' = disruptions + 1
    /\ task' = Idle
    /\ UNCHANGED <<config, tables, queue, writer, rejected, web, confirmed>>

\* The server sends the headers of its answer, and nothing after them.
Stall ==
    /\ task.step \in {"candidate", "recheck"}
    /\ NameOf(task.event) \notin config.denied
    /\ task' = Waiting
    /\ UNCHANGED <<verifierKeeps, tables, queue, confirmed>>

-----------------------------------------------------------------------------

\* verify_expiration has passed since the name was last confirmed.
Lapse(a, x) ==
    /\ <<a, x>> \in confirmed
    /\ confirmed' = confirmed \ {<<a, x>>}
    /\ record' = [e \in DOMAIN record |->
                     [record[e] EXCEPT !.current = @ /\ <<AuthorOf(e), NameOf(e)>> # <<a, x>>]]
    /\ UNCHANGED <<config, profile, queue, task, writer, rejected, web, disruptions>>

WebChanges(x) ==
    /\ web' \in {[web EXCEPT ![x] = s] : s \in Answer \ {web[x]}}
    /\ UNCHANGED <<config, tables, queue, task, writer, rejected, confirmed, disruptions>>

\* The relay is stopped, or crashes, and starts with another configuration.
Restart ==
    /\ disruptions < MaxDisruptions
    /\ disruptions' = disruptions + 1
    /\ config' \in [mode : Mode, denied : Denials]
    /\ queue' = <<>> /\ task' = Idle /\ writer' = Idle /\ rejected' = FALSE
    /\ UNCHANGED <<tables, web, confirmed>>

Verifier ==
    \/ Receive \/ CandidateChecked \/ Persist \/ Create
    \/ Rechecked \/ Renew \/ Fail \/ Drop

Next ==
    \/ \E e \in Id : Admit(e) \/ Refuse(e) \/ Recheck(e)
    \/ Write \/ WriteFails
    \/ Verifier \/ VerifierFails \/ Stall
    \/ \E x \in Name : WebChanges(x)
    \/ \E a \in Author, x \in Name : Lapse(a, x)
    \/ Restart

Spec == Init /\ [][Next]_vars

\* The verifier is scheduled, unless it waits for a body.  Its select! picks a ready
\* branch at random, and takes the record that has waited longest, so that every record
\* gets its turn.
FairSpec == Spec /\ WF_vars(Verifier) /\ \A e \in Metadata : SF_vars(Recheck(e))

-----------------------------------------------------------------------------
(* Properties. *)

Valid(e) == e \in DOMAIN record /\ record[e].current

\* A row that becomes valid, because it is created or renewed, cites the profile its author
\* has at that moment: what the web says of a profile that the writer replaced while the
\* verifier waited never counts.
LateAnswersDoNotCount ==
    [][\A e \in Metadata : ~Valid(e) /\ Valid(e)' =>
           AuthorOf(e) \in DOMAIN profile' /\ profile'[AuthorOf(e)] = e]_vars

\* A name vouches for one author at most, the one its server last confirmed, even when
\* it passed from one author to another since.
OneAuthorPerName ==
    \A e, f \in DOMAIN record : NameOf(e) = NameOf(f) => AuthorOf(e) = AuthorOf(f)

\* In enabled mode an event is admitted only if the web confirmed its author under a
\* name that is not denied, and since then the confirmation has neither expired nor
\* been revoked nor been given up.
OnlyVerifiedAdmitted ==
    [][writer = Idle /\ writer' # Idle /\ config.mode = "enabled" =>
           \E x \in Name \ config.denied : <<AuthorOf(writer'.event), x>> \in confirmed]_vars

(* The parts of the inductive invariant behind the theorems. *)

\* The foreign key keeps the table of records and the stored profiles together.
RecordCitesProfile ==
    \A e \in DOMAIN record : AuthorOf(e) \in DOMAIN profile /\ profile[AuthorOf(e)] = e

CurrentIsConfirmed ==
    \A e \in DOMAIN record :
        record[e].current => <<AuthorOf(e), NameOf(e)>> \in confirmed

CandidateNamed == task \in Asking => NameOf(task.event) \in Name

\* While the verifier checks a record its author has no other, and only its failures
\* still count as read: the record may have gone with its profile.
RecordUnderCheck ==
    task \in Checking =>
        /\ task.step = "fail" => task.failures < MaxFailures
        /\ \A e \in DOMAIN record : AuthorOf(e) = AuthorOf(task.event) =>
              e = task.event /\ record[e].failures = task.failures

VerInv ==
    /\ TypeOK
    /\ RecordCitesProfile /\ OneAuthorPerName /\ CurrentIsConfirmed
    /\ CandidateNamed /\ RecordUnderCheck

\* The name of a web server that has gone for good is forgotten, unless the verifier waits
\* for ever for the body of some answer.
ForgetsTheSilent ==
    \A x \in Name :
        <>[](web[x] = Silent) => <>[](OfName(x) = {}) \/ <>[](task = Waiting)

\* Where the web confirms every profile, an author whose profile is refused for want of
\* a verification becomes a candidate for one, and some author is verified at last.
CandidatesGetVerified ==
    [](config.mode = "enabled" /\ \A e \in Metadata : Status(e) = "verified")
        => (rejected ~> confirmed # {})

=============================================================================
