------------------------ MODULE Verification_proofs ------------------------
(* Theorems about NIP-05 verification, for any profiles and configuration. *)
EXTENDS Verification, SequenceTheorems, TLAPS

-----------------------------------------------------------------------------
(* Events, tasks and tables. *)

LEMMA Fields ==
    ASSUME NEW e \in Id
    PROVE  /\ AuthorOf(e) \in Author /\ NameOf(e) \in Name \cup {NoName}
           /\ CreatedAt(e) \in Nat /\ IsMetadata(e) \in BOOLEAN
<1>1. Content[e] \in [author : Author, metadata : BOOLEAN, created_at : Nat,
                      name : Name \cup {NoName}]
  BY VerificationAssumption
<1> QED
  BY <1>1 DEF AuthorOf, NameOf, CreatedAt, IsMetadata

LEMMA TaskKinds ==
    /\ \A t \in {Idle, Waiting} : t \notin Asking /\ t \notin Checking
    /\ \A t \in Asking : /\ t.step \in {"candidate", "persist", "create"}
                         /\ t.event \in Metadata /\ t \notin Checking
    /\ \A t \in Checking : /\ t.step \in {"recheck", "renew", "fail", "drop"}
                           /\ t.event \in Metadata /\ t.failures \in 0..MaxFailures
BY DEF Idle, Waiting, Asking, Checking

LEMMA StepKinds ==
    ASSUME TypeOK
    PROVE  /\ task.step \in {"candidate", "persist", "create"} => task \in Asking
           /\ task.step \in {"recheck", "renew", "fail", "drop"} => task \in Checking
BY TaskKinds DEF TypeOK, Idle, Waiting

\* What a step that leaves the tables and the confirmations alone has to show.
LEMMA TaskStep ==
    ASSUME VerInv, UNCHANGED <<tables, confirmed>>,
           config' \in [mode : Mode, denied : Denials],
           queue' \in Seq(Metadata) /\ Len(queue') <= QueueCap,
           writer' \in {Idle} \cup [step : {"write"}, event : Id],
           rejected' \in BOOLEAN, web' \in [Name -> Answer], disruptions' \in Nat,
           task' \in {Idle, Waiting, task} \/ (task' \in Asking /\ CandidateNamed')
                                  \/ (task' \in Checking /\ RecordUnderCheck')
    PROVE  VerInv'
<1> USE DEF VerInv
<1>1. task' \in {Idle, Waiting} \cup Asking \cup Checking
  BY DEF TypeOK
<1>2. TypeOK'
  BY <1>1 DEF TypeOK, TableTypes, tables
<1>3. RecordCitesProfile' /\ OneAuthorPerName' /\ CurrentIsConfirmed'
  BY DEF RecordCitesProfile, OneAuthorPerName, CurrentIsConfirmed, tables
<1>4. CandidateNamed'
  BY TaskKinds DEF CandidateNamed
<1>5. RecordUnderCheck'
  BY TaskKinds DEF RecordUnderCheck, tables
<1> QED
  BY <1>2, <1>3, <1>4, <1>5

\* A profile is written by the writer or the verifier: the record of the one it
\* replaces goes, the others cite profiles that stay.
LEMMA StoreLemma ==
    ASSUME VerInv, NEW e \in Id, Store(e), UNCHANGED confirmed
    PROVE  /\ TableTypes' /\ RecordCitesProfile' /\ OneAuthorPerName'
           /\ CurrentIsConfirmed'
           /\ DOMAIN record' \subseteq DOMAIN record
           /\ \A f \in DOMAIN record' : record'[f] = record[f]
<1> USE DEF VerInv
<1>1. CASE Newer(e)
  <2> DEFINE gone == {profile[a] : a \in DOMAIN profile \cap {AuthorOf(e)}}
  <2>1. profile' = With(profile, AuthorOf(e), e) /\ record' = Without(record, gone)
    BY <1>1 DEF Store
  <2>2. /\ DOMAIN record' = DOMAIN record \ gone
        /\ \A f \in DOMAIN record' : record'[f] = record[f]
    BY <2>1 DEF Without
  <2>3. /\ DOMAIN profile' = DOMAIN profile \cup {AuthorOf(e)}
        /\ profile'[AuthorOf(e)] = e
        /\ \A a \in DOMAIN profile \ {AuthorOf(e)} : profile'[a] = profile[a]
    BY <2>1 DEF With
  <2>4. AuthorOf(e) \in Author /\ e \in Metadata
    BY <1>1, Fields DEF Newer, Metadata
  <2>5. TableTypes'
    BY <2>2, <2>3, <2>4 DEF TypeOK, TableTypes
  <2>6. RecordCitesProfile'
    <3> SUFFICES ASSUME NEW f \in DOMAIN record'
                 PROVE  AuthorOf(f) \in DOMAIN profile' /\ profile'[AuthorOf(f)] = f
      BY DEF RecordCitesProfile
    <3>1. AuthorOf(f) \in DOMAIN profile /\ profile[AuthorOf(f)] = f /\ f \notin gone
      BY <2>2 DEF RecordCitesProfile
    <3> QED
      BY <2>3, <3>1
  <2>7. OneAuthorPerName' /\ CurrentIsConfirmed'
    BY <2>2 DEF OneAuthorPerName, CurrentIsConfirmed
  <2> QED
    BY <2>2, <2>5, <2>6, <2>7
<1>2. CASE ~Newer(e)
  BY <1>2 DEF Store, tables, TypeOK, TableTypes, RecordCitesProfile, OneAuthorPerName,
              CurrentIsConfirmed
<1> QED
  BY <1>1, <1>2

\* What remains to show of a step that stores a profile.
LEMMA StoreStep ==
    ASSUME VerInv, NEW e \in Id, Store(e),
           UNCHANGED <<config, queue, rejected, web, confirmed, disruptions>>,
           writer' \in {Idle, writer},
           \/ task' = task
           \/ task' \in Asking /\ CandidateNamed'
    PROVE  VerInv'
<1> USE DEF VerInv
<1>1. /\ TableTypes' /\ RecordCitesProfile' /\ OneAuthorPerName' /\ CurrentIsConfirmed'
      /\ DOMAIN record' \subseteq DOMAIN record
      /\ \A f \in DOMAIN record' : record'[f] = record[f]
  BY StoreLemma
<1>2. TypeOK'
  BY <1>1 DEF TypeOK
<1>3. CandidateNamed'
  BY DEF CandidateNamed
<1>4. RecordUnderCheck'
  <2>1. CASE task' = task
    BY <1>1, <2>1 DEF RecordUnderCheck
  <2>2. CASE task' \in Asking
    BY <2>2, TaskKinds DEF RecordUnderCheck
  <2> QED
    BY <2>1, <2>2
<1> QED
  BY <1>1, <1>2, <1>3, <1>4

-----------------------------------------------------------------------------
(* The writer. *)

LEMMA ForwardLemma ==
    ASSUME queue \in Seq(Metadata), Len(queue) <= QueueCap, NEW e \in Id, Forward(e)
    PROVE  queue' \in Seq(Metadata) /\ Len(queue') <= QueueCap
<1>1. CASE ~IsMetadata(e)
  BY <1>1 DEF Forward
<1>2. CASE IsMetadata(e) /\ Len(queue) < QueueCap
  BY <1>2, AppendProperties, VerificationAssumption DEF Forward, Metadata
<1>3. CASE IsMetadata(e) /\ ~(Len(queue) < QueueCap)
  <2>1. queue # <<>> /\ Len(queue) = QueueCap
    BY <1>3, VerificationAssumption
  <2>2. Tail(queue) \in Seq(Metadata) /\ Len(Tail(queue)) = QueueCap - 1
    BY <2>1, HeadTailProperties
  <2> QED
    BY <1>3, <2>2, AppendProperties, VerificationAssumption DEF Forward, Metadata
<1> QED
  BY <1>1, <1>2, <1>3

LEMMA WriterStep ==
    ASSUME VerInv, \/ \E e \in Id : Admit(e) \/ Refuse(e)
                   \/ Write \/ WriteFails
    PROVE  VerInv'
<1> USE DEF VerInv
<1>1. ASSUME NEW e \in Id, Admit(e) PROVE VerInv'
  <2>1. queue' \in Seq(Metadata) /\ Len(queue') <= QueueCap
    BY <1>1, ForwardLemma DEF Admit, TypeOK
  <2>2. writer' \in [step : {"write"}, event : Id]
    BY <1>1 DEF Admit
  <2> QED
    BY <1>1, <2>1, <2>2, TaskStep DEF Admit, TypeOK
<1>2. ASSUME NEW e \in Id, Refuse(e) PROVE VerInv'
  BY <1>2, TaskStep, Fields DEF Refuse, TypeOK
<1>3. CASE Write
  <2>1. writer.event \in Id
    BY <1>3 DEF Write, TypeOK, Idle
  <2> QED
    BY <1>3, <2>1, StoreStep DEF Write
<1>4. CASE WriteFails
  BY <1>4, TaskStep DEF WriteFails, TypeOK
<1> QED
  BY <1>1, <1>2, <1>3, <1>4

-----------------------------------------------------------------------------
(* The verifier. *)

LEMMA ReceiveStep == ASSUME VerInv, Receive PROVE VerInv'
<1> USE DEF VerInv
<1>1. /\ Head(queue) \in Metadata
      /\ queue' \in Seq(Metadata) /\ Len(queue') <= QueueCap
  BY HeadTailProperties, VerificationAssumption DEF Receive, TypeOK
<1>2. task' = Idle \/ (task' \in Asking /\ CandidateNamed')
  <2>1. CASE task' = [step |-> "candidate", event |-> Head(queue)] /\ NameOf(Head(queue)) # NoName
    BY <1>1, <2>1, Fields DEF Asking, CandidateNamed, Metadata
  <2> QED
    BY <2>1 DEF Receive
<1> QED
  BY <1>1, <1>2, TaskStep DEF Receive, TypeOK, verifierKeeps

LEMMA CandidateStep ==
    ASSUME VerInv, CandidateChecked \/ Persist
    PROVE  VerInv'
<1> USE DEF VerInv
<1>1. task \in Asking
  BY StepKinds DEF CandidateChecked, Persist
<1>2. task.event \in Id /\ NameOf(task.event) \in Name
  BY <1>1, TaskKinds DEF CandidateNamed, Metadata
<1>3. ASSUME NEW s \in {"persist", "create"}, task' = [task EXCEPT !.step = s]
      PROVE  task' \in Asking /\ CandidateNamed'
  BY <1>1, <1>2, <1>3 DEF Asking, CandidateNamed
<1>4. CASE CandidateChecked
  BY <1>3, <1>4, TaskStep DEF CandidateChecked, TypeOK, verifierKeeps
<1>5. CASE Persist
  BY <1>2, <1>3, <1>5, StoreStep DEF Persist, verifierKeeps
<1> QED
  BY <1>4, <1>5

LEMMA RecheckStep ==
    ASSUME VerInv, (\E e \in Id : Recheck(e)) \/ Rechecked
    PROVE  VerInv'
<1> USE DEF VerInv
<1>1. ASSUME NEW e \in Id, Recheck(e) PROVE VerInv'
  <2>1. task' \in Checking
    BY <1>1 DEF Recheck, Checking, TypeOK, TableTypes, Row
  <2>2. RecordUnderCheck'
    BY <1>1 DEF Recheck, RecordUnderCheck, RecordCitesProfile, tables
  <2> QED
    BY <1>1, <2>1, <2>2, TaskStep DEF Recheck, TypeOK, verifierKeeps
<1>2. CASE Rechecked
  <2>1. task \in Checking
    BY <1>2, StepKinds DEF Rechecked
  <2>2. PICK s \in {"renew", "drop", "fail"} :
           /\ task' = [task EXCEPT !.step = s]
           /\ s = "fail" => ~(task.failures >= MaxFailures)
    BY <1>2 DEF Rechecked
  <2>3. task' \in Checking /\ task'.event = task.event /\ task'.failures = task.failures
        /\ task'.step = s
    BY <2>1, <2>2 DEF Checking
  <2>4. RecordUnderCheck'
    BY <1>2, <2>1, <2>2, <2>3, VerificationAssumption
       DEF Rechecked, RecordUnderCheck, tables, Checking
  <2> QED
    BY <1>2, <2>3, <2>4, TaskStep DEF Rechecked, TypeOK, verifierKeeps
<1> QED
  BY <1>1, <1>2

\* What a step of the verifier that changes a record has to show.
LEMMA RecordStep ==
    ASSUME VerInv, task' = Idle, UNCHANGED <<verifierKeeps, profile, queue>>,
           TableTypes', confirmed' \subseteq Author \X Name,
           RecordCitesProfile', OneAuthorPerName', CurrentIsConfirmed'
    PROVE  VerInv'
<1>1. TypeOK'
  BY DEF VerInv, TypeOK, verifierKeeps
<1>2. CandidateNamed' /\ RecordUnderCheck'
  BY TaskKinds DEF CandidateNamed, RecordUnderCheck
<1> QED
  BY <1>1, <1>2 DEF VerInv

\* Of one name there is one record.
LEMMA OneRecordPerName ==
    ASSUME VerInv, NEW e \in DOMAIN record, NEW f \in DOMAIN record, NameOf(e) = NameOf(f)
    PROVE  e = f
BY DEF VerInv, OneAuthorPerName, RecordCitesProfile

LEMMA CreateStep == ASSUME VerInv, Create PROVE VerInv'
<1> USE DEF VerInv
<1> DEFINE e == task.event
<1>1. /\ task \in Asking /\ e \in Metadata /\ e \in Id
      /\ AuthorOf(e) \in Author /\ NameOf(e) \in Name
  BY StepKinds, TaskKinds, Fields DEF Create, CandidateNamed, Metadata
<1>2. CASE AuthorOf(e) \in DOMAIN profile /\ profile[AuthorOf(e)] = e
  <2>1. /\ record' = With(Without(record, OfName(NameOf(e))), e, NewRow)
        /\ Confirm(e)
    BY <1>2 DEF Create
  <2>2. /\ DOMAIN record' = (DOMAIN record \ OfName(NameOf(e))) \cup {e}
        /\ record'[e] = NewRow
        /\ \A f \in DOMAIN record' \ {e} :
              f \in DOMAIN record /\ record'[f] = record[f] /\ NameOf(f) # NameOf(e)
    BY <2>1 DEF With, Without, OfName
  <2>3. NewRow \in Row
    BY VerificationAssumption DEF NewRow, Row
  <2>4. TableTypes'
    BY <1>1, <2>2, <2>3 DEF TypeOK, TableTypes, Create
  <2>5. confirmed' \subseteq Author \X Name
    BY <1>1, <2>1 DEF Confirm, TypeOK
  <2>6. RecordCitesProfile' /\ OneAuthorPerName'
    BY <1>2, <2>2 DEF RecordCitesProfile, OneAuthorPerName, Create
  <2>7. CurrentIsConfirmed'
    BY <2>1, <2>2 DEF CurrentIsConfirmed, Confirm
  <2> QED
    BY <2>4, <2>5, <2>6, <2>7, RecordStep DEF Create
<1>3. CASE ~(AuthorOf(e) \in DOMAIN profile /\ profile[AuthorOf(e)] = e)
  BY <1>3, TaskStep DEF Create, TypeOK, verifierKeeps, tables
<1> QED
  BY <1>2, <1>3

LEMMA RenewStep == ASSUME VerInv, Renew PROVE VerInv'
<1> USE DEF VerInv
<1> DEFINE e == task.event
<1>1. CASE e \in DOMAIN record
  <2>1. /\ DOMAIN record' = DOMAIN record /\ record'[e] = NewRow
        /\ \A f \in DOMAIN record \ {e} : record'[f] = record[f]
        /\ Confirm(e)
    BY <1>1 DEF Renew
  <2>2. NewRow \in Row /\ e \in Id /\ AuthorOf(e) \in Author /\ NameOf(e) \in Name
    BY <1>1, VerificationAssumption, Fields DEF NewRow, Row, TypeOK, TableTypes, Metadata
  <2>3. TableTypes' /\ RecordCitesProfile' /\ OneAuthorPerName'
    BY <2>1, <2>2
       DEF TypeOK, TableTypes, RecordCitesProfile, OneAuthorPerName, Renew
  <2>4. confirmed' \subseteq Author \X Name
    BY <2>1, <2>2 DEF Confirm, TypeOK
  <2>5. CurrentIsConfirmed'
    BY <1>1, <2>1, OneRecordPerName DEF CurrentIsConfirmed, Confirm
  <2> QED
    BY <2>3, <2>4, <2>5, RecordStep DEF Renew
<1>2. CASE e \notin DOMAIN record
  BY <1>2, TaskStep DEF Renew, TypeOK, verifierKeeps, tables
<1> QED
  BY <1>1, <1>2

LEMMA FailStep == ASSUME VerInv, Fail PROVE VerInv'
<1> USE DEF VerInv
<1> DEFINE e == task.event
<1>1. CASE e \in DOMAIN record
  <2>1. /\ DOMAIN record' = DOMAIN record
        /\ record'[e] = [record[e] EXCEPT !.failures = @ + 1]
        /\ \A f \in DOMAIN record \ {e} : record'[f] = record[f]
    BY <1>1 DEF Fail
  <2>2. task \in Checking /\ record[e] \in Row
    BY <1>1, StepKinds DEF Fail, TypeOK, TableTypes
  <2>3. record[e].failures < MaxFailures
    BY <1>1, <2>2 DEF RecordUnderCheck, Fail
  <2>4. record'[e] \in Row /\ record'[e].current = record[e].current
    BY <2>1, <2>2, <2>3, VerificationAssumption DEF Row
  <2>5. /\ TableTypes' /\ RecordCitesProfile' /\ OneAuthorPerName'
        /\ CurrentIsConfirmed'
    BY <2>1, <2>4
       DEF TypeOK, TableTypes, RecordCitesProfile, OneAuthorPerName, CurrentIsConfirmed, Fail
  <2> QED
    BY <2>5, RecordStep DEF Fail, TypeOK
<1>2. CASE e \notin DOMAIN record
  BY <1>2, TaskStep DEF Fail, TypeOK, verifierKeeps, tables
<1> QED
  BY <1>1, <1>2

\* No other record needs the confirmation that is withdrawn with the dropped one.
LEMMA DropStep == ASSUME VerInv, Drop PROVE VerInv'
<1> USE DEF VerInv
<1> DEFINE e == task.event
<1>1. task \in Checking
  BY StepKinds DEF Drop
<1>2. /\ DOMAIN record' = DOMAIN record \ {e}
      /\ \A f \in DOMAIN record' : record'[f] = record[f]
      /\ confirmed' = confirmed \ {<<AuthorOf(e), NameOf(e)>>}
  BY DEF Drop, Without
<1>3. TableTypes' /\ RecordCitesProfile' /\ OneAuthorPerName'
  BY <1>2 DEF TypeOK, TableTypes, RecordCitesProfile, OneAuthorPerName, Drop
<1>4. \A f \in DOMAIN record' : AuthorOf(f) # AuthorOf(e)
  BY <1>1, <1>2 DEF RecordUnderCheck
<1>5. CurrentIsConfirmed'
  BY <1>2, <1>4 DEF CurrentIsConfirmed
<1> QED
  BY <1>2, <1>3, <1>5, RecordStep DEF Drop, TypeOK

-----------------------------------------------------------------------------
(* Time, the web, failures and restarts. *)

LEMMA LapseStep ==
    ASSUME VerInv, NEW a \in Author, NEW x \in Name, Lapse(a, x)
    PROVE  VerInv'
<1> USE DEF VerInv
<1>1. /\ DOMAIN record' = DOMAIN record
      /\ \A e \in DOMAIN record : record'[e] =
            [record[e] EXCEPT !.current = @ /\ <<AuthorOf(e), NameOf(e)>> # <<a, x>>]
      /\ confirmed' = confirmed \ {<<a, x>>}
  BY DEF Lapse
<1>2. \A e \in DOMAIN record :
         /\ record'[e] \in Row /\ record'[e].failures = record[e].failures
         /\ record'[e].current =>
               record[e].current /\ <<AuthorOf(e), NameOf(e)>> # <<a, x>>
  BY <1>1 DEF TypeOK, TableTypes, Row
<1>3. TypeOK'
  BY <1>1, <1>2 DEF Lapse, TypeOK, TableTypes
<1>4. RecordCitesProfile' /\ OneAuthorPerName' /\ CandidateNamed'
  BY <1>1 DEF Lapse, RecordCitesProfile, OneAuthorPerName, CandidateNamed
<1>5. CurrentIsConfirmed'
  BY <1>1, <1>2 DEF CurrentIsConfirmed
<1>6. RecordUnderCheck'
  BY <1>1, <1>2 DEF Lapse, RecordUnderCheck
<1> QED
  BY <1>3, <1>4, <1>5, <1>6

LEMMA OutsideStep ==
    ASSUME VerInv, VerifierFails \/ Stall \/ (\E x \in Name : WebChanges(x)) \/ Restart
    PROVE  VerInv'
<1> USE DEF VerInv
<1>1. CASE VerifierFails
  BY <1>1, TaskStep DEF VerifierFails, TypeOK
<1>2. ASSUME NEW x \in Name, WebChanges(x) PROVE VerInv'
  <2>1. web' \in [Name -> Answer]
    BY <1>2 DEF WebChanges, TypeOK
  <2> QED
    BY <1>2, <2>1, TaskStep DEF WebChanges, TypeOK
<1>3. CASE Restart
  <2>1. queue' \in Seq(Metadata) /\ Len(queue') <= QueueCap
    BY <1>3, EmptySeq, VerificationAssumption DEF Restart
  <2>2. /\ config' \in [mode : Mode, denied : Denials]
        /\ writer' = Idle /\ task' = Idle
    BY <1>3 DEF Restart
  <2>3. rejected' \in BOOLEAN
    BY <1>3, Zenon DEF Restart
  <2>4. disruptions' \in Nat
    BY <1>3 DEF Restart, TypeOK
  <2>5. UNCHANGED <<tables, confirmed>> /\ web' \in [Name -> Answer]
    BY <1>3 DEF Restart, TypeOK
  <2> QED
    BY <2>1, <2>2, <2>3, <2>4, <2>5, TaskStep
<1>4. CASE Stall
  BY <1>4, TaskStep DEF Stall, TypeOK, verifierKeeps
<1> QED
  BY <1>1, <1>2, <1>3, <1>4

LEMMA InitStep == Init => VerInv
<1> SUFFICES ASSUME Init PROVE VerInv
  OBVIOUS
<1>1. DOMAIN profile = {} /\ DOMAIN record = {}
  BY DEF Init
<1>2. queue \in Seq(Metadata) /\ Len(queue) <= QueueCap
  BY EmptySeq, VerificationAssumption DEF Init
<1>3. TableTypes
  BY <1>1 DEF TableTypes
<1>4. TypeOK
  BY <1>2, <1>3 DEF Init, TypeOK
<1>5. CandidateNamed /\ RecordUnderCheck
  BY TaskKinds DEF Init, CandidateNamed, RecordUnderCheck
<1> QED
  BY <1>1, <1>4, <1>5 DEF VerInv, RecordCitesProfile, OneAuthorPerName, CurrentIsConfirmed

LEMMA NextStep == VerInv /\ [Next]_vars => VerInv'
<1> SUFFICES ASSUME VerInv, [Next]_vars PROVE VerInv'
  OBVIOUS
<1>1. CASE \/ \E e \in Id : Admit(e) \/ Refuse(e)
           \/ Write \/ WriteFails
  BY <1>1, WriterStep
<1>2. CASE Verifier \/ (\E e \in Id : Recheck(e))
  BY <1>2, ReceiveStep, CandidateStep, RecheckStep, CreateStep, RenewStep, FailStep, DropStep
     DEF Verifier
<1>3. CASE \E a \in Author, x \in Name : Lapse(a, x)
  BY <1>3, LapseStep
<1>4. CASE VerifierFails \/ Stall \/ (\E x \in Name : WebChanges(x)) \/ Restart
  BY <1>4, OutsideStep
<1>5. CASE UNCHANGED vars
  BY <1>5, TaskStep DEF vars, VerInv, TypeOK
<1> QED
  BY <1>1, <1>2, <1>3, <1>4, <1>5 DEF Next

-----------------------------------------------------------------------------
(* The theorems. *)

\* The inductive invariant holds: it ties the table of records to the stored
\* profiles, to the confirmations that count and to what the verifier is doing.
THEOREM VerificationInvariant == Spec => []VerInv
<1> QED
  BY InitStep, NextStep, PTL DEF Spec

\* The tables, the metadata channel and the two tasks are well typed; the failures of
\* a record never exceed max_consecutive_failures.
THEOREM TypeCorrect == Spec => []TypeOK
<1>1. VerInv => TypeOK
  BY DEF VerInv
<1> QED
  BY <1>1, VerificationInvariant, PTL

\* create_verification_record and update_verification_timestamp make no row valid that cites
\* a profile the writer has replaced, whenever it did so while the verifier waited.
THEOREM AnswersForTheStoredProfile == Spec => LateAnswersDoNotCount
<1>1. ASSUME VerInv'
      PROVE  [\A e \in Metadata : ~Valid(e) /\ Valid(e)' =>
                  AuthorOf(e) \in DOMAIN profile' /\ profile'[AuthorOf(e)] = e]_vars
  BY <1>1 DEF VerInv, RecordCitesProfile, Valid
<1> QED
  BY <1>1, VerificationInvariant, PTL DEF Spec, LateAnswersDoNotCount

\* However names pass from author to author, create_verification_record leaves each to
\* one.
THEOREM NamesAreUnique == Spec => []OneAuthorPerName
<1>1. VerInv => OneAuthorPerName
  BY DEF VerInv
<1> QED
  BY <1>1, VerificationInvariant, PTL

\* In enabled mode db_writer admits only authors the web confirmed, under a name whose
\* domain is allowed, for any profiles and any answers of the web.
THEOREM AdmissionNeedsVerification == Spec => OnlyVerifiedAdmitted
<1>1. ASSUME VerInv, [Next]_vars
      PROVE  [writer = Idle /\ writer' # Idle /\ config.mode = "enabled" =>
                 \E x \in Name \ config.denied :
                    <<AuthorOf(writer'.event), x>> \in confirmed]_vars
  <2> SUFFICES ASSUME writer = Idle, writer' # Idle, config.mode = "enabled"
               PROVE  \E x \in Name \ config.denied :
                         <<AuthorOf(writer'.event), x>> \in confirmed
    OBVIOUS
  <2>1. PICK e \in Id : Admit(e)
    BY <1>1 DEF Next, vars, Refuse, Write, WriteFails, Verifier, VerifierFails, Stall, Recheck,
                WebChanges, Lapse, Restart, Receive, CandidateChecked, Persist, Create,
                Rechecked, Renew, Fail, Drop, verifierKeeps
  <2>2. PICK f \in Latest(AuthorOf(e)) : record[f].current /\ NameOf(f) \notin config.denied
    BY <2>1 DEF Admit, IsValid
  <2>3. f \in DOMAIN record /\ AuthorOf(f) = AuthorOf(e)
    BY DEF Latest
  <2>4. <<AuthorOf(e), NameOf(f)>> \in confirmed /\ NameOf(f) \in Name
    BY <1>1, <2>2, <2>3 DEF VerInv, CurrentIsConfirmed, TypeOK, TableTypes
  <2> QED
    BY <2>1, <2>2, <2>4 DEF Admit
<1> QED
  BY <1>1, VerificationInvariant, PTL DEF Spec, OnlyVerifiedAdmitted

=============================================================================
