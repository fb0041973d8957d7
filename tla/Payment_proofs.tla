--------------------------- MODULE Payment_proofs ---------------------------
(***************************************************************************)
(* Theorems about pay to relay, for every number of authors, any prices    *)
(* and any bounds.                                                         *)
(***************************************************************************)
EXTENDS Payment, FiniteSetTheorems, SequenceTheorems, TLAPS

-----------------------------------------------------------------------------
(* The message channel. *)

LEMMA MessageTypes ==
    /\ \A a \in Author : NewAccount(a) \in Message /\ CheckAccount(a) \in Message
    /\ \A h \in Hash : InvoicePaid(h) \in Message
BY DEF Message, NewAccount, CheckAccount, InvoicePaid

LEMMA TellLemma ==
    ASSUME QueueTypes, DOMAIN invoice \subseteq DOMAIN invoice',
           NEW m \in Message, Tell(m),
           m.type = "InvoicePaid" => m.hash \in DOMAIN invoice
    PROVE  QueueTypes'
<1>1. queue' \in Seq(Message) /\ Len(queue') <= MaxQueue
  BY PaymentAssumption DEF QueueTypes, Tell
<1>2. ASSUME NEW i \in DOMAIN queue', queue'[i].type = "InvoicePaid"
      PROVE  queue'[i].hash \in DOMAIN invoice'
  <2>1. i \in 1..Len(queue) \/ i = Len(queue) + 1
    BY DEF QueueTypes, Tell
  <2>2. i \in 1..Len(queue) => queue'[i] = queue[i] /\ i \in DOMAIN queue
    BY DEF QueueTypes, Tell
  <2>3. i = Len(queue) + 1 => queue'[i] = m
    BY DEF QueueTypes, Tell
  <2> QED
    BY <1>2, <2>1, <2>2, <2>3 DEF QueueTypes
<1> QED
  BY <1>1, <1>2, Zenon DEF QueueTypes

LEMMA ReceiveLemma ==
    ASSUME QueueTypes, DOMAIN invoice \subseteq DOMAIN invoice',
           queue # <<>>, queue' = Tail(queue)
    PROVE  /\ QueueTypes'
           /\ Head(queue).type = "InvoicePaid" => Head(queue).hash \in DOMAIN invoice
<1>1. /\ queue' \in Seq(Message)
      /\ Len(queue') = Len(queue) - 1
      /\ \A i \in 1..Len(queue') : queue'[i] = queue[i + 1]
  BY HeadTailProperties DEF QueueTypes
<1>2. Len(queue) \in Nat /\ DOMAIN queue = 1..Len(queue) /\ DOMAIN queue' = 1..Len(queue')
  BY <1>1, LenProperties DEF QueueTypes
<1>3. ASSUME NEW i \in DOMAIN queue', queue'[i].type = "InvoicePaid"
      PROVE  queue'[i].hash \in DOMAIN invoice'
  <2>1. i + 1 \in DOMAIN queue /\ queue'[i] = queue[i + 1]
    BY <1>1, <1>2
  <2> QED
    BY <1>3, <2>1 DEF QueueTypes
<1>4. 1 \in DOMAIN queue /\ Head(queue) = queue[1]
  BY <1>2, EmptySeq DEF QueueTypes
<1>5. Len(queue') <= MaxQueue
  BY <1>1, <1>2, PaymentAssumption DEF QueueTypes
<1> QED
  BY <1>1, <1>3, <1>4, <1>5, Zenon DEF QueueTypes

LEMMA KeepQueue ==
    ASSUME QueueTypes, DOMAIN invoice \subseteq DOMAIN invoice',
           queue' = queue \/ queue' = <<>>
    PROVE  QueueTypes'
<1>1. CASE queue' = queue
  BY <1>1, Zenon DEF QueueTypes
<1>2. CASE queue' = <<>>
  BY <1>2, PaymentAssumption, EmptySeq DEF QueueTypes
<1> QED
  BY <1>1, <1>2

-----------------------------------------------------------------------------
(* The ledger. *)

LEMMA CreditedFinite ==
    ASSUME Numbered, DOMAIN invoice \subseteq Hash, NEW a
    PROVE  IsFiniteSet(Credited(a)) /\ Cardinality(Credited(a)) \in Nat
<1>1. IsFiniteSet(Hash)
  BY FS_Interval, PaymentAssumption DEF Hash
<1>2. Credited(a) \in SUBSET Hash
  BY DEF Credited
<1>3. IsFiniteSet(Credited(a))
  BY <1>1, <1>2, FS_Subset
<1> QED
  BY <1>3, FS_CardinalityType

LEMMA TimesNext == \A c, n \in Nat : c * (n + 1) = c * n + c
OBVIOUS

-----------------------------------------------------------------------------
(* Steps that change no account. *)

LEMMA InitLemma == Init => PayInv
<1> SUFFICES ASSUME Init PROVE PayInv
  OBVIOUS
<1> USE DEF Init
<1>1. DOMAIN invoice = {} /\ DOMAIN account = {} /\ DOMAIN node = {} /\ DOMAIN callbacks = {}
      /\ DOMAIN credits = {}
  OBVIOUS
<1>2. QueueTypes
  BY PaymentAssumption, EmptySeq DEF QueueTypes
<1>3. TypeOK
  BY <1>1, <1>2 DEF TypeOK, Idle, Free
<1>4. Numbered
  BY <1>1, FS_EmptySet DEF Numbered
<1>5. CreditedIsPaid /\ AdmittedHasPaid /\ AdmitsPayer /\ Ledger /\ NoDebtWithoutAccount
  BY <1>1 DEF CreditedIsPaid, AdmittedHasPaid, AdmitsPayer, Ledger, NoDebtWithoutAccount, Idle
<1>6. StatusLags /\ OpenOnce
  BY <1>1 DEF StatusLags, OpenOnce, Unpaid, Idle
<1> QED
  BY <1>3, <1>4, <1>5, <1>6 DEF PayInv

\* The node learns of a payment or an expiry; nothing in the tables changes.
LEMMA NodeStep ==
    ASSUME PayInv, NEW h \in Hash, Pay(h) \/ Expire(h)
    PROVE  PayInv'
<1> USE DEF PayInv
<1>1. /\ h \in DOMAIN invoice /\ node[h] = "Unpaid"
      /\ node' = [node EXCEPT ![h] = node'[h]] /\ node'[h] \in {"Paid", "Expired"}
      /\ callbacks' = callbacks \/ callbacks' = [callbacks EXCEPT ![h] = 0]
      /\ UNCHANGED <<account, invoice, credits, spent, queue, task, writer, disruptions>>
  BY DEF Pay, Expire, tables, TypeOK
<1>2. TypeOK'
  <2>1. QueueTypes'
    BY <1>1, KeepQueue DEF TypeOK
  <2> QED
    BY <1>1, <2>1 DEF TypeOK, Status
<1>3. Numbered' /\ Ledger' /\ NoDebtWithoutAccount' /\ OpenOnce'
  BY <1>1 DEF Numbered, Ledger, Credited, NoDebtWithoutAccount, OpenOnce, Unpaid
<1>4. \A i \in DOMAIN invoice : node[i] # "Unpaid" => node'[i] = node[i]
  BY <1>1 DEF TypeOK
<1>5. CreditedIsPaid'
  BY <1>1, <1>4 DEF CreditedIsPaid
<1>6. \A a : HasPaid(a) => HasPaid(a)'
  BY <1>1, <1>4 DEF HasPaid
<1>7. AdmittedHasPaid' /\ AdmitsPayer'
  BY <1>1, <1>6 DEF AdmittedHasPaid, AdmitsPayer, HasPaid
<1>8. StatusLags'
  <2>1. disruptions = 0 => invoice[h].status = "Unpaid"
    BY <1>1 DEF StatusLags
  <2> QED
    BY <1>1, <2>1 DEF StatusLags, TypeOK
<1> QED
  BY <1>2, <1>3, <1>5, <1>7, <1>8

\* A message is sent, or messages are lost, a handler or a post ends, with or
\* without a failure.
LEMMA SideStep ==
    ASSUME PayInv, QueueTypes',
           UNCHANGED <<tables, node>>,
           DOMAIN callbacks' = DOMAIN callbacks,
           \A i \in DOMAIN callbacks : callbacks'[i] \in Nat,
           task' \in {task, Idle, Waiting},
           writer' \in {writer, Free, [step |-> "dead"]},
           disruptions' \in {disruptions, disruptions + 1}
    PROVE  PayInv'
<1> USE DEF PayInv, tables
<1>1. TypeOK'
  BY DEF TypeOK, Idle, Waiting, Free
<1>2. Numbered' /\ CreditedIsPaid' /\ AdmittedHasPaid' /\ Ledger' /\ NoDebtWithoutAccount'
  BY DEF Numbered, CreditedIsPaid, AdmittedHasPaid, Ledger, Credited, NoDebtWithoutAccount
<1>3. AdmitsPayer'
  BY DEF AdmitsPayer, HasPaid, Idle, Waiting
<1>4. disruptions' = 0 => disruptions = 0
  BY DEF TypeOK
<1>5. StatusLags' /\ OpenOnce'
  BY <1>4 DEF StatusLags, OpenOnce, Unpaid, Idle, Waiting
<1> QED
  BY <1>1, <1>2, <1>3, <1>5

\* The database writer has stored an event and is about to charge for it.
LEMMA PostStep ==
    ASSUME PayInv, NEW a \in Author, Post(a)
    PROVE  PayInv'
<1> USE DEF PayInv, Post, tables, outside
<1>1. QueueTypes'
  BY KeepQueue DEF TypeOK
<1>2. TypeOK'
  BY <1>1 DEF TypeOK, Readable
<1>3. Numbered' /\ CreditedIsPaid' /\ AdmittedHasPaid' /\ Ledger' /\ NoDebtWithoutAccount'
  BY DEF Numbered, CreditedIsPaid, AdmittedHasPaid, Ledger, Credited, NoDebtWithoutAccount
<1>4. AdmitsPayer' /\ StatusLags' /\ OpenOnce'
  BY DEF AdmitsPayer, HasPaid, StatusLags, OpenOnce, Unpaid
<1> QED
  BY <1>2, <1>3, <1>4

-----------------------------------------------------------------------------
(* Steps that change accounts. *)

\* An author is debited, and admitted if having paid.
LEMMA DebitLemma ==
    ASSUME PayInv, NEW a \in DOMAIN account, NEW cost \in Nat, NEW adm \in BOOLEAN,
           adm => account[a].admitted \/ HasPaid(a),
           account' = [account EXCEPT ![a] = [admitted |-> adm, balance |-> @.balance - cost]],
           spent' = [spent EXCEPT ![a] = @ + cost],
           UNCHANGED <<invoice, credits, node, callbacks, queue, disruptions>>,
           task' \in {task, Idle}, writer' \in {writer, Free}
    PROVE  PayInv'
<1> USE DEF PayInv
<1>1. /\ a \in Author /\ DOMAIN account' = DOMAIN account
      /\ account[a] \in [admitted : BOOLEAN, balance : Int]
      /\ account'[a] = [admitted |-> adm, balance |-> account[a].balance - cost]
      /\ \A b \in DOMAIN account \ {a} : account'[b] = account[b]
  BY DEF TypeOK
<1>2. /\ spent \in [Author -> Nat]
      /\ spent'[a] = spent[a] + cost
      /\ \A b \in Author \ {a} : spent'[b] = spent[b]
  BY <1>1 DEF TypeOK
<1>3. TypeOK'
  <2>1. QueueTypes'
    BY KeepQueue DEF TypeOK
  <2>2. \A b \in DOMAIN account' : account'[b] \in [admitted : BOOLEAN, balance : Int]
    BY <1>1 DEF TypeOK
  <2>3. spent' \in [Author -> Nat]
    BY <1>1, <1>2
  <2> QED
    BY <1>1, <2>1, <2>2, <2>3 DEF TypeOK, Idle, Free
<1>4. Numbered' /\ CreditedIsPaid' /\ StatusLags'
  BY DEF Numbered, CreditedIsPaid, StatusLags
<1>5. NoDebtWithoutAccount'
  BY <1>1, <1>2 DEF NoDebtWithoutAccount
<1>6. AdmittedHasPaid'
  BY <1>1 DEF AdmittedHasPaid, HasPaid
<1>7. AdmitsPayer' /\ OpenOnce'
  BY DEF AdmitsPayer, HasPaid, OpenOnce, Unpaid, Idle
<1>8. Ledger'
  <2> SUFFICES ASSUME NEW b \in DOMAIN account
               PROVE  account'[b].balance
                        = AdmissionCost * Cardinality(Credited(b)) - spent'[b]
    BY <1>1 DEF Ledger, Credited
  <2>1. CASE b = a
    <3>1. AdmissionCost * Cardinality(Credited(a)) \in Nat
      BY CreditedFinite, PaymentAssumption DEF TypeOK
    <3>2. account[a].balance = AdmissionCost * Cardinality(Credited(a)) - spent[a]
      BY DEF Ledger
    <3> QED
      BY <1>1, <1>2, <2>1, <3>1, <3>2
  <2>2. CASE b # a
    <3>1. b \in Author
      BY DEF TypeOK
    <3> QED
      BY <1>1, <1>2, <2>2, <3>1 DEF Ledger
  <2> QED
    BY <2>1, <2>2
<1> QED
  BY <1>3, <1>4, <1>5, <1>6, <1>7, <1>8

LEMMA AdmitStep == ASSUME PayInv, Admit PROVE PayInv'
<1>1. task.author \in DOMAIN account
  BY DEF PayInv, TypeOK, Admit, Idle, Waiting
<1>2. HasPaid(task.author)
  BY DEF PayInv, AdmitsPayer, Admit
<1>3. AdmissionCost \in Nat
  BY PaymentAssumption
<1> QED
  BY <1>1, <1>2, <1>3, DebitLemma DEF Admit, outside

LEMMA ChargeStep == ASSUME PayInv, Charge PROVE PayInv'
<1> DEFINE a == writer.author
<1>1. a \in DOMAIN account /\ account[a] \in [admitted : BOOLEAN, balance : Int]
  BY DEF PayInv, TypeOK, Charge, Free
<1>2. account' = [account EXCEPT ![a] = [admitted |-> account[a].admitted,
                                         balance |-> @.balance - CostPerEvent]]
  <2>1. [account[a] EXCEPT !.balance = @ - CostPerEvent]
          = [admitted |-> account[a].admitted, balance |-> account[a].balance - CostPerEvent]
    BY <1>1
  <2>2. account' = [account EXCEPT ![a] = [account[a] EXCEPT !.balance = @ - CostPerEvent]]
    BY DEF Charge
  <2> QED
    BY <2>1, <2>2
<1>3. CostPerEvent \in Nat
  BY PaymentAssumption
<1> QED
  BY <1>1, <1>2, <1>3, DebitLemma DEF Charge, outside

LEMMA FreshAccount ==
    [admitted |-> FALSE, balance |-> 0] \in [admitted : BOOLEAN, balance : Int]
OBVIOUS

\* get_invoice_info: the author has an account, and has no open invoice if the
\* handler goes on to get one.
LEMMA InvoiceInfoStep ==
    ASSUME PayInv, QueueTypes', NEW a \in Author, InvoiceInfo(a), task = Idle,
           UNCHANGED <<node, callbacks, writer>>
    PROVE  PayInv'
<1> USE DEF PayInv, InvoiceInfo
<1> DEFINE fresh == [admitted |-> FALSE, balance |-> 0]
<1>1. /\ DOMAIN account' = DOMAIN account \cup {a}
      /\ \A b \in DOMAIN account : account'[b] = account[b]
      /\ a \notin DOMAIN account => account'[a] = fresh
  BY DEF With
<1>2. TypeOK'
  <2>1. ASSUME NEW b \in DOMAIN account'
        PROVE  account'[b] \in [admitted : BOOLEAN, balance : Int]
    <3>1. CASE b \in DOMAIN account
      BY <1>1, <3>1 DEF TypeOK
    <3>2. CASE b \notin DOMAIN account
      <4>1. account'[b] = fresh
        BY <1>1, <3>2
      <4> QED
        BY <4>1, FreshAccount
    <3> QED
      BY <3>1, <3>2
  <2>2. task' \in {Idle} \cup [step : {"invoice", "admit"}, author : DOMAIN account']
    BY <1>1
  <2>3. writer' \in {Free, [step |-> "dead"]}
                    \cup [step : {"charge"}, author : DOMAIN account', balance : Nat]
    BY <1>1 DEF TypeOK
  <2> QED
    BY <1>1, <2>1, <2>2, <2>3 DEF TypeOK
<1>3. Numbered' /\ CreditedIsPaid' /\ StatusLags'
  BY DEF Numbered, CreditedIsPaid, StatusLags
<1>4. NoDebtWithoutAccount' /\ AdmittedHasPaid'
  BY <1>1 DEF NoDebtWithoutAccount, AdmittedHasPaid
<1>5. AdmitsPayer'
  BY DEF AdmitsPayer, Idle
<1>6. a \notin DOMAIN account => Credited(a) = {} /\ Unpaid(a) = {}
  BY DEF TypeOK, Credited, Unpaid
<1>7. Ledger'
  <2> SUFFICES ASSUME NEW b \in DOMAIN account'
               PROVE  account'[b].balance
                        = AdmissionCost * Cardinality(Credited(b)) - spent[b]
    BY DEF Ledger, Credited
  <2>1. CASE b \in DOMAIN account
    BY <1>1, <2>1 DEF Ledger
  <2>2. CASE b \notin DOMAIN account
    <3>1. b = a /\ spent[a] = 0 /\ account'[a].balance = 0
      BY <1>1, <2>2 DEF NoDebtWithoutAccount
    <3>2. Cardinality(Credited(a)) = 0
      BY <1>6, <2>2, <3>1, FS_EmptySet
    <3> QED
      BY <3>1, <3>2, PaymentAssumption
  <2> QED
    BY <2>1, <2>2
<1>8. OpenOnce'
  BY <1>6 DEF OpenOnce, Unpaid, Idle
<1> QED
  BY <1>2, <1>3, <1>4, <1>5, <1>7, <1>8

-----------------------------------------------------------------------------
(* Steps that change invoices. *)

\* An author's credited invoices gain h and nothing else.
LEMMA CreditLemma ==
    ASSUME Numbered, DOMAIN invoice \subseteq Hash,
           NEW h \in DOMAIN invoice, credits[h] = 0, credits'[h] = 1,
           DOMAIN invoice' = DOMAIN invoice,
           \A i \in DOMAIN invoice : invoice'[i].author = invoice[i].author,
           \A i \in DOMAIN invoice \ {h} : credits'[i] = credits[i],
           NEW a
    PROVE  Cardinality(Credited(a)')
             = Cardinality(Credited(a)) + (IF a = invoice[h].author THEN 1 ELSE 0)
<1>1. IsFiniteSet(Credited(a)) /\ Cardinality(Credited(a)) \in Nat
  BY CreditedFinite
<1>2. CASE a = invoice[h].author
  <2>1. Credited(a)' = Credited(a) \cup {h} /\ h \notin Credited(a)
    BY <1>2 DEF Credited
  <2>2. Cardinality(Credited(a)') = Cardinality(Credited(a)) + 1
    BY <1>1, <2>1, FS_AddElement
  <2> QED
    BY <1>2, <2>2
<1>3. CASE a # invoice[h].author
  <2>1. Credited(a)' = Credited(a)
    BY <1>3 DEF Credited
  <2> QED
    BY <1>1, <1>3, <2>1
<1> QED
  BY <1>2, <1>3

\* update_invoice with the node's answer, and the decision to admit the author.
LEMMA CheckInvoiceStep ==
    ASSUME PayInv, QueueTypes', NEW h \in DOMAIN invoice, CheckInvoice(h), task = Idle,
           UNCHANGED <<node, callbacks, writer>>
    PROVE  PayInv'
<1> USE DEF PayInv
<1> PICK status \in Status :
        /\ Asked(h, status)
        /\ UpdateInvoice(h, status)
        /\ task' = IF status = "Paid" THEN [step |-> "admit", author |-> invoice[h].author]
                   ELSE Idle
  BY DEF CheckInvoice
<1> DEFINE a == invoice[h].author
<1>1. /\ DOMAIN invoice \subseteq Hash /\ DOMAIN credits = DOMAIN invoice
      /\ \A i \in DOMAIN invoice : invoice[i] \in [author : DOMAIN account, status : Status]
      /\ \A i \in DOMAIN invoice : node[i] \in Status /\ credits[i] \in Nat
      /\ DOMAIN account \subseteq Author
      /\ \A b \in DOMAIN account : account[b] \in [admitted : BOOLEAN, balance : Int]
  BY DEF TypeOK
<1>2. /\ DOMAIN invoice' = DOMAIN invoice
      /\ invoice'[h].status = status
      /\ \A i \in DOMAIN invoice : invoice'[i] \in [author : DOMAIN account, status : Status]
      /\ \A i \in DOMAIN invoice : invoice'[i].author = invoice[i].author
      /\ \A i \in DOMAIN invoice \ {h} : invoice'[i] = invoice[i]
  BY <1>1 DEF UpdateInvoice
<1>3. /\ DOMAIN account' = DOMAIN account
      /\ \A b \in DOMAIN account : account'[b].admitted = account[b].admitted
      /\ \A b \in DOMAIN account : account'[b] \in [admitted : BOOLEAN, balance : Int]
      /\ spent' = spent
  <2>1. CASE Credits(h, status)
    <3>1. a \in DOMAIN account /\ AdmissionCost \in Int
      BY <1>1, PaymentAssumption
    <3>2. /\ account' = [account EXCEPT ![a] = [account[a] EXCEPT !.balance = @ + AdmissionCost]]
          /\ spent' = spent
      BY <2>1 DEF UpdateInvoice
    <3>3. /\ [account[a] EXCEPT !.balance = @ + AdmissionCost]
                \in [admitted : BOOLEAN, balance : Int]
          /\ [account[a] EXCEPT !.balance = @ + AdmissionCost].admitted = account[a].admitted
      BY <1>1, <3>1
    <3> QED
      BY <1>1, <3>1, <3>2, <3>3
  <2>2. CASE ~Credits(h, status)
    BY <1>1, <2>2 DEF UpdateInvoice
  <2> QED
    BY <2>1, <2>2
<1>4. /\ DOMAIN credits' = DOMAIN credits
      /\ \A i \in DOMAIN invoice \ {h} : credits'[i] = credits[i]
      /\ \/ credits'[h] = credits[h]
         \/ Credits(h, status) /\ credits'[h] = credits[h] + 1
  BY <1>1 DEF UpdateInvoice
<1>5. /\ \/ status = node[h] /\ disruptions' = disruptions
         \/ status = "Expired" /\ disruptions' = disruptions + 1
      /\ disruptions' \in {disruptions, disruptions + 1} /\ disruptions \in Nat
  BY DEF Asked, TypeOK
<1>6. Credits(h, status) => credits[h] = 0 /\ node[h] = "Paid" /\ status = "Paid"
  BY <1>5 DEF Credits, CreditedIsPaid
<1>7. TypeOK'
  <2>1. \A i \in DOMAIN invoice : credits'[i] \in Nat
    BY <1>1, <1>4
  <2>2. task' \in {Idle} \cup [step : {"invoice", "admit"}, author : DOMAIN account']
    BY <1>1, <1>3
  <2>3. disruptions' \in Nat
    BY <1>5
  <2> QED
    BY <1>2, <1>3, <1>4, <2>1, <2>2, <2>3 DEF TypeOK
<1>8. Numbered' /\ NoDebtWithoutAccount'
  BY <1>2, <1>3 DEF Numbered, NoDebtWithoutAccount
<1>9. CreditedIsPaid'
  <2>1. credits'[h] # 0 => credits'[h] = 1 /\ node[h] = "Paid" /\ status # "Unpaid"
    BY <1>1, <1>4, <1>5, <1>6 DEF CreditedIsPaid
  <2> QED
    BY <1>2, <1>4, <2>1 DEF CreditedIsPaid
<1>10. \A b : HasPaid(b)' <=> HasPaid(b)
  BY <1>2 DEF HasPaid
<1>11. AdmittedHasPaid'
  BY <1>3, <1>10 DEF AdmittedHasPaid, HasPaid
<1>12. AdmitsPayer'
  BY <1>5, <1>10 DEF AdmitsPayer, HasPaid, Idle
<1>13. Ledger'
  <2> SUFFICES ASSUME NEW b \in DOMAIN account
               PROVE  account'[b].balance
                        = AdmissionCost * Cardinality(Credited(b)') - spent[b]
    BY <1>3 DEF Ledger, Credited
  <2>1. account[b].balance = AdmissionCost * Cardinality(Credited(b)) - spent[b]
    BY DEF Ledger
  <2>2. CASE ~Credits(h, status)
    <3>1. account' = account /\ credits' = credits
      BY <2>2 DEF UpdateInvoice
    <3>2. Credited(b)' = Credited(b)
      BY <1>2, <3>1 DEF Credited
    <3> QED
      BY <2>1, <3>1, <3>2
  <2>3. CASE Credits(h, status)
    <3>1. credits[h] = 0 /\ credits'[h] = 1
      BY <1>1, <1>6, <2>3 DEF UpdateInvoice
    <3>2. Cardinality(Credited(b)') = Cardinality(Credited(b)) + (IF b = a THEN 1 ELSE 0)
      BY <1>1, <1>2, <1>4, <3>1, CreditLemma
    <3>3. account'[b].balance = account[b].balance + (IF b = a THEN AdmissionCost ELSE 0)
      BY <1>1, <2>3, PaymentAssumption DEF UpdateInvoice
    <3>4. Cardinality(Credited(b)) \in Nat /\ AdmissionCost \in Nat /\ spent[b] \in Nat
      BY <1>1, CreditedFinite, PaymentAssumption DEF TypeOK
    <3>5. AdmissionCost * (Cardinality(Credited(b)) + 1)
            = AdmissionCost * Cardinality(Credited(b)) + AdmissionCost
          /\ AdmissionCost * Cardinality(Credited(b)) \in Nat
      BY <3>4, TimesNext
    <3> QED
      BY <2>1, <3>2, <3>3, <3>4, <3>5
  <2> QED
    BY <2>2, <2>3
<1>14. disruptions' = 0 => disruptions = 0 /\ status = node[h]
  BY <1>5
<1>15. StatusLags'
  BY <1>2, <1>14 DEF StatusLags
<1>16. OpenOnce'
  <2>1. disruptions' = 0 => \A b : Unpaid(b)' \subseteq Unpaid(b)
    BY <1>2, <1>14 DEF Unpaid, StatusLags
  <2>2. task'.step # "invoice"
    BY DEF Idle
  <2> QED
    BY <1>14, <2>1, <2>2 DEF OpenOnce
<1> QED
  BY <1>7, <1>8, <1>9, <1>11, <1>12, <1>13, <1>15, <1>16

\* A new invoice of an author with no open one, unpaid and not credited.
LEMMA GetInvoiceStep == ASSUME PayInv, GetInvoice PROVE PayInv'
<1> USE DEF PayInv, GetInvoice
<1> DEFINE n == Cardinality(DOMAIN invoice)
           h == n + 1
<1>1. /\ IsFiniteSet(DOMAIN invoice) /\ n \in Nat /\ DOMAIN invoice = 1..n
      /\ h \notin DOMAIN invoice
  <2>1. IsFiniteSet(DOMAIN invoice)
    <3>1. IsFiniteSet(Hash)
      BY FS_Interval, PaymentAssumption DEF Hash
    <3>2. DOMAIN invoice \in SUBSET Hash
      BY DEF TypeOK
    <3> QED
      BY <3>1, <3>2, FS_Subset
  <2>2. n \in Nat
    BY <2>1, FS_CardinalityType
  <2> QED
    BY <2>1, <2>2 DEF Numbered
<1>2. task.author \in DOMAIN account
  BY DEF TypeOK, Idle, Waiting
<1>3. CASE h \notin Hash
  <2>1. QueueTypes'
    BY <1>3, KeepQueue DEF TypeOK
  <2> QED
    BY <1>3, <2>1, SideStep DEF TypeOK, tables
<1>4. CASE h \in Hash
  <2>1. /\ DOMAIN invoice' = DOMAIN invoice \cup {h}
        /\ invoice'[h] = [author |-> task.author, status |-> "Unpaid"]
        /\ node'[h] = "Unpaid" /\ credits'[h] = 0 /\ callbacks'[h] = 0
        /\ \A i \in DOMAIN invoice :
              /\ invoice'[i] = invoice[i] /\ node'[i] = node[i]
              /\ credits'[i] = credits[i] /\ callbacks'[i] = callbacks[i]
        /\ DOMAIN node' = DOMAIN invoice' /\ DOMAIN credits' = DOMAIN invoice'
        /\ DOMAIN callbacks' = DOMAIN invoice'
        /\ task' = Idle /\ UNCHANGED <<account, spent, queue, writer, disruptions>>
    BY <1>1, <1>4 DEF With, TypeOK
  <2>2. TypeOK'
    <3>1. QueueTypes'
      BY <2>1, KeepQueue DEF TypeOK
    <3> QED
      BY <1>2, <1>4, <2>1, <3>1 DEF TypeOK, Status
  <2>3. Numbered'
    <3>1. Cardinality(DOMAIN invoice') = n + 1
      BY <1>1, <2>1, FS_AddElement
    <3>2. DOMAIN invoice' = 1..(n + 1)
      BY <1>1, <2>1
    <3> QED
      BY <3>1, <3>2 DEF Numbered
  <2>4. CreditedIsPaid'
    BY <2>1 DEF CreditedIsPaid
  <2>5. AdmittedHasPaid' /\ AdmitsPayer'
    BY <2>1 DEF AdmittedHasPaid, AdmitsPayer, Idle
  <2>6. NoDebtWithoutAccount'
    BY <2>1 DEF NoDebtWithoutAccount
  <2>7. Ledger'
    <3>1. \A a : Credited(a)' = Credited(a)
      BY <1>1, <2>1 DEF Credited
    <3> QED
      BY <2>1, <3>1 DEF Ledger
  <2>8. StatusLags'
    BY <2>1 DEF StatusLags
  <2>9. OpenOnce'
    <3>1. \A a : a # task.author => Unpaid(a)' = Unpaid(a)
      BY <1>1, <2>1 DEF Unpaid
    <3>2. \A a : Unpaid(a) = {} => \A i \in Unpaid(a)' : i = h
      BY <1>1, <2>1 DEF Unpaid
    <3>3. disruptions = 0 => \A a \in Author : \A i, j \in Unpaid(a)' : i = j
      BY <3>1, <3>2 DEF OpenOnce
    <3> QED
      BY <2>1, <3>3 DEF OpenOnce, Idle
  <2> QED
    BY <2>2, <2>3, <2>4, <2>5, <2>6, <2>7, <2>8, <2>9
<1> QED
  BY <1>3, <1>4

-----------------------------------------------------------------------------
(* Every step. *)

LEMMA HandlerStep ==
    ASSUME PayInv,
           \/ \E a \in Author : HandleNewAccount(a) \/ HandleCheckAccount(a)
           \/ \E h \in Hash : HandleInvoicePaid(h)
    PROVE  PayInv'
<1>1. /\ queue # <<>> /\ queue' = Tail(queue) /\ task = Idle
      /\ UNCHANGED <<node, callbacks, writer>>
  BY DEF HandleNewAccount, HandleCheckAccount, HandleInvoicePaid, Receive, outside
<1>2. DOMAIN invoice \subseteq DOMAIN invoice'
  BY DEF HandleNewAccount, HandleCheckAccount, HandleInvoicePaid, InvoiceInfo, CheckInvoice,
         UpdateInvoice
<1>3. /\ QueueTypes'
      /\ Head(queue).type = "InvoicePaid" => Head(queue).hash \in DOMAIN invoice
  BY <1>1, <1>2, ReceiveLemma DEF PayInv, TypeOK
<1>4. ASSUME NEW a \in Author, HandleNewAccount(a) PROVE PayInv'
  BY <1>1, <1>3, <1>4, InvoiceInfoStep DEF HandleNewAccount
<1>5. ASSUME NEW a \in Author, HandleCheckAccount(a) PROVE PayInv'
  <2>1. CASE InvoiceInfo(a)
    BY <1>1, <1>3, <2>1, InvoiceInfoStep
  <2>2. ASSUME NEW h \in Unpaid(a), CheckInvoice(h) PROVE PayInv'
    <3>1. h \in DOMAIN invoice
      BY DEF Unpaid
    <3> QED
      BY <1>1, <1>3, <2>2, <3>1, CheckInvoiceStep
  <2> QED
    BY <1>5, <2>1, <2>2 DEF HandleCheckAccount
<1>6. ASSUME NEW h \in Hash, HandleInvoicePaid(h) PROVE PayInv'
  <2>1. h \in DOMAIN invoice
    BY <1>3, <1>6 DEF HandleInvoicePaid, Receive, InvoicePaid
  <2> QED
    BY <1>1, <1>3, <1>6, <2>1, CheckInvoiceStep DEF HandleInvoicePaid
<1> QED
  BY <1>4, <1>5, <1>6

\* Requests, posts that are not accepted, and callbacks only send a message.
LEMMA TellStep ==
    ASSUME PayInv,
           \/ \E h \in Hash : Callback(h)
           \/ \E a \in Author : \/ VisitAccount(a) \/ VisitInvoice(a)
                                \/ PostUnregistered(a) \/ PostNotAdmitted(a)
    PROVE  PayInv'
<1> USE DEF PayInv
<1>1. /\ UNCHANGED <<tables, node, task, writer, disruptions>>
      /\ DOMAIN callbacks' = DOMAIN callbacks
      /\ \A i \in DOMAIN callbacks : callbacks'[i] \in Nat
  <2>1. \A i \in DOMAIN callbacks : callbacks[i] \in Nat
    BY DEF TypeOK
  <2> QED
    BY <2>1
       DEF Callback, VisitAccount, VisitInvoice, PostUnregistered, PostNotAdmitted, outside
<1>2. PICK m \in Message : Tell(m) /\ (m.type = "InvoicePaid" => m.hash \in DOMAIN invoice)
  <2>1. ASSUME NEW h \in Hash, Callback(h)
        PROVE  Tell(InvoicePaid(h)) /\ InvoicePaid(h).hash \in DOMAIN invoice
    BY <2>1 DEF Callback, InvoicePaid, TypeOK
  <2>2. \A a \in Author : NewAccount(a).type # "InvoicePaid" /\ CheckAccount(a).type # "InvoicePaid"
    BY DEF NewAccount, CheckAccount
  <2> QED
    BY <2>1, <2>2, MessageTypes DEF VisitAccount, VisitInvoice, PostUnregistered, PostNotAdmitted
<1>3. QueueTypes'
  BY <1>1, <1>2, TellLemma DEF TypeOK, tables
<1> QED
  BY <1>1, <1>3, SideStep

LEMMA FailureStep ==
    ASSUME PayInv, HandlerFails \/ NodeSilent \/ ChargeFails \/ Crash
    PROVE  PayInv'
<1> USE DEF PayInv
<1>1. /\ UNCHANGED <<tables, node, callbacks>>
      /\ task' \in {task, Idle, Waiting}
      /\ writer' \in {writer, Free, [step |-> "dead"]}
      /\ disruptions' = disruptions + 1
  BY DEF HandlerFails, NodeSilent, ChargeFails, Crash, outside
<1>2. DOMAIN invoice \subseteq DOMAIN invoice'
  BY <1>1 DEF tables
<1>3. QueueTypes'
  <2>1. CASE queue' = queue \/ queue' = <<>>
    BY <1>2, <2>1, KeepQueue DEF TypeOK
  <2>2. CASE queue # <<>> /\ queue' = Tail(queue)
    BY <1>2, <2>2, ReceiveLemma DEF TypeOK
  <2> QED
    BY <2>1, <2>2 DEF HandlerFails, NodeSilent, ChargeFails, Crash
<1>4. \A i \in DOMAIN callbacks : callbacks[i] \in Nat
  BY DEF TypeOK
<1> QED
  BY <1>1, <1>3, <1>4, SideStep

LEMMA StutterStep == ASSUME PayInv, UNCHANGED vars PROVE PayInv'
<1>1. QueueTypes'
  BY KeepQueue DEF PayInv, TypeOK, vars, tables, outside
<1>2. \A i \in DOMAIN callbacks : callbacks[i] \in Nat
  BY DEF PayInv, TypeOK
<1> QED
  BY <1>1, <1>2, SideStep DEF vars, tables, outside

LEMMA StepLemma == PayInv /\ [Next]_vars => PayInv'
<1> SUFFICES ASSUME PayInv, [Next]_vars PROVE PayInv'
  OBVIOUS
<1>1. CASE PaymentTask
  BY <1>1, HandlerStep, GetInvoiceStep, AdmitStep DEF PaymentTask
<1>2. CASE Writer
  BY <1>2, TellStep, PostStep, ChargeStep DEF Writer
<1>3. CASE World
  BY <1>3, TellStep, NodeStep DEF World
<1>4. CASE HandlerFails \/ NodeSilent \/ ChargeFails \/ Crash
  BY <1>4, FailureStep
<1>5. CASE UNCHANGED vars
  BY <1>5, StutterStep
<1> QED
  BY <1>1, <1>2, <1>3, <1>4, <1>5 DEF Next

-----------------------------------------------------------------------------
(* The theorems. *)

\* The inductive invariant holds: it ties what the tables say of each invoice to
\* what the Lightning node knows and to what the two tasks are about to do.
THEOREM PaymentInvariant == Spec => []PayInv
<1> QED
  BY InitLemma, StepLemma, PTL DEF Spec

\* The tables, the message channel and the two tasks are well typed: a balance the
\* writer is about to charge was one it could read.
THEOREM TypeCorrect == Spec => []TypeOK
<1>1. PayInv => TypeOK
  BY DEF PayInv
<1> QED
  BY <1>1, PaymentInvariant, PTL

\* update_invoice credits an invoice at most once, and only if the node was paid,
\* whatever callbacks, checks, errors and crashes occur.
THEOREM InvoiceCreditedOnce == Spec => []CreditedOnce
<1>1. PayInv => CreditedOnce
  <2> SUFFICES ASSUME PayInv, NEW h \in DOMAIN invoice
               PROVE  credits[h] <= (IF node[h] = "Paid" THEN 1 ELSE 0)
    BY DEF CreditedOnce
  <2> QED
    BY DEF PayInv, TypeOK, CreditedIsPaid
<1> QED
  BY <1>1, PaymentInvariant, PTL

\* admit_account is only reached for an author with an invoice the node was paid.
THEOREM OnlyPayersAdmitted == Spec => []AdmittedHasPaid
<1>1. PayInv => AdmittedHasPaid
  BY DEF PayInv
<1> QED
  BY <1>1, PaymentInvariant, PTL

\* The UPDATE statements of the writer and of the payment task add up: a balance is
\* what was credited less what was debited.
THEOREM BalancesAddUp == Spec => []Ledger
<1>1. PayInv => Ledger
  BY DEF PayInv
<1> QED
  BY <1>1, PaymentInvariant, PTL

\* get_invoice_info reuses the open invoice: an author never has two, as long as
\* nothing fails.
THEOREM OneInvoiceAtATime == Spec => []OneOpenInvoice
<1>1. PayInv => OneOpenInvoice
  <2> SUFFICES ASSUME PayInv, disruptions = 0, NEW a \in Author
               PROVE  Cardinality(Unpaid(a)) <= 1
    BY DEF OneOpenInvoice
  <2>1. \A h, i \in Unpaid(a) : h = i
    BY DEF PayInv, OpenOnce
  <2>2. CASE Unpaid(a) = {}
    BY <2>2, FS_EmptySet
  <2>3. CASE Unpaid(a) # {}
    <3>1. PICK h \in Unpaid(a) : Unpaid(a) = {h}
      BY <2>1, <2>3
    <3> QED
      BY <3>1, FS_Singleton
  <2> QED
    BY <2>2, <2>3
<1> QED
  BY <1>1, PaymentInvariant, PTL

-----------------------------------------------------------------------------
(* The tables implement PaidAccess. *)

\* Rows of account are never deleted, and nobody is dismissed.
LEMMA AdmissionIsFinal ==
    ASSUME PayInv, [Next]_vars, NEW a \in DOMAIN account, account[a].admitted
    PROVE  a \in DOMAIN account' /\ account'[a].admitted
<1>1. \A b \in DOMAIN account : account[b] \in [admitted : BOOLEAN, balance : Int]
  BY DEF PayInv, TypeOK
<1>2. ASSUME NEW b \in Author, InvoiceInfo(b) PROVE a \in DOMAIN account' /\ account'[a] = account[a]
  BY <1>2 DEF InvoiceInfo, With
<1>3. ASSUME NEW h, CheckInvoice(h) PROVE a \in DOMAIN account' /\ account'[a].admitted
  <2>1. \/ account' = account
        \/ account' = [account EXCEPT ![invoice[h].author].balance = @ + AdmissionCost]
    BY <1>3 DEF CheckInvoice, UpdateInvoice
  <2> QED
    BY <1>1, <2>1
<1>4. CASE PaymentTask
  <2>1. CASE \E b \in Author : HandleNewAccount(b) \/ HandleCheckAccount(b)
    BY <1>2, <1>3, <2>1 DEF HandleNewAccount, HandleCheckAccount
  <2>2. CASE \E h \in Hash : HandleInvoicePaid(h)
    BY <1>3, <2>2 DEF HandleInvoicePaid
  <2>3. CASE GetInvoice
    BY <2>3 DEF GetInvoice
  <2>4. CASE Admit
    BY <1>1, <2>4 DEF Admit
  <2> QED
    BY <1>4, <2>1, <2>2, <2>3, <2>4 DEF PaymentTask
<1>5. CASE Charge
  BY <1>1, <1>5 DEF Charge
<1>6. CASE (Next /\ ~PaymentTask /\ ~Charge) \/ UNCHANGED vars
  <2>1. account' = account
    BY <1>6 DEF Next, Writer, World, PostUnregistered, PostNotAdmitted, Post, Pay, Expire,
                Callback, VisitAccount, VisitInvoice, HandlerFails, NodeSilent, ChargeFails, Crash,
                vars, tables
  <2> QED
    BY <2>1
<1> QED
  BY <1>4, <1>5, <1>6

LEMMA ChargesStep ==
    ASSUME PayInv, ChargesAdmitted, [Next]_vars
    PROVE  ChargesAdmitted'
<1>1. writer.step = "charge" => writer.author \in DOMAIN account
  BY DEF PayInv, TypeOK, Free
<1>2. CASE \E a \in Author : Post(a)
  BY <1>2 DEF Post, Readable, ChargesAdmitted, tables
<1>3. CASE Charge \/ ChargeFails \/ Crash
  BY <1>3 DEF Charge, ChargeFails, Crash, Free, ChargesAdmitted
<1>4. CASE UNCHANGED writer
  <2> SUFFICES ASSUME writer.step = "charge" PROVE account'[writer.author].admitted
    BY <1>4 DEF ChargesAdmitted
  <2> QED
    BY <1>1, AdmissionIsFinal DEF ChargesAdmitted
<1>5. UNCHANGED writer \/ Charge \/ ChargeFails \/ Crash \/ \E a \in Author : Post(a)
  BY DEF Next, PaymentTask, Writer, World, HandleNewAccount, HandleCheckAccount,
         HandleInvoicePaid, GetInvoice, Admit, PostUnregistered, PostNotAdmitted, Pay, Expire,
         Callback, VisitAccount, VisitInvoice, HandlerFails, NodeSilent, vars
<1> QED
  BY <1>2, <1>3, <1>4, <1>5

\* One invoice changes its state.
LEMMA BecomesIs ==
    ASSUME NEW h \in DOMAIN invoice, NEW state, DOMAIN invoice' = DOMAIN invoice,
           \A i \in DOMAIN invoice : invoice'[i].author = invoice[i].author,
           State(h)' = state, \A i \in DOMAIN invoice \ {h} : State(i)' = State(i)
    PROVE  Access!Becomes(h, state)
<1>1. Invoices' = [i \in DOMAIN invoice |->
                     [author |-> invoice[i].author, state |-> IF i = h THEN state ELSE State(i)]]
  BY DEF Invoices
<1> DEFINE record == [author |-> invoice[h].author, state |-> state]
<1>2. Invoices[h] = [author |-> invoice[h].author, state |-> State(h)]
  BY DEF Invoices
<1>3. [Invoices[h] EXCEPT !.state = state] = record
  BY <1>2
<1>4. [Invoices EXCEPT ![h].state = state] = [Invoices EXCEPT ![h] = record]
  BY <1>3
<1>5. [Invoices EXCEPT ![h] = record] = Invoices'
  BY <1>1 DEF Invoices
<1> QED
  BY <1>4, <1>5 DEF Access!Becomes

\* Steps that change neither accounts nor what is known of invoices.
LEMMA AccessStutters ==
    ASSUME UNCHANGED <<account, node, credits>>, DOMAIN invoice' = DOMAIN invoice,
           \A i \in DOMAIN invoice : invoice'[i].author = invoice[i].author
    PROVE  UNCHANGED Access!vars
<1>1. Invoices' = Invoices
  BY DEF Invoices, State
<1>2. Admitted' = Admitted /\ Balances' = Balances
  BY DEF Admitted, Balances
<1> QED
  BY <1>1, <1>2 DEF Access!vars

\* One author's account changes.
LEMMA BalancesIs ==
    ASSUME NEW a \in DOMAIN account, DOMAIN account \subseteq Author, NEW x,
           DOMAIN account' = DOMAIN account, account'[a].balance = x,
           \A b \in DOMAIN account \ {a} : account'[b] = account[b]
    PROVE  Balances' = [Balances EXCEPT ![a] = x] /\ Balances[a] = account[a].balance
BY DEF Balances

LEMMA AccessCheck ==
    ASSUME PayInv, NEW h \in DOMAIN invoice, CheckInvoice(h), UNCHANGED node
    PROVE  Access!Credit(h) \/ UNCHANGED Access!vars
<1>1. PICK status \in Status : Asked(h, status) /\ UpdateInvoice(h, status)
  BY DEF CheckInvoice
<1>2. /\ DOMAIN invoice' = DOMAIN invoice
      /\ \A i \in DOMAIN invoice : invoice'[i].author = invoice[i].author
  BY <1>1 DEF UpdateInvoice, PayInv, TypeOK
<1>3. CASE ~Credits(h, status)
  BY <1>1, <1>2, <1>3, AccessStutters DEF UpdateInvoice
<1>4. CASE Credits(h, status)
  <2> DEFINE a == invoice[h].author
  <2>1. node[h] = "Paid" /\ invoice[h].status = "Unpaid"
    BY <1>1, <1>4 DEF Asked, Credits
  <2>2. credits[h] = 0
    BY <2>1 DEF PayInv, CreditedIsPaid
  <2>3. a \in DOMAIN account /\ DOMAIN account \subseteq Author /\ a \in Author
        /\ \A b \in DOMAIN account : account[b] \in [admitted : BOOLEAN, balance : Int]
        /\ DOMAIN credits = DOMAIN invoice /\ \A i \in DOMAIN invoice : credits[i] \in Nat
    BY DEF PayInv, TypeOK
  <2>4. /\ account' = [account EXCEPT ![a].balance = @ + AdmissionCost]
        /\ credits' = [credits EXCEPT ![h] = @ + 1]
    BY <1>1, <1>4 DEF UpdateInvoice
  <2>5. State(h) = "Paid" /\ State(h)' = "Credited"
    BY <2>1, <2>2, <2>3, <2>4 DEF State
  <2>6. \A i \in DOMAIN invoice \ {h} : State(i)' = State(i)
    BY <2>3, <2>4 DEF State
  <2>7. Access!Becomes(h, "Credited")
    BY <1>2, <2>5, <2>6, BecomesIs
  <2>8. /\ DOMAIN account' = DOMAIN account
        /\ account'[a].balance = account[a].balance + AdmissionCost
        /\ \A b \in DOMAIN account : account'[b].admitted = account[b].admitted
        /\ \A b \in DOMAIN account \ {a} : account'[b] = account[b]
    BY <2>3, <2>4
  <2>9. Admitted' = Admitted
    BY <2>8 DEF Admitted
  <2>10. Balances' = [Balances EXCEPT ![a] = Balances[a] + AdmissionCost]
    BY <2>3, <2>8, BalancesIs
  <2>11. h \in DOMAIN Invoices /\ Invoices[h].state = "Paid" /\ Invoices[h].author = a
    BY <2>5 DEF Invoices
  <2> QED
    BY <2>7, <2>9, <2>10, <2>11 DEF Access!Credit
<1> QED
  BY <1>3, <1>4

LEMMA AccessInfo ==
    ASSUME PayInv, NEW a \in Author, InvoiceInfo(a), UNCHANGED node
    PROVE  UNCHANGED Access!vars
<1>1. Invoices' = Invoices
  BY DEF InvoiceInfo, Invoices, State
<1>2. CASE a \in DOMAIN account
  BY <1>1, <1>2 DEF InvoiceInfo, Admitted, Balances, Access!vars
<1>3. CASE a \notin DOMAIN account
  <2>1. /\ DOMAIN account' = DOMAIN account \cup {a}
        /\ \A b \in DOMAIN account : account'[b] = account[b]
        /\ account'[a].admitted = FALSE /\ account'[a].balance = 0
    BY <1>3 DEF InvoiceInfo, With
  <2>2. Admitted' = Admitted
    BY <1>3, <2>1 DEF Admitted
  <2>3. Balances' = Balances
    BY <1>3, <2>1 DEF Balances
  <2> QED
    BY <1>1, <2>2, <2>3 DEF Access!vars
<1> QED
  BY <1>2, <1>3

LEMMA AccessIssue ==
    ASSUME PayInv, GetInvoice
    PROVE  \/ \E h \in Hash, a \in Author : Access!Issue(h, a)
           \/ UNCHANGED Access!vars
<1> DEFINE a == task.author
<1>0. IsFiniteSet(DOMAIN invoice) /\ Cardinality(DOMAIN invoice) \in Nat
  <2>1. IsFiniteSet(Hash) /\ DOMAIN invoice \in SUBSET Hash
    BY FS_Interval, PaymentAssumption DEF Hash, PayInv, TypeOK
  <2> QED
    BY <2>1, FS_Subset, FS_CardinalityType
<1> PICK h \in Nat : h = Cardinality(DOMAIN invoice) + 1
  BY <1>0
<1>1. a \in Author /\ DOMAIN node = DOMAIN invoice /\ DOMAIN credits = DOMAIN invoice
  BY DEF PayInv, TypeOK, GetInvoice, Idle, Waiting
<1>2. CASE h \notin Hash
  BY <1>2, AccessStutters DEF GetInvoice
<1>3. CASE h \in Hash
  <2>1. DOMAIN invoice = 1..(h - 1) /\ h \notin DOMAIN invoice
    BY <1>0 DEF PayInv, Numbered
  <2>2. /\ DOMAIN invoice' = DOMAIN invoice \cup {h}
        /\ invoice'[h] = [author |-> a, status |-> "Unpaid"]
        /\ node'[h] = "Unpaid" /\ credits'[h] = 0
        /\ \A i \in DOMAIN invoice :
              invoice'[i] = invoice[i] /\ node'[i] = node[i] /\ credits'[i] = credits[i]
    BY <1>1, <1>3, <2>1 DEF GetInvoice, With
  <2>3. \A i \in DOMAIN invoice : State(i)' = State(i)
    BY <2>2 DEF State
  <2>4. State(h)' = "Unpaid"
    BY <2>2 DEF State
  <2>5. Invoices' = [i \in DOMAIN Invoices \cup {h} |->
                        IF i = h THEN [author |-> a, state |-> "Unpaid"] ELSE Invoices[i]]
    <3>1. DOMAIN Invoices = DOMAIN invoice /\ DOMAIN Invoices' = DOMAIN invoice \cup {h}
      BY <2>2 DEF Invoices
    <3>2. Invoices'[h] = [author |-> a, state |-> "Unpaid"]
      BY <2>2, <2>4 DEF Invoices
    <3>3. \A i \in DOMAIN invoice : Invoices'[i] = Invoices[i]
      BY <2>2, <2>3 DEF Invoices
    <3>4. Invoices' = [i \in DOMAIN Invoices' |-> Invoices'[i]]
      BY DEF Invoices
    <3> QED
      BY <2>1, <3>1, <3>2, <3>3, <3>4
  <2>6. h \notin DOMAIN Invoices
    BY <2>1 DEF Invoices
  <2>7. Admitted' = Admitted /\ Balances' = Balances
    BY DEF GetInvoice, Admitted, Balances
  <2>8. Access!Issue(h, a)
    BY <2>5, <2>6, <2>7 DEF Access!Issue
  <2> QED
    BY <1>1, <1>3, <2>8
<1> QED
  BY <1>2, <1>3

LEMMA AccessSettle ==
    ASSUME PayInv, NEW h \in Hash, Pay(h) \/ Expire(h)
    PROVE  Access!Settle(h)
<1>1. h \in DOMAIN invoice /\ node[h] = "Unpaid" /\ DOMAIN node = DOMAIN invoice
  BY DEF Pay, Expire, PayInv, TypeOK
<1>2. credits[h] = 0
  BY <1>1 DEF PayInv, CreditedIsPaid
<1>3. PICK state \in {"Paid", "Expired"} :
         node' = [node EXCEPT ![h] = state] /\ UNCHANGED tables
  BY DEF Pay, Expire
<1>4. State(h) = "Unpaid" /\ State(h)' = state
  BY <1>1, <1>2, <1>3 DEF State, tables
<1>5. \A i \in DOMAIN invoice \ {h} : State(i)' = State(i)
  BY <1>1, <1>3 DEF State, tables
<1>6. Access!Becomes(h, state)
  BY <1>1, <1>3, <1>4, <1>5, BecomesIs DEF tables
<1>7. h \in DOMAIN Invoices /\ Invoices[h].state = "Unpaid"
  BY <1>1, <1>4 DEF Invoices
<1>8. Admitted' = Admitted /\ Balances' = Balances
  BY <1>3 DEF Admitted, Balances, tables
<1> QED
  BY <1>6, <1>7, <1>8 DEF Access!Settle

LEMMA AccessAdmit ==
    ASSUME PayInv, Admit
    PROVE  task.author \in Author /\ Access!Admit(task.author)
<1> DEFINE a == task.author
<1>1. a \in DOMAIN account /\ DOMAIN account \subseteq Author
      /\ account[a] \in [admitted : BOOLEAN, balance : Int]
  BY DEF PayInv, TypeOK, Admit, Idle, Waiting
<1>2. PICK h \in DOMAIN invoice : invoice[h].author = a /\ node[h] = "Paid"
  BY DEF PayInv, AdmitsPayer, HasPaid, Admit
<1>3. h \in DOMAIN Invoices /\ Invoices[h].author = a /\ Invoices[h].state \in {"Paid", "Credited"}
  BY <1>2 DEF Invoices, State
<1>4. /\ DOMAIN account' = DOMAIN account
      /\ account'[a].balance = account[a].balance - AdmissionCost /\ account'[a].admitted
      /\ \A b \in DOMAIN account \ {a} : account'[b] = account[b]
  BY <1>1 DEF Admit
<1>5. Admitted' = Admitted \cup {a}
  BY <1>1, <1>4 DEF Admitted
<1>6. Balances' = [Balances EXCEPT ![a] = Balances[a] - AdmissionCost]
  BY <1>1, <1>4, BalancesIs
<1>7. Invoices' = Invoices
  BY DEF Admit, outside, Invoices, State
<1> QED
  BY <1>1, <1>3, <1>5, <1>6, <1>7 DEF Access!Admit

LEMMA AccessCharge ==
    ASSUME PayInv, ChargesAdmitted, Charge
    PROVE  writer.author \in Author /\ Access!Charge(writer.author)
<1> DEFINE a == writer.author
<1>1. a \in DOMAIN account /\ DOMAIN account \subseteq Author
      /\ account[a] \in [admitted : BOOLEAN, balance : Int] /\ account[a].admitted
  BY DEF PayInv, TypeOK, Charge, Free, ChargesAdmitted
<1>2. /\ DOMAIN account' = DOMAIN account
      /\ account'[a].balance = account[a].balance - CostPerEvent /\ account'[a].admitted
      /\ \A b \in DOMAIN account \ {a} : account'[b] = account[b]
  BY <1>1 DEF Charge
<1>3. a \in Admitted /\ Admitted' = Admitted
  BY <1>1, <1>2 DEF Admitted
<1>4. Balances' = [Balances EXCEPT ![a] = Balances[a] - CostPerEvent]
  BY <1>1, <1>2, BalancesIs
<1>5. Invoices' = Invoices
  BY DEF Charge, outside, Invoices, State
<1> QED
  BY <1>1, <1>3, <1>4, <1>5 DEF Access!Charge

\* Every step is one of PaidAccess or changes nothing there.
LEMMA AccessStep ==
    ASSUME PayInv, ChargesAdmitted, [Next]_vars
    PROVE  [Access!Next]_Access!vars
<1>1. CASE \E a \in Author : HandleNewAccount(a) \/ HandleCheckAccount(a)
  <2>1. PICK a \in Author : HandleNewAccount(a) \/ HandleCheckAccount(a)
    BY <1>1
  <2>2. UNCHANGED node
    BY <2>1 DEF HandleNewAccount, HandleCheckAccount, outside
  <2>3. InvoiceInfo(a) \/ \E h \in Unpaid(a) : CheckInvoice(h)
    BY <2>1 DEF HandleNewAccount, HandleCheckAccount
  <2>4. CASE InvoiceInfo(a)
    BY <2>2, <2>4, AccessInfo
  <2>5. CASE \E h \in Unpaid(a) : CheckInvoice(h)
    <3>1. PICK h \in DOMAIN invoice : CheckInvoice(h)
      BY <2>5 DEF Unpaid
    <3>2. h \in Hash
      BY <3>1 DEF PayInv, TypeOK
    <3> QED
      BY <2>2, <3>1, <3>2, AccessCheck DEF Access!Next
  <2> QED
    BY <2>3, <2>4, <2>5
<1>2. CASE \E h \in Hash : HandleInvoicePaid(h)
  <2>1. PICK h \in Hash : HandleInvoicePaid(h)
    BY <1>2
  <2>2. h \in DOMAIN invoice
    <3>1. queue # <<>> /\ Head(queue) = InvoicePaid(h) /\ queue' = Tail(queue)
      BY <2>1 DEF HandleInvoicePaid, Receive
    <3>2. DOMAIN invoice \subseteq DOMAIN invoice'
      BY <2>1 DEF HandleInvoicePaid, CheckInvoice, UpdateInvoice
    <3> QED
      BY <3>1, <3>2, ReceiveLemma DEF PayInv, TypeOK, InvoicePaid
  <2> QED
    BY <2>1, <2>2, AccessCheck DEF HandleInvoicePaid, outside, Access!Next
<1>3. CASE GetInvoice
  BY <1>3, AccessIssue DEF Access!Next
<1>4. CASE Admit
  BY <1>4, AccessAdmit DEF Access!Next
<1>5. CASE Charge
  BY <1>5, AccessCharge DEF Access!Next
<1>6. CASE \E h \in Hash : Pay(h) \/ Expire(h)
  BY <1>6, AccessSettle DEF Access!Next
<1>7. CASE \/ \E h \in Hash : Callback(h)
           \/ \E a \in Author : \/ VisitAccount(a) \/ VisitInvoice(a)
                                \/ PostUnregistered(a) \/ PostNotAdmitted(a) \/ Post(a)
           \/ HandlerFails \/ NodeSilent \/ ChargeFails \/ Crash \/ UNCHANGED vars
  <2>1. UNCHANGED <<account, invoice, credits, node>>
    BY <1>7 DEF Callback, VisitAccount, VisitInvoice, PostUnregistered, PostNotAdmitted, Post,
                HandlerFails, NodeSilent, ChargeFails, Crash, vars, tables, outside
  <2> QED
    BY <2>1, AccessStutters
<1> QED
  BY <1>1, <1>2, <1>3, <1>4, <1>5, <1>6, <1>7 DEF Next, PaymentTask, Writer, World

\* The payment task and the writer, with their messages, errors and restarts, implement a
\* relay that credits each payment once and counts every admission and event in full.
THEOREM PaymentImplementsAccess == Spec => ImplementsAccess
<1>1. Init => Access!Init /\ ChargesAdmitted
  <2> SUFFICES ASSUME Init PROVE Access!Init /\ ChargesAdmitted
    OBVIOUS
  <2>1. DOMAIN invoice = {} /\ DOMAIN account = {}
    BY DEF Init
  <2>2. Invoices = <<>>
    BY <2>1 DEF Invoices
  <2>3. Admitted = {} /\ Balances = [a \in Author |-> 0]
    BY <2>1 DEF Admitted, Balances
  <2>4. ChargesAdmitted
    BY DEF Init, Free, ChargesAdmitted
  <2> QED
    BY <2>2, <2>3, <2>4 DEF Access!Init
<1>2. PayInv /\ ChargesAdmitted /\ [Next]_vars => ChargesAdmitted'
  BY ChargesStep
<1>3. PayInv /\ ChargesAdmitted /\ [Next]_vars => [Access!Next]_Access!vars
  BY AccessStep
<1> QED
  BY <1>1, <1>2, <1>3, PaymentInvariant, PTL DEF Spec, ImplementsAccess, Access!Spec

=============================================================================
