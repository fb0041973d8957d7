------------------------------- MODULE Payment -------------------------------
(***************************************************************************)
(* Pay to relay: the payment task, the accounts and invoices it keeps in   *)
(* the database, and the database writer, which admits events according to *)
(* the author's account and charges for them.                              *)
(*                                                                         *)
(* The payment task handles one message at a time; only it changes         *)
(* invoices.  Each database call commits on its own, so the writer sees    *)
(* the accounts between two calls, an error ends a handler between two     *)
(* calls, and a crash loses the messages and the handler but no commit.    *)
(* No request to the Lightning node has a time limit: a node that does not *)
(* answer stops the payment task.                                          *)
(*                                                                         *)
(* Left out: the direct message with the invoice, the HTTP request that    *)
(* waits for an invoice, authors on the whitelist, a message channel so    *)
(* full that it overwrites messages.                                       *)
(***************************************************************************)
EXTENDS Integers, Sequences, FiniteSets

CONSTANTS
    Author,
    AdmissionCost,    \* admission_cost, also the amount of every invoice
    CostPerEvent,     \* cost_per_event
    MessageSignUp,    \* sign_ups and direct_message are both configured
    MaxInvoices,      \* bound on invoices
    MaxQueue,         \* bound on waiting messages
    MaxCallbacks,     \* bound on callbacks for an invoice before it is paid, and after
    MaxDisruptions    \* bound on errors, garbled answers and crashes

ASSUME PaymentAssumption ==
    /\ {AdmissionCost, CostPerEvent} \subseteq Nat \ {0}
    /\ {MaxInvoices, MaxQueue, MaxCallbacks, MaxDisruptions} \subseteq Nat
    /\ MessageSignUp \in BOOLEAN

VARIABLES
    account,       \* author -> account row
    invoice,       \* payment hash -> invoice row
    node,          \* payment hash -> what the Lightning node knows
    callbacks,     \* payment hash -> callbacks received, counted anew once it is paid
    queue,         \* messages the payment task has not received
    task,          \* what the payment task still has to do for its message
    writer,        \* the event the database writer has stored but not charged
    disruptions,   \* errors, garbled answers and crashes so far (history)
    credits,       \* payment hash -> times it was credited (history)
    spent          \* author -> total debited (history)

tables == <<account, invoice, credits, spent>>
outside == <<node, callbacks>>
vars == <<tables, outside, queue, task, writer, disruptions>>

Status == {"Unpaid", "Paid", "Expired"}
Hash == 1..MaxInvoices

Idle == [step |-> "idle"]
Waiting == [step |-> "waiting"]     \* for a node that never answers
Free == [step |-> "free"]

Message ==
    [type : {"NewAccount", "CheckAccount"}, author : Author]
        \cup [type : {"InvoicePaid"}, hash : Hash]

QueueTypes ==
    /\ queue \in Seq(Message) /\ Len(queue) <= MaxQueue
    /\ \A i \in DOMAIN queue :
          queue[i].type = "InvoicePaid" => queue[i].hash \in DOMAIN invoice

TypeOK ==
    /\ DOMAIN account \subseteq Author
    /\ \A a \in DOMAIN account : account[a] \in [admitted : BOOLEAN, balance : Int]
    /\ DOMAIN invoice \subseteq Hash /\ DOMAIN node = DOMAIN invoice
    /\ DOMAIN callbacks = DOMAIN invoice /\ DOMAIN credits = DOMAIN invoice
    /\ \A h \in DOMAIN invoice :
         /\ invoice[h] \in [author : DOMAIN account, status : Status]
         /\ node[h] \in Status /\ callbacks[h] \in Nat /\ credits[h] \in Nat
    /\ QueueTypes
    /\ task \in {Idle, Waiting} \cup [step : {"invoice", "admit"}, author : DOMAIN account]
    /\ writer \in {Free, [step |-> "dead"]}
                    \cup [step : {"charge"}, author : DOMAIN account, balance : Nat]
    /\ disruptions \in Nat
    /\ spent \in [Author -> Nat]

Init ==
    /\ account = <<>> /\ invoice = <<>> /\ node = <<>>
    /\ callbacks = <<>> /\ credits = <<>>
    /\ queue = <<>>
    /\ task = Idle /\ writer = Free
    /\ disruptions = 0
    /\ spent = [a \in Author |-> 0]

With(f, i, x) == [j \in DOMAIN f \cup {i} |-> IF j = i THEN x ELSE f[j]]

NewAccount(a) == [type |-> "NewAccount", author |-> a]
CheckAccount(a) == [type |-> "CheckAccount", author |-> a]
InvoicePaid(h) == [type |-> "InvoicePaid", hash |-> h]

Tell(m) ==
    /\ Len(queue) < MaxQueue
    /\ queue' = Append(queue, m)

-----------------------------------------------------------------------------
(* The Lightning node, and its callback to /lnbits. *)

Pay(h) ==
    /\ h \in DOMAIN node /\ node[h] = "Unpaid"
    /\ node' = [node EXCEPT ![h] = "Paid"]
    /\ callbacks' = [callbacks EXCEPT ![h] = 0]
    /\ UNCHANGED <<tables, queue, task, writer, disruptions>>

Expire(h) ==
    /\ h \in DOMAIN node /\ node[h] = "Unpaid"
    /\ node' = [node EXCEPT ![h] = "Expired"]
    /\ UNCHANGED <<tables, callbacks, queue, task, writer, disruptions>>

\* The endpoint believes whatever hash it is told.
Callback(h) ==
    /\ h \in DOMAIN node
    /\ callbacks[h] < MaxCallbacks
    /\ callbacks' = [callbacks EXCEPT ![h] = @ + 1]
    /\ Tell(InvoicePaid(h))
    /\ UNCHANGED <<tables, node, task, writer, disruptions>>

\* A visit to /account asks for the account to be checked; so does one to /invoice
\* by an author with a readable account that is not admitted.
VisitAccount(a) ==
    /\ Tell(CheckAccount(a))
    /\ UNCHANGED <<tables, outside, task, writer, disruptions>>

\* get_account_balance reads a balance as an unsigned number: it fails when the
\* author has no account or owes something.
Readable(a) == a \in DOMAIN account /\ account[a].balance >= 0

\* A visit to /invoice by an author whose account cannot be read.
VisitInvoice(a) ==
    /\ ~Readable(a)
    /\ Tell(NewAccount(a))
    /\ UNCHANGED <<tables, outside, task, writer, disruptions>>

-----------------------------------------------------------------------------
(* The payment task. *)

\* Mutant: the invoice's previous status is not looked at.
CreditsAgain(h, status) == status = "Paid"

Credits(h, status) == invoice[h].status = "Unpaid" /\ status = "Paid"

\* One transaction: the status, and the amount the first time it is paid.
UpdateInvoice(h, status) ==
    LET a == invoice[h].author IN
    /\ invoice' = [invoice EXCEPT ![h].status = status]
    /\ IF Credits(h, status)
       THEN /\ account' = [account EXCEPT ![a].balance = @ + AdmissionCost]
            /\ credits' = [credits EXCEPT ![h] = @ + 1]
       ELSE UNCHANGED <<account, credits>>
    /\ UNCHANGED spent

Receive(m) ==
    /\ task = Idle
    /\ queue # <<>>
    /\ m = Head(queue)
    /\ queue' = Tail(queue)

Unpaid(a) == {h \in DOMAIN invoice : invoice[h].author = a /\ invoice[h].status = "Unpaid"}

\* Mutant: every request for an invoice gets a new one.
InvoiceInfoAnew(a) ==
    /\ account' = IF a \in DOMAIN account THEN account
                  ELSE With(account, a, [admitted |-> FALSE, balance |-> 0])
    /\ task' = [step |-> "invoice", author |-> a]
    /\ UNCHANGED <<invoice, credits, spent, disruptions>>

\* get_invoice_info: an account is created; an existing one with an open invoice
\* is sent that invoice.
InvoiceInfo(a) ==
    /\ account' = IF a \in DOMAIN account THEN account
                  ELSE With(account, a, [admitted |-> FALSE, balance |-> 0])
    /\ task' = IF a \in DOMAIN account /\ Unpaid(a) # {} THEN Idle
               ELSE [step |-> "invoice", author |-> a]
    /\ UNCHANGED <<invoice, credits, spent, disruptions>>

\* The node's answer on h, or one that cannot be understood and counts as expired.
Asked(h, status) ==
    \/ status = node[h] /\ UNCHANGED disruptions
    \/ /\ status = "Expired" /\ status # node[h]
       /\ disruptions < MaxDisruptions
       /\ disruptions' = disruptions + 1

\* Mutant: a callback is believed.
CheckInvoiceTrusting(h) ==
    /\ UpdateInvoice(h, "Paid")
    /\ task' = [step |-> "admit", author |-> invoice[h].author]
    /\ UNCHANGED disruptions

\* check_invoice_status, and what both callers do when it is paid.  The second
\* update_invoice of the callback's handler changes nothing.
CheckInvoice(h) ==
    \E status \in Status :
        /\ Asked(h, status)
        /\ UpdateInvoice(h, status)
        /\ task' = IF status = "Paid" THEN [step |-> "admit", author |-> invoice[h].author]
                   ELSE Idle

HandleNewAccount(a) ==
    /\ Receive(NewAccount(a))
    /\ InvoiceInfo(a)
    /\ UNCHANGED <<outside, writer>>

HandleCheckAccount(a) ==
    /\ Receive(CheckAccount(a))
    /\ \/ \E h \in Unpaid(a) : CheckInvoice(h)
       \/ Unpaid(a) = {} /\ InvoiceInfo(a)
    /\ UNCHANGED <<outside, writer>>

HandleInvoicePaid(h) ==
    /\ Receive(InvoicePaid(h))
    /\ CheckInvoice(h)
    /\ UNCHANGED <<outside, writer>>

\* The node issues an invoice, which is recorded.  At the bound it refuses.
GetInvoice ==
    LET h == Cardinality(DOMAIN invoice) + 1 IN
    /\ task.step = "invoice"
    /\ IF h \in Hash
       THEN /\ invoice' = With(invoice, h, [author |-> task.author, status |-> "Unpaid"])
            /\ node' = With(node, h, "Unpaid")
            /\ callbacks' = With(callbacks, h, 0)
            /\ credits' = With(credits, h, 0)
       ELSE UNCHANGED <<invoice, node, callbacks, credits>>
    /\ task' = Idle
    /\ UNCHANGED <<account, spent, queue, writer, disruptions>>

\* Mutant: the author is debited and not admitted.
AdmitDebitsOnly ==
    /\ task.step = "admit"
    /\ account' = [account EXCEPT ![task.author].balance = @ - AdmissionCost]
    /\ spent' = [spent EXCEPT ![task.author] = @ + AdmissionCost]
    /\ task' = Idle
    /\ UNCHANGED <<invoice, credits, outside, queue, writer, disruptions>>

Admit ==
    /\ task.step = "admit"
    /\ account' = [account EXCEPT ![task.author] =
                       [admitted |-> TRUE, balance |-> @.balance - AdmissionCost]]
    /\ spent' = [spent EXCEPT ![task.author] = @ + AdmissionCost]
    /\ task' = Idle
    /\ UNCHANGED <<invoice, credits, outside, queue, writer, disruptions>>

\* The node or the database fails: the rest of the handler is skipped.
HandlerFails ==
    /\ disruptions < MaxDisruptions
    /\ disruptions' = disruptions + 1
    /\ \/ task # Idle /\ task' = Idle /\ UNCHANGED queue
       \/ task = Idle /\ queue # <<>> /\ queue' = Tail(queue) /\ UNCHANGED task
    /\ UNCHANGED <<tables, outside, writer>>

AsksNode(m) ==
    \/ m.type = "InvoicePaid"
    \/ m.type = "CheckAccount" /\ Unpaid(m.author) # {}

\* The node accepts a request and never answers it: the task waits for ever.
NodeSilent ==
    /\ disruptions < MaxDisruptions
    /\ disruptions' = disruptions + 1
    /\ \/ task.step = "invoice" /\ UNCHANGED queue
       \/ task = Idle /\ queue # <<>> /\ AsksNode(Head(queue)) /\ queue' = Tail(queue)
    /\ task' = Waiting
    /\ UNCHANGED <<tables, outside, writer>>

-----------------------------------------------------------------------------
(* The database writer: an event of an author not on the whitelist. *)

\* The author has no account.  An account that owes something is an error, and an
\* insufficient balance is reported; neither changes anything.
PostUnregistered(a) ==
    /\ writer = Free
    /\ a \notin DOMAIN account
    /\ MessageSignUp
    /\ Tell(NewAccount(a))
    /\ UNCHANGED <<tables, outside, task, writer, disruptions>>

PostNotAdmitted(a) ==
    /\ writer = Free
    /\ Readable(a) /\ ~account[a].admitted
    /\ Tell(CheckAccount(a))
    /\ UNCHANGED <<tables, outside, task, writer, disruptions>>

\* Mutant: the balance is read as a signed number and not compared.
PostUnchecked(a) ==
    /\ writer = Free
    /\ a \in DOMAIN account /\ account[a].admitted
    /\ writer' = [step |-> "charge", author |-> a, balance |-> account[a].balance]
    /\ UNCHANGED <<tables, outside, queue, task, disruptions>>

\* Mutant: a balance is taken for an admission.
PostUnadmitted(a) ==
    /\ writer = Free
    /\ Readable(a) /\ account[a].balance >= CostPerEvent
    /\ writer' = [step |-> "charge", author |-> a, balance |-> account[a].balance]
    /\ UNCHANGED <<tables, outside, queue, task, disruptions>>

\* The event passes and is stored.
Post(a) ==
    /\ writer = Free
    /\ Readable(a) /\ account[a].admitted /\ account[a].balance >= CostPerEvent
    /\ writer' = [step |-> "charge", author |-> a, balance |-> account[a].balance]
    /\ UNCHANGED <<tables, outside, queue, task, disruptions>>

\* Mutant: the balance is set from the one read before the event was stored.
ChargeFromReading ==
    /\ writer.step = "charge"
    /\ account' = [account EXCEPT ![writer.author].balance = writer.balance - CostPerEvent]
    /\ spent' = [spent EXCEPT ![writer.author] = @ + CostPerEvent]
    /\ writer' = Free
    /\ UNCHANGED <<invoice, credits, outside, queue, task, disruptions>>

Charge ==
    /\ writer.step = "charge"
    /\ account' = [account EXCEPT ![writer.author].balance = @ - CostPerEvent]
    /\ spent' = [spent EXCEPT ![writer.author] = @ + CostPerEvent]
    /\ writer' = Free
    /\ UNCHANGED <<invoice, credits, outside, queue, task, disruptions>>

\* The error of update_account_balance leaves db_writer.
ChargeFails ==
    /\ writer.step = "charge"
    /\ disruptions < MaxDisruptions
    /\ disruptions' = disruptions + 1
    /\ writer' = [step |-> "dead"]
    /\ UNCHANGED <<tables, outside, queue, task>>

\* The relay stops and starts again on the same database.
Crash ==
    /\ disruptions < MaxDisruptions
    /\ disruptions' = disruptions + 1
    /\ queue' = <<>>
    /\ task' = Idle
    /\ writer' = Free
    /\ UNCHANGED <<tables, outside>>

-----------------------------------------------------------------------------

PaymentTask ==
    \/ \E a \in Author : HandleNewAccount(a) \/ HandleCheckAccount(a)
    \/ \E h \in Hash : HandleInvoicePaid(h)
    \/ GetInvoice \/ Admit

Writer ==
    \/ \E a \in Author : PostUnregistered(a) \/ PostNotAdmitted(a) \/ Post(a)
    \/ Charge

World ==
    \/ \E h \in Hash : Pay(h) \/ Expire(h) \/ Callback(h)
    \/ \E a \in Author : VisitAccount(a) \/ VisitInvoice(a)

Next ==
    \/ PaymentTask \/ Writer \/ World
    \/ HandlerFails \/ NodeSilent \/ ChargeFails \/ Crash

Spec == Init /\ [][Next]_vars

\* The payment task is scheduled.  Nothing makes the node call back: the LNBits
\* processor registers a webhook, the cln_rest processor has none.
FairSpec == Spec /\ WF_vars(PaymentTask)

-----------------------------------------------------------------------------
(* Properties. *)

\* However often the relay hears of a payment, by callbacks or by its own checks,
\* and wherever it stopped in between, the amount is credited once.
CreditedOnce ==
    \A h \in DOMAIN invoice : credits[h] <= (IF node[h] = "Paid" THEN 1 ELSE 0)

\* Nobody is admitted who has not paid an invoice.
AdmittedHasPaid ==
    \A a \in DOMAIN account : account[a].admitted =>
        \E h \in DOMAIN invoice : invoice[h].author = a /\ node[h] = "Paid"

Credited(a) == {h \in DOMAIN invoice : invoice[h].author = a /\ credits[h] = 1}

\* The writer's charges and the payment task's credits and debits never overwrite
\* one another.
Ledger ==
    \A a \in DOMAIN account :
        account[a].balance = AdmissionCost * Cardinality(Credited(a)) - spent[a]

\* An author is asked to pay one invoice at a time, as long as the node's answers
\* are understood.
OneOpenInvoice ==
    disruptions = 0 => \A a \in Author : Cardinality(Unpaid(a)) <= 1

(* The parts of the inductive invariant behind the theorems. *)

Numbered == DOMAIN invoice = 1..Cardinality(DOMAIN invoice)

\* What is credited is paid and will not be taken for unpaid again.
CreditedIsPaid ==
    \A h \in DOMAIN invoice :
        credits[h] # 0 => credits[h] = 1 /\ node[h] = "Paid" /\ invoice[h].status # "Unpaid"

HasPaid(a) == \E h \in DOMAIN invoice : invoice[h].author = a /\ node[h] = "Paid"

AdmitsPayer == task.step = "admit" => HasPaid(task.author)

NoDebtWithoutAccount == \A a \in Author \ DOMAIN account : spent[a] = 0

\* Without failures a status lags behind the node's but never contradicts it, and
\* an author about to get an invoice has none open.
StatusLags ==
    disruptions = 0 => \A h \in DOMAIN invoice : invoice[h].status \in {"Unpaid", node[h]}

OpenOnce ==
    disruptions = 0 =>
        /\ \A a \in Author : \A h, i \in Unpaid(a) : h = i
        /\ task.step = "invoice" => Unpaid(task.author) = {}

PayInv ==
    /\ TypeOK /\ Numbered /\ CreditedIsPaid
    /\ AdmittedHasPaid /\ AdmitsPayer
    /\ Ledger /\ NoDebtWithoutAccount
    /\ StatusLags /\ OpenOnce

\* A message that makes the payment task look at invoice h, one of author a.
Asks(h, a) == \E i \in DOMAIN queue : queue[i] \in {InvoicePaid(h), CheckAccount(a)}

\* Whoever has paid is admitted once the relay is told of the payment or asked to look
\* at the account, by a webhook, a visit or an event, whatever waits before that message
\* and whatever the writer does to the account meanwhile, unless something fails.
PaidGetsAdmitted ==
    \A h \in Hash :
        (h \in DOMAIN invoice /\ node[h] = "Paid" /\ Asks(h, invoice[h].author))
        ~> (\/ disruptions > 0
            \/ h \in DOMAIN invoice /\ account[invoice[h].author].admitted)

\* Once admitted, an author's account does not owe anything, so that the author's
\* events are looked at.
AdmittedOwesNothing ==
    \A a \in DOMAIN account : account[a].admitted => account[a].balance >= 0

-----------------------------------------------------------------------------
(* The tables implement PaidAccess.  An invoice is what the node knows of it, until *)
(* it is credited; no row means no balance.                                         *)

State(h) == IF credits[h] > 0 THEN "Credited" ELSE node[h]

Invoices == [h \in DOMAIN invoice |-> [author |-> invoice[h].author, state |-> State(h)]]

Admitted == {a \in DOMAIN account : account[a].admitted}

Balances == [a \in Author |-> IF a \in DOMAIN account THEN account[a].balance ELSE 0]

Access == INSTANCE PaidAccess WITH
    invoices <- Invoices, admitted <- Admitted, balance <- Balances

\* What the writer charges for was published by an author who is admitted.
ChargesAdmitted == writer.step = "charge" => account[writer.author].admitted

\* Messages that are repeated or lost, handlers that end half-way, restarts, and the writer
\* that charges in the midst of it, cannot be told from a relay that credits each payment
\* once and counts every admission and event in one place.
ImplementsAccess == Access!Spec

=============================================================================
