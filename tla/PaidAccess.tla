----------------------------- MODULE PaidAccess -----------------------------
(***************************************************************************)
(* What paying a relay promises, without tables, messages or handlers: an  *)
(* invoice is settled once and credited at most once, an author is         *)
(* admitted for having settled one and stays so, and a balance is what     *)
(* credits, admissions and events make of it, each counted in full.        *)
(***************************************************************************)
EXTENDS Integers

CONSTANTS Author, Hash, AdmissionCost, CostPerEvent

VARIABLES
    invoices,   \* payment hash -> author and state of what was issued
    admitted,   \* the authors who may publish
    balance     \* author -> Int

vars == <<invoices, admitted, balance>>

Init ==
    /\ invoices = <<>>
    /\ admitted = {}
    /\ balance = [a \in Author |-> 0]

Issue(h, a) ==
    /\ h \notin DOMAIN invoices
    /\ invoices' = [i \in DOMAIN invoices \cup {h} |->
                       IF i = h THEN [author |-> a, state |-> "Unpaid"] ELSE invoices[i]]
    /\ UNCHANGED <<admitted, balance>>

Becomes(h, state) == invoices' = [invoices EXCEPT ![h].state = state]

Settle(h) ==
    /\ h \in DOMAIN invoices /\ invoices[h].state = "Unpaid"
    /\ Becomes(h, "Paid") \/ Becomes(h, "Expired")
    /\ UNCHANGED <<admitted, balance>>

Credit(h) ==
    /\ h \in DOMAIN invoices /\ invoices[h].state = "Paid"
    /\ Becomes(h, "Credited")
    /\ balance' = [balance EXCEPT ![invoices[h].author] = @ + AdmissionCost]
    /\ UNCHANGED admitted

\* A relay that is slow to credit may admit first, and may debit again whenever it is
\* reminded of a payment.
Admit(a) ==
    /\ \E h \in DOMAIN invoices :
          invoices[h].author = a /\ invoices[h].state \in {"Paid", "Credited"}
    /\ admitted' = admitted \cup {a}
    /\ balance' = [balance EXCEPT ![a] = @ - AdmissionCost]
    /\ UNCHANGED invoices

Charge(a) ==
    /\ a \in admitted
    /\ balance' = [balance EXCEPT ![a] = @ - CostPerEvent]
    /\ UNCHANGED <<invoices, admitted>>

Next ==
    \/ \E h \in Hash : (\E a \in Author : Issue(h, a)) \/ Settle(h) \/ Credit(h)
    \/ \E a \in Author : Admit(a) \/ Charge(a)

Spec == Init /\ [][Next]_vars

=============================================================================
