CONSTANTS
    Author = {a, b}
    AdmissionCost = 2
    CostPerEvent = 1
    MessageSignUp = TRUE
    MaxInvoices = 2
    MaxQueue = 2
    MaxCallbacks = 2
    MaxDisruptions = 1

SPECIFICATION FairSpec

INVARIANTS
    TypeOK
    CreditedOnce
    AdmittedHasPaid
    Ledger
    OneOpenInvoice

PROPERTIES
    ImplementsAccess
    PaidGetsAdmitted

CHECK_DEADLOCK FALSE
