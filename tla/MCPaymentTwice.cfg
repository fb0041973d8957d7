CONSTANTS
    Author = {a}
    AdmissionCost = 2
    CostPerEvent = 1
    MessageSignUp = TRUE
    MaxInvoices = 2
    MaxQueue = 2
    MaxCallbacks = 1
    MaxDisruptions = 0

SPECIFICATION Spec

INVARIANT AdmittedOwesNothing

CHECK_DEADLOCK FALSE
