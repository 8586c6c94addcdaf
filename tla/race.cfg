SPECIFICATION Spec
INVARIANTS TypeOK OneActiveOrderPerIntent BrokerOrderIsTracked
PROPERTIES RowAndIntentEndTogether PromiseKept
SYMMETRY Symmetry
CONSTANTS
    o1 = o1  o2 = o2  i1 = i1  i2 = i2  c1 = c1  c2 = c2  t1 = t1
    None = None
    Orders = {o1, o2}
    Intents = {i1}
    Calls = {c1, c2}
    Ticks = {t1}
    SlotOf <- OneSlot
    Entries = {i1}
    MaxQty = 1
    AcceptedAs = {"new"}
    StopStatuses = {"canceled"}
    PendingCancel = FALSE
    SubmitFailureThreshold = 1
    AbsentThreshold = 2
    MaxFaults = 1
    FastPolls = 1
