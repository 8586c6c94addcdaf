SPECIFICATION FairSpec
INVARIANTS NoFabricatedFill
PROPERTIES PhantomOrderLetsGo FillSettles ReconcilerNeverDowngrades
CONSTANTS
    o1 = o1  o2 = o2  i1 = i1  i2 = i2  c1 = c1  c2 = c2  t1 = t1
    None = None
    Orders = {o1}
    Intents = {i1}
    Calls = {c1}
    Ticks = {t1}
    SlotOf <- OneSlot
    Entries = {i1}
    MaxQty = 3
    AcceptedAs = {"new", "calculated"}
    StopStatuses = {"canceled", "rejected", "expired", "done_for_day"}
    PendingCancel = FALSE
    SubmitFailureThreshold = 3
    AbsentThreshold = 3
    MaxFaults = 2
    FastPolls = 4
