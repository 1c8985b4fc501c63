CONSTANTS
    t1 = t1
    t2 = t2
    t3 = t3
    o1 = o1
    o2 = o2
    Txs = {t1, t2, t3}
    Orders = {o1, o2}
    OrderOf <- MCOrderOf
    Relays = {r1, r2}
    Batch = 2
    FailNexts = {1, 2}
    MaxOutages = 1
    MaxCrashes = 1
    MaxCancels = 1
SPECIFICATION FairSpec
INVARIANTS AllOrNothing NoLostEvent NoOvertaking DuplicatesExplained
PROPERTY EventuallyPublished
