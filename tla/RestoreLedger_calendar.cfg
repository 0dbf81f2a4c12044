SPECIFICATION Spec
CONSTANTS
    mail1 = mail1
    cal1 = cal1
    cal2 = cal2
    mailItem = mailItem
    calItem = calItem
    i1 = i1
    i2 = i2
    i3 = i3
    w1 = w1
    w2 = w2
    None = None
    Ops <- TwoCals
    Sources <- Items
    SourceOf <- ItemOf
    TransactionIdOps <- TwoCals
    MailOps <- NoOps
    CloudIds <- ThreeIds
    Workers <- TwoWorkers
    MaxFaults = 2
    LateLanding = TRUE
    PowerLoss = TRUE
    WindowEnds = TRUE
SYMMETRY IdsAndWorkers
INVARIANTS CommittedIsReal AuditReplays
